--------------------------- MODULE HostKeysProofs ---------------------------
(***************************************************************************)
(* For any number of terminals, CLIs, hosts and keys, and whatever fails:  *)
(* the steps that change the product's known_hosts are taken under the     *)
(* lock, by one actor at a time, and change the lines of one host; and     *)
(* what the holder of the lock knows about the host in hand, and what      *)
(* follows from it for the product's known_hosts.                          *)
(***************************************************************************)
EXTENDS HostKeys, SequenceTheorems, WellFoundedInduction, TLAPS

LockInv ==
  /\ holder \in Actor \cup {None}
  /\ at = [a \in Actor |-> at[a]]
  /\ HolderIsLocked

-----------------------------------------------------------------------------
(* The three ways a step moves an actor.                                   *)

LEMMA NobodyIsNone == None \notin Actor
BY ShapeAssumption

LEMMA StaysLocked ==
  ASSUME LockInv, NEW a \in Actor, NEW step, Goes(a, step), UNCHANGED holder,
         at[a] \in Locked <=> step \in Locked
  PROVE  LockInv'
BY DEF LockInv, HolderIsLocked, Goes

LEMMA EndsUnlocked ==
  ASSUME LockInv, NEW a \in Actor, NEW result, Ends(a, result)
  PROVE  LockInv'
BY NobodyIsNone DEF LockInv, HolderIsLocked, Ends, Release, Locked, LockedReview

LEMMA GoesUnlocked ==
  ASSUME LockInv, NEW a \in Actor, NEW step, Goes(a, step), Release(a),
         step \notin Locked
  PROVE  LockInv'
BY NobodyIsNone DEF LockInv, HolderIsLocked, Goes, Release

LEMMA HopTrustedUnlocked ==
  ASSUME LockInv, NEW a \in Actor, HopTrusted(a)
  PROVE  LockInv'
<1> DEFINE step == IF a \in Cli THEN "prepare"
                   ELSE IF job[a].todo = << >> THEN "connect" ELSE "lock"
<1>1. Goes(a, step) /\ Release(a)
  BY DEF HopTrusted
<1>2. step \notin Locked
  BY DEF Locked, LockedReview
<1> QED BY <1>1, <1>2, GoesUnlocked

-----------------------------------------------------------------------------
(* Every step keeps the lock's discipline.                                 *)

LEMMA RegistersKeepsLock ==
  ASSUME LockInv, NEW a \in Actor, Registers(a)
  PROVE  LockInv'
<1>1. CASE Acquire(a)
  BY <1>1, NobodyIsNone DEF Acquire, Goes, LockInv, HolderIsLocked, Locked, LockedReview
<1>2. CASE AcquireTimesOut(a)
  BY <1>2, EndsUnlocked DEF AcquireTimesOut
<1>3. CASE PrepareFileFails(a)
  BY <1>3, EndsUnlocked DEF PrepareFileFails
<1>4. CASE Recheck(a)
  BY <1>4, EndsUnlocked, HopTrustedUnlocked, StaysLocked DEF Recheck, Locked
<1>5. CASE Probe(a)
  BY <1>5, EndsUnlocked, StaysLocked DEF Probe, Locked
<1>6. CASE AppendNew(a)
  BY <1>6, EndsUnlocked, StaysLocked DEF AppendNew, Locked
<1>7. CASE Verify(a)
  BY <1>7, EndsUnlocked, HopTrustedUnlocked DEF Verify
<1>8. CASE \E d \in Device : Dial(a, d)
  BY <1>8 DEF Dial, LockInv, HolderIsLocked
<1> QED BY <1>1, <1>2, <1>3, <1>4, <1>5, <1>6, <1>7, <1>8 DEF Registers

LEMMA ReviewsKeepsLock ==
  ASSUME LockInv, NEW c \in Cli, Reviews(c)
  PROVE  LockInv'
<1>a. c \in Actor
  BY DEF Actor
<1>b. ASSUME NEW step, NEW next, at[c] = step, Goes(c, next), UNCHANGED holder,
             step \in Locked <=> next \in Locked
      PROVE  LockInv'
  BY <1>a, <1>b, StaysLocked
<1>1. CASE Prepare(c)
  <2>1. at[c] = "prepare" /\ UNCHANGED holder
    BY <1>1 DEF Prepare
  <2>2. Goes(c, "prepare") \/ Goes(c, "connect") \/ Goes(c, "lock")
    BY <1>1 DEF Prepare
  <2> QED BY <2>1, <2>2, <1>b DEF Locked, LockedReview
<1>2. CASE PrepareUnclear(c)
  BY <1>2, <1>a, EndsUnlocked DEF PrepareUnclear
<1>3. CASE Collected(c)
  <2>1. at[c] = "connect"
    BY <1>3 DEF Collected, AllDialed
  <2>2. \/ \E result : Ends(c, result)
        \/ Goes(c, "lookup") /\ UNCHANGED holder
    BY <1>3 DEF Collected
  <2> QED BY <2>1, <2>2, <1>a, <1>b, EndsUnlocked DEF Locked, LockedReview
<1>4. CASE Lookup(c) \/ Sign(c) \/ Reprobe(c) \/ Confirm(c)
  <2>1. CASE \E result : Ends(c, result)
    BY <2>1, <1>a, EndsUnlocked
  <2>2. CASE ~ \E result : Ends(c, result)
    <3>1. UNCHANGED holder
      BY <1>4, <2>2 DEF Lookup, Sign, Reprobe, Confirm, GivesUp
    <3>2. at[c] \in {"lookup", "sign", "reprobe", "confirm"}
      BY <1>4 DEF Lookup, Sign, Reprobe, Confirm
    <3>3. \E next \in {"sign", "reprobe", "confirm", "relock"} : Goes(c, next)
      BY <1>4, <2>2 DEF Lookup, Sign, Reprobe, Confirm, GivesUp
    <3> QED BY <3>1, <3>2, <3>3, <1>b DEF Locked, LockedReview
  <2> QED BY <2>1, <2>2
<1>5. CASE \/ Compare(c) \/ Inspect(c) \/ ReadFile(c) \/ Backup(c) \/ RemoveHost(c)
           \/ CheckRemoved(c) \/ Tidy(c) \/ Reappend(c)
  <2>1. CASE \E result : Ends(c, result)
    BY <2>1, <1>a, EndsUnlocked
  <2>2. CASE ~ \E result : Ends(c, result)
    <3>1. UNCHANGED holder
      BY <1>5, <2>2 DEF Compare, Inspect, ReadFile, Backup, RemoveHost, CheckRemoved,
                        Tidy, Reappend, Breaks
    <3>2. at[c] \in LockedReview
      BY <1>5 DEF Compare, Inspect, ReadFile, Backup, RemoveHost, CheckRemoved,
                  Tidy, Reappend, LockedReview
    <3>3. \E next \in LockedReview : Goes(c, next)
      BY <1>5, <2>2 DEF Compare, Inspect, ReadFile, Backup, RemoveHost, CheckRemoved,
                        Tidy, Reappend, Breaks, LockedReview
    <3> QED BY <3>1, <3>2, <3>3, <1>b DEF Locked
  <2> QED BY <2>1, <2>2
<1>6. CASE Reverify(c)
  <2>1. \/ Goes(c, "prepare") /\ Release(c)
        \/ at[c] = "reverify" /\ Goes(c, "restore") /\ UNCHANGED holder
    BY <1>6 DEF Reverify, Replaced
  <2> QED BY <2>1, <1>a, <1>b, GoesUnlocked DEF Locked, LockedReview
<1>7. CASE Restore(c)
  <2>1. \E result : Ends(c, result)
    BY <1>7 DEF Restore
  <2> QED BY <2>1, <1>a, EndsUnlocked
<1> QED BY <1>1, <1>2, <1>3, <1>4, <1>5, <1>6, <1>7 DEF Reviews

LEMMA NextKeepsLock == LockInv /\ [Next]_vars => LockInv'
<1> SUFFICES ASSUME LockInv, [Next]_vars PROVE LockInv'
  OBVIOUS
<1>1. CASE UNCHANGED vars
  BY <1>1 DEF vars, LockInv, HolderIsLocked
<1>2. CASE \E a \in Actor : Registers(a)
  BY <1>2, RegistersKeepsLock
<1>3. CASE \E a \in Actor : Crash(a)
  BY <1>3, EndsUnlocked DEF Crash
<1>4. CASE \E t \in Terminal : Opened(t)
  BY <1>4, EndsUnlocked DEF Opened, Actor
<1>5. CASE \E t \in Terminal, d \in Device : OpenTerminal(t, d)
  BY <1>5, StaysLocked DEF OpenTerminal, Actor, Locked, LockedReview
<1>6. CASE \E c \in Cli : Discover(c)
  BY <1>6, StaysLocked DEF Discover, Actor, Locked, LockedReview
<1>7. CASE \E c \in Cli : Reviews(c)
  BY <1>7, ReviewsKeepsLock
<1>8. CASE \E h \in Host, k \in Key :
             Rekey(h, k) \/ EditProduct(h, <<k>>) \/ EditProduct(h, << >>) \/ EditOutside(h, k)
  BY <1>8 DEF Rekey, EditProduct, EditOutside, LockInv, HolderIsLocked
<1> QED BY <1>1, <1>2, <1>3, <1>4, <1>5, <1>6, <1>7, <1>8 DEF Next

(* At most one actor is between acquiring the known_hosts lock and giving  *)
(* it back, the one the lock names, and the lock is free when nobody is.   *)
THEOREM LockIsExclusive == Spec => []HolderIsLocked
<1>1. Init => LockInv
  BY NobodyIsNone DEF Init, LockInv, HolderIsLocked, Locked, LockedReview
<1>2. LockInv => HolderIsLocked
  BY DEF LockInv
<1> QED BY <1>1, <1>2, NextKeepsLock, PTL DEF Spec

-----------------------------------------------------------------------------
(* What the steps do to the file.                                          *)

FileInv ==
  /\ product = [h \in Host |-> product[h]]
  /\ edits \in Nat

(* The lines of one host at most change, and the holder works on it.       *)
OnlyHoldersHost ==
  \A h \in Host : product'[h] # product[h] =>
    \E a \in Actor : holder = a /\ job[a].hop.host = h

LEMMA WritesOneHost ==
  ASSUME FileInv, NEW h, NEW keys, Writes(h, keys), UNCHANGED edits
  PROVE  /\ FileInv'
         /\ \A g \in Host : product'[g] # product[g] => g = h
BY DEF FileInv, Writes

LEMMA HolderWrites ==
  ASSUME FileInv, LockInv, NEW a \in Actor, at[a] \in Locked, NEW keys,
         Writes(job[a].hop.host, keys), UNCHANGED edits
  PROVE  FileInv' /\ OnlyHoldersHost
<1>1. holder = a
  BY DEF LockInv, HolderIsLocked
<1> QED BY <1>1, WritesOneHost DEF OnlyHoldersHost

LEMMA UnwrittenFile ==
  ASSUME FileInv, UNCHANGED <<product, edits>>
  PROVE  FileInv' /\ OnlyHoldersHost
BY DEF FileInv, OnlyHoldersHost

LEMMA RegistersWritesLocked ==
  ASSUME FileInv, LockInv, NEW a \in Actor, Registers(a)
  PROVE  FileInv' /\ OnlyHoldersHost
<1>1. CASE AppendNew(a)
  <2>1. at[a] \in Locked /\ UNCHANGED edits
    BY <1>1 DEF AppendNew, Locked, world
  <2>2. AppendEntry(a) \/ UNCHANGED product
    BY <1>1 DEF AppendNew, file
  <2> QED BY <2>1, <2>2, HolderWrites, UnwrittenFile DEF AppendEntry
<1>2. CASE ~AppendNew(a)
  <2>1. UNCHANGED <<product, edits>>
    BY <1>2 DEF Registers, Acquire, AcquireTimesOut, PrepareFileFails, Recheck,
                Probe, Verify, Dial, file, world
  <2> QED BY <2>1, UnwrittenFile
<1> QED BY <1>1, <1>2

LEMMA ReviewsWritesLocked ==
  ASSUME FileInv, LockInv, NEW c \in Cli, Reviews(c)
  PROVE  FileInv' /\ OnlyHoldersHost
<1>a. c \in Actor
  BY DEF Actor
<1>1. CASE RemoveHost(c) \/ Reappend(c) \/ Restore(c)
  <2>1. at[c] \in Locked /\ UNCHANGED edits
    BY <1>1 DEF RemoveHost, Reappend, Restore, Breaks, Locked, LockedReview, world
  <2>2. (\E keys : Writes(job[c].hop.host, keys)) \/ UNCHANGED product
    BY <1>1 DEF RemoveHost, Reappend, Restore, Breaks, AppendEntry, file
  <2> QED BY <1>a, <2>1, <2>2, HolderWrites, UnwrittenFile
<1>2. CASE ~(RemoveHost(c) \/ Reappend(c) \/ Restore(c))
  <2>1. UNCHANGED <<product, edits>>
    BY <1>2 DEF Reviews, Prepare, PrepareUnclear, Collected, Lookup, Sign, Reprobe,
                Confirm, Compare, Inspect, ReadFile, Backup, CheckRemoved, Tidy,
                Reverify, GivesUp, Breaks, file, world
  <2> QED BY <2>1, UnwrittenFile
<1> QED BY <1>1, <1>2

LEMMA EditsCount ==
  ASSUME FileInv, NEW h \in Host, NEW keys, EditProduct(h, keys)
  PROVE  FileInv' /\ edits' # edits
BY DEF FileInv, EditProduct, Writes

LEMMA NextWritesLocked ==
  ASSUME FileInv, LockInv, [Next]_vars
  PROVE  FileInv' /\ (edits' = edits => OnlyHoldersHost)
<1>1. CASE UNCHANGED vars
  BY <1>1, UnwrittenFile DEF vars, file, world
<1>2. CASE \E a \in Actor : Registers(a)
  BY <1>2, RegistersWritesLocked
<1>3. CASE \E c \in Cli : Reviews(c)
  BY <1>3, ReviewsWritesLocked
<1>4. CASE \E a \in Actor : Crash(a)
  BY <1>4, UnwrittenFile DEF Crash, file, world
<1>5. CASE \E t \in Terminal : Opened(t) \/ \E d \in Device : OpenTerminal(t, d)
  BY <1>5, UnwrittenFile DEF Opened, OpenTerminal, file, world
<1>6. CASE \E c \in Cli : Discover(c)
  BY <1>6, UnwrittenFile DEF Discover, file, world
<1>7. CASE \E h \in Host, k \in Key : EditProduct(h, <<k>>) \/ EditProduct(h, << >>)
  BY <1>7, EditsCount
<1>8. CASE \E h \in Host, k \in Key : Rekey(h, k)
  BY <1>8, UnwrittenFile DEF Rekey, file
<1>9. CASE \E h \in Host, k \in Key : EditOutside(h, k)
  <2>1. edits' = edits + 1 /\ UNCHANGED product
    BY <1>9 DEF EditOutside, file
  <2> QED BY <2>1 DEF FileInv
<1> QED BY <1>1, <1>2, <1>3, <1>4, <1>5, <1>6, <1>7, <1>8, <1>9 DEF Next

(* However the steps of registrations and replacements interleave, fail or *)
(* crash, the program changes the lines of one host at a time, the one     *)
(* that the holder of the lock works on.                                   *)
THEOREM WritesAreLocked == Spec => WritesOneHostUnderLock
<1>1. Init => LockInv /\ FileInv
  BY NobodyIsNone, ShapeAssumption
     DEF Init, LockInv, HolderIsLocked, Locked, LockedReview, FileInv
<1>2. LockInv /\ FileInv /\ [Next]_vars =>
        /\ LockInv' /\ FileInv'
        /\ [edits' = edits =>
              \A h \in Host : product'[h] # product[h] =>
                \E a \in Actor : holder = a /\ job[a].hop.host = h]_vars
  BY NextKeepsLock, NextWritesLocked DEF OnlyHoldersHost
<1> QED BY <1>1, <1>2, PTL DEF Spec, WritesOneHostUnderLock

-----------------------------------------------------------------------------
(* Types, and what a step needs to have in hand.                           *)

(* The steps that work on a hop, and those that have its probed key.       *)
Handling == {"lock", "lookup", "sign", "reprobe", "confirm", "relock"} \cup Locked
Keyed == {"append", "verify", "confirm", "relock"} \cup LockedReview

Sound(step, j) ==
  /\ step \in Handling => j.hop \in Visit
  /\ step \in Keyed => j.key \in Key
  /\ \A d \in Device : /\ j.way[d] \in Seq(Range(Hops[d]))
                       /\ j.bad[d] \in Range(Hops[d]) \cup {None, Refused}

WorkInv ==
  /\ at \in [Actor -> Steps]
  /\ job \in [Actor -> Job]
  /\ said \in [Actor -> Results]
  /\ \A a \in Actor : Sound(at[a], job[a])

DataInv ==
  /\ product \in [Host -> Seq(Key)]
  /\ outside \in [Host -> SUBSET Key]
  /\ presented \in [Host -> Key]
  /\ fresh \subseteq Cli
  /\ approvals \in [Cli -> SUBSET Approval]
  /\ rekeys \in 0..MaxRekeys
  /\ edits \in 0..MaxEdits

TypeInv == LockInv /\ WorkInv /\ DataInv

LEMMA HopsAreHosts ==
  ASSUME NEW d \in Device
  PROVE  /\ Hops[d] \in Seq(Host) /\ Hops[d] # << >>
         /\ Range(Hops[d]) \subseteq Host
         /\ Hops[d] \in Seq(Range(Hops[d]))
<1>1. Hops[d] \in Seq(Host) /\ Hops[d] # << >>
  BY ShapeAssumption
<1> QED BY <1>1 DEF Range

LEMMA VisitsAreVisits ==
  ASSUME NEW d \in Device
  PROVE  /\ Visits(d) \in Seq(Visit) /\ Visits(d) # << >>
         /\ Len(Visits(d)) = Len(Hops[d])
         /\ \A i \in DOMAIN Hops[d] : Visits(d)[i] \in Visit
<1> DEFINE visit(i) == [host |-> Hops[d][i], via |-> IF i = 1 THEN None ELSE Hops[d][i - 1]]
<1>1. Hops[d] \in Seq(Host) /\ Hops[d] # << >> /\ DOMAIN Hops[d] = 1..Len(Hops[d])
  BY HopsAreHosts
<1>2. ASSUME NEW i \in 1..Len(Hops[d])
      PROVE  visit(i) \in Visit
  <2>1. Hops[d][i] \in Host
    BY <1>1
  <2>2. i # 1 => Hops[d][i - 1] \in Host
    BY <1>1
  <2> QED BY <2>1, <2>2 DEF Visit
<1>3. Visits(d) = [i \in 1..Len(Hops[d]) |-> visit(i)]
  BY <1>1 DEF Visits
<1> HIDE DEF visit
<1>4. Len(Hops[d]) \in Nat \ {0}
  BY <1>1
<1>5. Visits(d) \in [1..Len(Hops[d]) -> Visit]
  BY <1>2, <1>3
<1>6. Visits(d) \in Seq(Visit) /\ Len(Visits(d)) = Len(Hops[d])
  BY <1>4, <1>5
<1> QED BY <1>1, <1>4, <1>5, <1>6

(* Induction over the numbers up to N, in the first-order form the provers *)
(* can use: the numbers at which something holds are a set.                *)
LEMMA Induction ==
  ASSUME NEW N \in Nat, NEW S, 0 \in S, \A n \in 1..N : n - 1 \in S => n \in S
  PROVE  0..N \subseteq S
<1> DEFINE Bad == (0..N) \ S
           Below == OpToRel(<, Nat)
<1>1. Bad \subseteq Nat
  OBVIOUS
<1>2. ASSUME NEW n \in Bad PROVE n - 1 \in Bad /\ n - 1 < n
  <2>1. n \in 1..N
    OBVIOUS
  <2> QED
    BY <2>1
<1>3. \A m, n \in Nat : m < n => <<m, n>> \in Below
  BY SMT DEF OpToRel
<1>4. IsWellFoundedOn(Below, Nat)
  BY NatLessThanWellFounded
<1> HIDE DEF Below, Bad
<1>5. Bad # {} => \E n \in Bad : \A m \in Bad : ~ (<<m, n>> \in Below)
  BY <1>1, <1>4, WFMin
<1>6. Bad = {}
  BY <1>1, <1>2, <1>3, <1>5, Zenon
<1> QED
  BY <1>6 DEF Bad

(* Recursion up to N: the values exist if each has its next one.           *)
Recurs(f, N, base, step) == f[0] = base /\ \A n \in 1..N : f[n] = step[n][f[n - 1]]

LEMMA Recursion ==
  ASSUME NEW N \in Nat, NEW V, NEW base \in V, NEW step \in [1..N -> [V -> V]]
  PROVE  \E f \in [0..N -> V] : Recurs(f, N, base, step)
<1> DEFINE UpTo(f, n) == /\ f \in [0..n -> V] /\ f[0] = base
                         /\ \A i \in 1..n : f[i] = step[i][f[i - 1]]
           S == {n \in 0..N : \E f : UpTo(f, n)}
<1>1. 0 \in S
  <2> DEFINE f == [i \in 0..0 |-> base]
  <2>1. UpTo(f, 0)
    OBVIOUS
  <2> HIDE DEF f
  <2>2. \E g : UpTo(g, 0)
    BY <2>1
  <2> QED
    BY <2>2
<1>2. ASSUME NEW n \in 1..N, n - 1 \in S PROVE n \in S
  <2>1. PICK f : UpTo(f, n - 1)
    BY <1>2
  <2> DEFINE last == step[n][f[n - 1]]
             g == [i \in 0..n |-> IF i = n THEN last ELSE f[i]]
  <2>2. last \in V
    <3>1. f[n - 1] \in V
      BY <2>1
    <3> QED
      BY <3>1
  <2> HIDE DEF last
  <2>3. \A i \in 0..n : i = n \/ i \in 0..(n - 1)
    OBVIOUS
  <2>4. g \in [0..n -> V] /\ g[0] = base
    BY <2>1, <2>2, <2>3
  <2>5. ASSUME NEW i \in 1..n PROVE g[i] = step[i][g[i - 1]]
    <3>1. g[i - 1] = f[i - 1]
      OBVIOUS
    <3>2. CASE i = n
      BY <3>1, <3>2 DEF last
    <3>3. CASE i # n
      <4>1. i \in 1..(n - 1) /\ g[i] = f[i]
        BY <3>3
      <4> QED
        BY <2>1, <3>1, <4>1
    <3> QED
      BY <3>2, <3>3
  <2> HIDE DEF g
  <2>6. UpTo(g, n)
    BY <2>4, <2>5
  <2> QED
    BY <2>6
<1> HIDE DEF S
<1>3. 0..N \subseteq S
  BY <1>1, <1>2, Induction
<1>4. N \in S
  BY <1>3
<1> QED
  BY <1>4 DEF S, Recurs

(* The hops of all targets are hops.                                       *)
LEMMA AllVisitsAre ==
  \E f : /\ AllVisits = f[Len(Targets)] /\ f[0] = << >>
         /\ \A n \in 1..Len(Targets) : f[n] = f[n - 1] \o Visits(Targets[n])
<1> DEFINE N == Len(Targets)
           Made(f) == [n \in 0..N |-> IF n = 0 THEN << >> ELSE f[n - 1] \o Visits(Targets[n])]
           F == CHOOSE f : f = Made(f)
           none == << >>
           V == Seq(Visit)
           step == [n \in 1..N |-> [seq \in V |-> seq \o Visits(Targets[n])]]
<1>1. N \in Nat /\ \A n \in 1..N : Targets[n] \in Device
  BY ShapeAssumption
<1>2. AllVisits = F[N]
  BY DEF AllVisits
<1> HIDE DEF N
<1>3. none \in V /\ step \in [1..N -> [V -> V]]
  <2>1. \A n \in 1..N : Visits(Targets[n]) \in Seq(Visit)
    BY <1>1, VisitsAreVisits
  <2>2. \A n \in 1..N, seq \in Seq(Visit) : seq \o Visits(Targets[n]) \in Seq(Visit)
    BY <2>1, ConcatProperties
  <2> QED
    BY <2>2
<1>4. /\ \A f \in [0..N -> V], n \in 1..N : n - 1 \in 0..N /\ f[n - 1] \in V
      /\ \A n \in 1..N, seq \in V : step[n][seq] = seq \o Visits(Targets[n])
  <2> HIDE DEF V
  <2> QED
    BY <1>1
<1> HIDE DEF step, V, none
<1>5. PICK f \in [0..N -> V] : Recurs(f, N, none, step)
  BY <1>1, <1>3, Recursion
<1>6. f[0] = none /\ \A n \in 1..N : f[n] = step[n][f[n - 1]]
  BY <1>5 DEF Recurs
<1>7. \A n \in 1..N : f[n] = f[n - 1] \o Visits(Targets[n])
  BY <1>4, <1>6
<1>8. f = Made(f)
  <2>1. \A n \in 0..N : n = 0 \/ (n # 0 /\ n \in 1..N)
    BY <1>1
  <2> QED
    BY <1>6, <1>7, <2>1 DEF none
<1>9. F = Made(F)
  <2> HIDE DEF Made
  <2> QED
    BY <1>8
<1> HIDE DEF F
<1>10. F[0] = << >> /\ \A n \in 1..N : F[n] = F[n - 1] \o Visits(Targets[n])
  <2>1. 0 \in 0..N /\ \A n \in 1..N : n \in 0..N /\ n # 0
    BY <1>1
  <2> QED
    BY <1>9, <2>1
<1> QED
  BY <1>2, <1>10 DEF N

LEMMA AllVisitsAreVisits == AllVisits \in Seq(Visit)
<1> DEFINE N == Len(Targets)
<1>1. N \in Nat /\ \A n \in 1..N : Visits(Targets[n]) \in Seq(Visit)
  <2>1. Targets \in Seq(Device)
    BY ShapeAssumption
  <2> QED
    BY <2>1, VisitsAreVisits
<1>2. PICK f : /\ AllVisits = f[N] /\ f[0] = << >>
              /\ \A n \in 1..N : f[n] = f[n - 1] \o Visits(Targets[n])
  BY AllVisitsAre
<1> HIDE DEF N
<1> DEFINE Lists == {n \in 0..N : f[n] \in Seq(Visit)}
<1>3. 0 \in Lists
  <2>1. 0 \in 0..N /\ << >> \in Seq(Visit)
    BY <1>1
  <2> QED
    BY <1>2, <2>1
<1>4. ASSUME NEW n \in 1..N, n - 1 \in Lists PROVE n \in Lists
  <2>1. f[n - 1] \in Seq(Visit) /\ Visits(Targets[n]) \in Seq(Visit) /\ n \in 0..N
    BY <1>1, <1>4
  <2>2. f[n - 1] \o Visits(Targets[n]) \in Seq(Visit)
    BY <2>1, ConcatProperties
  <2> QED
    BY <1>2, <2>1, <2>2
<1> HIDE DEF Lists
<1>5. 0..N \subseteq Lists
  BY <1>1, <1>3, <1>4, Induction
<1>6. N \in Lists
  BY <1>1, <1>5
<1> QED
  BY <1>2, <1>6 DEF Lists

LEMMA IdleIsJob == Idle \in Job /\ \A step \in Steps \ Handling : Sound(step, Idle)
<1> DEFINE way == [d \in Device |-> << >>]
           bad == [d \in Device |-> None]
           saved == [h \in Host |-> << >>]
<1>1. << >> \in Seq(Visit) /\ << >> \in Seq(Host) /\ << >> \in Seq(Key) /\ 0 \in 0..MaxRecoveries
  BY BoundAssumption
<1>2. /\ way \in [Device -> Seq(Host)] /\ saved \in [Host -> Seq(Key)]
      /\ bad \in [Device -> Host \cup {None, Refused}]
  BY <1>1
<1>3. \A d \in Device : /\ way[d] \in Seq(Range(Hops[d]))
                        /\ bad[d] \in Range(Hops[d]) \cup {None, Refused}
  OBVIOUS
<1>4. /\ Idle = [todo |-> << >>, hop |-> None, key |-> None, known |-> {}, way |-> way,
                  bad |-> bad, shown |-> << >>, saved |-> saved, recoveries |-> 0]
  BY DEF Idle
<1> HIDE DEF way, bad, saved
<1>5. Idle \in Job
  BY <1>1, <1>2, <1>4 DEF Job
<1>6. Keyed \subseteq Handling
  BY DEF Keyed, Handling, Locked, LockedReview
<1>7. Idle.way = way /\ Idle.bad = bad
  BY <1>4
<1> QED BY <1>3, <1>5, <1>6, <1>7 DEF Sound

LEMMA FreshIsJob ==
  ASSUME NEW j \in Job
  PROVE  Fresh(j) \in Job /\ Sound("prepare", Fresh(j))
<1> DEFINE way == [d \in Device |-> IF d \in Range(Targets) THEN Hops[d] ELSE << >>]
<1>1. way \in [Device -> Seq(Host)] /\ \A d \in Device : way[d] \in Seq(Range(Hops[d]))
  <2>1. ASSUME NEW d \in Device
        PROVE  way[d] \in Seq(Host) /\ way[d] \in Seq(Range(Hops[d]))
    <3>1. Hops[d] \in Seq(Host) /\ Hops[d] \in Seq(Range(Hops[d]))
      BY HopsAreHosts
    <3>2. << >> \in Seq(Host) /\ << >> \in Seq(Range(Hops[d]))
      OBVIOUS
    <3> QED BY <3>1, <3>2
  <2> QED BY <2>1
<1>2. Fresh(j) = [Idle EXCEPT !.todo = AllVisits, !.recoveries = j.recoveries, !.way = way]
  BY DEF Fresh
<1> HIDE DEF way
<1>3. Fresh(j) \in Job
  BY <1>1, <1>2, IdleIsJob, AllVisitsAreVisits DEF Job
<1>4. Fresh(j).way = way /\ Fresh(j).bad = Idle.bad
  BY <1>2 DEF Idle
<1>5. "prepare" \notin Handling /\ "prepare" \notin Keyed
  BY DEF Handling, Keyed, Locked, LockedReview
<1> QED BY <1>1, <1>3, <1>4, <1>5 DEF Sound, Idle

(* How the step of an actor changes what it is doing.                      *)
LEMMA Moves ==
  ASSUME WorkInv, NEW a \in Actor, NEW step \in Steps, NEW j \in Job, Sound(step, j),
         at' = [at EXCEPT ![a] = step], job' = [job EXCEPT ![a] = j],
         \/ UNCHANGED said
         \/ \E result \in Results : said' = [said EXCEPT ![a] = result]
  PROVE  WorkInv'
BY DEF WorkInv

LEMMA MovesOn ==
  ASSUME WorkInv, NEW a \in Actor, NEW step \in Steps, Goes(a, step), UNCHANGED job,
         Sound(step, job[a])
  PROVE  WorkInv'
<1>1. job[a] \in Job /\ job' = [job EXCEPT ![a] = job[a]]
  BY DEF WorkInv
<1> QED BY <1>1, Moves DEF Goes

LEMMA MovesWith ==
  ASSUME WorkInv, NEW a \in Actor, NEW step \in Steps, Goes(a, step), NEW j \in Job,
         job' = [job EXCEPT ![a] = j], Sound(step, j)
  PROVE  WorkInv'
BY Moves DEF Goes

LEMMA EndsWell ==
  ASSUME WorkInv, NEW a \in Actor, NEW result \in Results, Ends(a, result)
  PROVE  WorkInv'
<1>1. "idle" \in Steps \ Handling
  BY DEF Steps, Handling, Locked, LockedReview
<1> QED BY <1>1, Moves, IdleIsJob DEF Ends

LEMMA HeadAndTail ==
  ASSUME NEW S, NEW s \in Seq(S), s # << >>
  PROVE  Head(s) \in S /\ Tail(s) \in Seq(S)
OBVIOUS

(* The holder's trusted hop, and the next one.                             *)
LEMMA TrustsWell ==
  ASSUME WorkInv, NEW a \in Actor, HopTrusted(a), job[a].hop \in Visit
  PROVE  WorkInv'
<1> DEFINE todo == job[a].todo
           last == a \in Cli \/ todo = << >>
           step == IF a \in Cli THEN "prepare" ELSE IF todo = << >> THEN "connect" ELSE "lock"
           j == [job[a] EXCEPT !.known = @ \cup {job[a].hop.host}, !.key = None,
                               !.hop = IF last THEN None ELSE Head(todo),
                               !.todo = IF last THEN todo ELSE Tail(todo)]
<1>1. job[a] \in Job /\ Sound(at[a], job[a]) /\ job[a].hop.host \in Host
  BY DEF WorkInv, Visit
<1>2. ~last => Head(todo) \in Visit /\ Tail(todo) \in Seq(Visit)
  BY <1>1 DEF Job
<1>3. j \in Job
  BY <1>1, <1>2 DEF Job
<1>4. job' = [job EXCEPT ![a] = j] /\ Goes(a, step)
  BY <1>1 DEF HopTrusted, WorkInv
<1>5. j.way = job[a].way /\ j.bad = job[a].bad /\ (step = "lock" => j.hop \in Visit)
  BY <1>1, <1>2 DEF Job
<1>6. step \in Steps /\ step \notin Keyed /\ (step \in Handling => step = "lock")
  BY DEF Steps, TofuSteps, Keyed, Handling, Locked, LockedReview
<1> HIDE DEF j, step
<1>7. Sound(step, j)
  BY <1>1, <1>5, <1>6 DEF Sound
<1> QED BY <1>3, <1>4, <1>6, <1>7, MovesWith

LEMMA RegistersWork ==
  ASSUME WorkInv, DataInv, NEW a \in Actor, Registers(a)
  PROVE  WorkInv'
<1>j. job[a] \in Job /\ Sound(at[a], job[a])
  BY DEF WorkInv
<1>1. CASE Acquire(a)
  <2>1. PICK step \in {"recheck", "compare"} :
          Goes(a, step) /\ at[a] = IF step = "recheck" THEN "lock" ELSE "relock"
    BY <1>1 DEF Acquire
  <2>2. Sound(step, job[a]) /\ step \in Steps
    BY <1>j, <2>1 DEF Sound, Handling, Keyed, Locked, LockedReview, Steps, TofuSteps
  <2> QED BY <1>1, <2>1, <2>2, MovesOn DEF Acquire
<1>2. CASE AcquireTimesOut(a) \/ PrepareFileFails(a)
  BY <1>2, EndsWell DEF AcquireTimesOut, PrepareFileFails, Results
<1>3. CASE Recheck(a)
  <2>1. job[a].hop \in Visit
    BY <1>3, <1>j DEF Recheck, Sound, Handling, Locked
  <2>2. Sound("probe", job[a]) /\ "probe" \in Steps /\ "failed" \in Results
    BY <1>j, <2>1 DEF Sound, Handling, Keyed, Locked, LockedReview, Steps, TofuSteps, Results
  <2> QED BY <1>3, <2>1, <2>2, TrustsWell, MovesOn, EndsWell DEF Recheck
<1>4. CASE Probe(a)
  <2> DEFINE j == [job[a] EXCEPT !.key = presented[job[a].hop.host]]
  <2>1. job[a].hop \in Visit /\ job[a].hop.host \in Host
    BY <1>4, <1>j DEF Probe, Sound, Handling, Locked, Visit
  <2>2. j.key \in Key /\ j \in Job /\ j.hop = job[a].hop /\ j.way = job[a].way /\ j.bad = job[a].bad
    BY <1>j, <2>1 DEF Job, DataInv
  <2> HIDE DEF j
  <2>3. Sound("append", j) /\ "append" \in Steps /\ "failed" \in Results
    BY <1>j, <2>1, <2>2 DEF Sound, Steps, TofuSteps, Results
  <2>4. CASE Ends(a, "failed")
    BY <2>3, <2>4, EndsWell
  <2>5. CASE Goes(a, "append") /\ job' = [job EXCEPT ![a] = j]
    BY <2>2, <2>3, <2>5, MovesWith
  <2>6. CASE Goes(a, "append") /\ job' = [job EXCEPT ![a].key = presented[job[a].hop.host]]
    BY <2>5, <2>6 DEF j, WorkInv
  <2> QED BY <1>4, <2>4, <2>6 DEF Probe
<1>5. CASE AppendNew(a)
  <2>1. Sound("verify", job[a]) /\ "verify" \in Steps /\ "failed" \in Results
    BY <1>5, <1>j DEF AppendNew, Sound, Handling, Keyed, Locked, Steps, TofuSteps, Results
  <2> QED BY <1>5, <2>1, MovesOn, EndsWell DEF AppendNew
<1>6. CASE Verify(a)
  <2>1. job[a].hop \in Visit /\ "failed" \in Results
    BY <1>6, <1>j DEF Verify, Sound, Handling, Locked, Results
  <2> QED BY <1>6, <2>1, TrustsWell, EndsWell DEF Verify
<1>7. CASE \E d \in Device : Dial(a, d)
  <2>1. PICK d \in Device : Dial(a, d)
    BY <1>7
  <2> DEFINE h == Head(job[a].way[d])
             forth == [job[a].way EXCEPT ![d] = Tail(@)]
             stop(bad) == [job[a].bad EXCEPT ![d] = bad]
  <2>1a. /\ job[a].way \in [Device -> Seq(Host)]
         /\ job[a].bad \in [Device -> Host \cup {None, Refused}]
    BY <1>j DEF Job
  <2>1b. /\ job[a].way[d] # << >> /\ job[a].way[d] \in Seq(Host)
         /\ job[a].way[d] \in Seq(Range(Hops[d]))
    BY <2>1, <2>1a, <1>j DEF Dial, Sound
  <2>2. Range(Hops[d]) \subseteq Host
    BY HopsAreHosts
  <2>3. h \in Range(Hops[d]) /\ Tail(job[a].way[d]) \in Seq(Range(Hops[d]))
        /\ Tail(job[a].way[d]) \in Seq(Host)
    BY <2>1b, HeadAndTail
  <2>4. at[a] = "connect" /\ at' = at /\ said' = said
    BY <2>1 DEF Dial
  <2>5. \/ job' = [job EXCEPT ![a].way[d] = Tail(@)]
        \/ \E bad \in {h, Refused} : job' = [job EXCEPT ![a].bad[d] = bad]
    BY <2>1 DEF Dial
  <2> HIDE DEF h
  <2>c. "connect" \notin Handling /\ "connect" \notin Keyed
    BY DEF Handling, Keyed, Locked, LockedReview
  <2>7. at' = [at EXCEPT ![a] = "connect"] /\ "connect" \in Steps
    BY <2>4 DEF WorkInv, Steps
  <2>6. CASE job' = [job EXCEPT ![a].way[d] = Tail(@)]
    <3> DEFINE j == [job[a] EXCEPT !.way = forth]
    <3>1. forth \in [Device -> Seq(Host)]
          /\ \A e \in Device : forth[e] = IF e = d THEN Tail(job[a].way[d]) ELSE job[a].way[e]
      BY <2>1a, <2>3
    <3> HIDE DEF forth
    <3>2. j \in Job /\ j.way = forth /\ j.bad = job[a].bad
      BY <1>j, <3>1 DEF Job
    <3>3. job' = [job EXCEPT ![a] = j]
      BY <2>6, <1>j DEF forth, WorkInv, Job
    <3> HIDE DEF j
    <3>4. Sound("connect", j)
      BY <1>j, <2>3, <2>c, <3>1, <3>2 DEF Sound
    <3> QED BY <2>4, <2>7, <3>2, <3>3, <3>4, Moves
  <2>8. ASSUME NEW bad \in {h, Refused}, job' = [job EXCEPT ![a].bad[d] = bad]
        PROVE  WorkInv'
    <3> DEFINE j == [job[a] EXCEPT !.bad = stop(bad)]
    <3>1. stop(bad) \in [Device -> Host \cup {None, Refused}]
          /\ \A e \in Device : stop(bad)[e] = IF e = d THEN bad ELSE job[a].bad[e]
      BY <2>1a, <2>2, <2>3
    <3> HIDE DEF stop
    <3>2. j \in Job /\ j.bad = stop(bad) /\ j.way = job[a].way
      BY <1>j, <3>1 DEF Job
    <3>3. job' = [job EXCEPT ![a] = j]
      BY <2>8, <1>j DEF stop, WorkInv, Job
    <3> HIDE DEF j
    <3>4. Sound("connect", j)
      BY <1>j, <2>3, <2>c, <3>1, <3>2 DEF Sound
    <3> QED BY <2>4, <2>7, <3>2, <3>3, <3>4, Moves
  <2> QED BY <2>5, <2>6, <2>8
<1> QED BY <1>1, <1>2, <1>3, <1>4, <1>5, <1>6, <1>7 DEF Registers

(* The steps of a review that leave the job alone.                         *)
LEMMA ReviewGoesOn ==
  ASSUME WorkInv, NEW c \in Cli, UNCHANGED job,
         NEW step \in {"confirm", "relock"} \cup LockedReview, Goes(c, step),
         at[c] \in {"confirm", "relock"} \cup LockedReview
  PROVE  WorkInv'
<1>1. c \in Actor /\ step \in Steps
  BY DEF Actor, Steps, LockedReview
<1>2. Sound(step, job[c])
  BY <1>1 DEF WorkInv, Sound, Handling, Keyed, Locked
<1> QED BY <1>1, <1>2, MovesOn

LEMMA ReviewsWork ==
  ASSUME WorkInv, DataInv, NEW c \in Cli, Reviews(c)
  PROVE  WorkInv'
<1>a. c \in Actor
  BY DEF Actor
<1>j. job[c] \in Job /\ Sound(at[c], job[c])
  BY <1>a DEF WorkInv
<1>e. ASSUME NEW result \in Results, Ends(c, result)
      PROVE  WorkInv'
  BY <1>a, <1>e, EndsWell
<1>1. CASE Prepare(c)
  <2> DEFINE todo == job[c].todo
  <2>1. CASE todo = << >> /\ Goes(c, "connect") /\ UNCHANGED job
    <3>1. Sound("connect", job[c]) /\ "connect" \in Steps
      BY <1>j DEF Sound, Handling, Keyed, Locked, LockedReview, Steps
    <3> QED BY <1>a, <2>1, <3>1, MovesOn
  <2>2. CASE todo # << >> /\ Goes(c, "prepare")
             /\ job' = [job EXCEPT ![c].todo = Tail(@), ![c].known = @ \cup {Head(todo).host}]
    <3> DEFINE j == [job[c] EXCEPT !.todo = Tail(@), !.known = @ \cup {Head(todo).host}]
    <3>0. Head(todo) \in Visit /\ Tail(todo) \in Seq(Visit)
      BY <1>j, <2>2, HeadAndTail DEF Job
    <3>1. Head(todo).host \in Host
      BY <3>0 DEF Visit
    <3>2. j \in Job /\ j.way = job[c].way /\ j.bad = job[c].bad
      BY <1>j, <3>0, <3>1 DEF Job
    <3>3. job' = [job EXCEPT ![c] = j]
      BY <1>a, <2>2 DEF WorkInv
    <3> HIDE DEF j
    <3>4. Sound("prepare", j) /\ "prepare" \in Steps
      BY <1>j, <3>2 DEF Sound, Handling, Keyed, Locked, LockedReview, Steps
    <3> QED BY <1>a, <2>2, <3>2, <3>3, <3>4, MovesWith
  <2>3. CASE todo # << >> /\ Goes(c, "lock")
             /\ job' = [job EXCEPT ![c].todo = Tail(@), ![c].hop = Head(todo)]
    <3> DEFINE j == [job[c] EXCEPT !.todo = Tail(@), !.hop = Head(todo)]
    <3>1. Head(todo) \in Visit /\ Tail(todo) \in Seq(Visit)
      BY <1>j, <2>3, HeadAndTail DEF Job
    <3>2. j \in Job /\ j.way = job[c].way /\ j.bad = job[c].bad /\ j.hop \in Visit
      BY <1>j, <3>1 DEF Job
    <3>3. job' = [job EXCEPT ![c] = j]
      BY <1>a, <2>3 DEF WorkInv
    <3> HIDE DEF j
    <3>4. Sound("lock", j) /\ "lock" \in Steps
      BY <1>j, <3>2 DEF Sound, Keyed, LockedReview, Steps, TofuSteps
    <3> QED BY <1>a, <2>3, <3>2, <3>3, <3>4, MovesWith
  <2> QED BY <1>1, <2>1, <2>2, <2>3 DEF Prepare
<1>2. CASE PrepareUnclear(c)
  BY <1>2, <1>e DEF PrepareUnclear, Results
<1>3. CASE Collected(c)
  <2>1. CASE \E result \in Results : Ends(c, result)
    BY <2>1, <1>e
  <2>2. CASE \E d \in Device : /\ job[c].bad[d] \in Host /\ MayReview(job[c])
               /\ Goes(c, "lookup")
               /\ LET i == CHOOSE n \in DOMAIN Hops[d] : Hops[d][n] = job[c].bad[d]
                  IN job' = [job EXCEPT ![c] = [Idle EXCEPT !.hop = Visits(d)[i],
                                                  !.recoveries = job[c].recoveries + 1]]
    <3>1. PICK d \in Device : /\ job[c].bad[d] \in Host /\ MayReview(job[c])
               /\ Goes(c, "lookup")
               /\ LET i == CHOOSE n \in DOMAIN Hops[d] : Hops[d][n] = job[c].bad[d]
                  IN job' = [job EXCEPT ![c] = [Idle EXCEPT !.hop = Visits(d)[i],
                                                  !.recoveries = job[c].recoveries + 1]]
      BY <2>2
    <3> DEFINE i == CHOOSE n \in DOMAIN Hops[d] : Hops[d][n] = job[c].bad[d]
               j == [Idle EXCEPT !.hop = Visits(d)[i], !.recoveries = job[c].recoveries + 1]
    <3>2. job[c].bad[d] \in Range(Hops[d])
      <4>1. None \notin Host /\ Refused \notin Host
        BY ShapeAssumption
      <4>2. job[c].bad[d] \in Range(Hops[d]) \cup {None, Refused}
        BY <1>j DEF Sound
      <4> QED BY <3>1, <4>1, <4>2
    <3>3. i \in DOMAIN Hops[d]
      BY <3>2 DEF Range
    <3>4. Visits(d)[i] \in Visit
      BY <3>3, VisitsAreVisits
    <3>5. job[c].recoveries + 1 \in 0..MaxRecoveries
      BY <3>1, <1>j, BoundAssumption DEF MayReview, Job
    <3>6. j \in Job /\ j.way = Idle.way /\ j.bad = Idle.bad /\ j.hop \in Visit
      BY <3>4, <3>5, IdleIsJob DEF Job
    <3>7. job' = [job EXCEPT ![c] = j]
      BY <3>1
    <3> HIDE DEF j
    <3>8. Sound("idle", Idle)
      BY IdleIsJob DEF Steps, Handling, Locked, LockedReview
    <3>9. Sound("lookup", j) /\ "lookup" \in Steps
      BY <3>6, <3>8 DEF Sound, Keyed, LockedReview, Steps
    <3> QED BY <1>a, <3>1, <3>6, <3>7, <3>9, MovesWith
  <2> QED BY <1>3, <2>1, <2>2 DEF Collected, Results
<1>4. CASE Lookup(c)
  <2> DEFINE j == [job[c] EXCEPT !.shown = product[job[c].hop.host]]
  <2>1. job[c].hop \in Visit /\ job[c].hop.host \in Host
    BY <1>4, <1>j DEF Lookup, Sound, Handling, Visit
  <2>2. j \in Job /\ j.way = job[c].way /\ j.bad = job[c].bad /\ j.hop = job[c].hop
    BY <1>j, <2>1 DEF Job, DataInv
  <2> HIDE DEF j
  <2>3. Sound("sign", j) /\ "sign" \in Steps
    BY <1>j, <2>1, <2>2 DEF Sound, Keyed, LockedReview, Steps
  <2>4. CASE Goes(c, "sign") /\ job' = [job EXCEPT ![c].shown = product[job[c].hop.host]]
    <3>1. job' = [job EXCEPT ![c] = j]
      BY <2>4, <1>a DEF j, WorkInv
    <3> QED BY <1>a, <2>2, <2>3, <2>4, <3>1, MovesWith
  <2> QED BY <1>4, <1>e, <2>4 DEF Lookup, GivesUp, Results
<1>5. CASE Sign(c)
  <2>1. Sound("reprobe", job[c]) /\ "reprobe" \in Steps
    BY <1>5, <1>j DEF Sign, Sound, Handling, Keyed, LockedReview, Steps
  <2> QED BY <1>a, <1>5, <2>1, MovesOn DEF Sign
<1>6. CASE Reprobe(c)
  <2> DEFINE j == [job[c] EXCEPT !.key = presented[job[c].hop.host]]
  <2>1. job[c].hop \in Visit /\ job[c].hop.host \in Host
    BY <1>6, <1>j DEF Reprobe, Sound, Handling, Visit
  <2>2. j \in Job /\ j.way = job[c].way /\ j.bad = job[c].bad /\ j.hop = job[c].hop
        /\ j.key \in Key
    BY <1>j, <2>1 DEF Job, DataInv
  <2> HIDE DEF j
  <2>3. Sound("confirm", j) /\ "confirm" \in Steps
    BY <1>j, <2>1, <2>2 DEF Sound, Steps
  <2>4. CASE Goes(c, "confirm") /\ job' = [job EXCEPT ![c].key = presented[job[c].hop.host]]
    <3>1. job' = [job EXCEPT ![c] = j]
      BY <2>4, <1>a DEF j, WorkInv
    <3> QED BY <1>a, <2>2, <2>3, <2>4, <3>1, MovesWith
  <2> QED BY <1>6, <1>e, <2>4 DEF Reprobe, GivesUp, Results
<1>7. CASE ReadFile(c)
  <2> DEFINE j == [job[c] EXCEPT !.saved = product]
  <2>1. j \in Job /\ j.way = job[c].way /\ j.bad = job[c].bad /\ j.hop = job[c].hop
        /\ j.key = job[c].key
    BY <1>j DEF Job, DataInv
  <2> HIDE DEF j
  <2>2. at[c] = "read"
    BY <1>7 DEF ReadFile, Breaks
  <2>3. CASE Goes(c, "backup") /\ job' = [job EXCEPT ![c].saved = product]
    <3>1. job' = [job EXCEPT ![c] = j]
      BY <2>3, <1>a DEF j, WorkInv
    <3>2. Sound("backup", j) /\ "backup" \in Steps
      BY <1>j, <2>1, <2>2 DEF Sound, Handling, Keyed, Locked, LockedReview, Steps
    <3> QED BY <1>a, <2>1, <2>3, <3>1, <3>2, MovesWith
  <2> QED BY <1>7, <1>e, <2>3 DEF ReadFile, Breaks, Results
<1>8. CASE \/ Confirm(c) \/ Compare(c) \/ Inspect(c) \/ Backup(c) \/ RemoveHost(c)
           \/ CheckRemoved(c) \/ Tidy(c) \/ Reappend(c)
  <2>1. CASE \E result \in Results : Ends(c, result)
    BY <2>1, <1>e
  <2>2. CASE ~ \E result \in Results : Ends(c, result)
    <3>1. UNCHANGED job
      BY <1>8, <2>2 DEF Confirm, Compare, Inspect, Backup, RemoveHost, CheckRemoved,
                        Tidy, Reappend, GivesUp, Breaks, Results
    <3>2. at[c] \in {"confirm"} \cup LockedReview
      BY <1>8 DEF Confirm, Compare, Inspect, Backup, RemoveHost, CheckRemoved,
                  Tidy, Reappend, LockedReview
    <3>3. \E step \in {"relock"} \cup LockedReview : Goes(c, step)
      BY <1>8, <2>2 DEF Confirm, Compare, Inspect, Backup, RemoveHost, CheckRemoved,
                        Tidy, Reappend, GivesUp, Breaks, Results, LockedReview
    <3> QED BY <3>1, <3>2, <3>3, ReviewGoesOn
  <2> QED BY <2>1, <2>2
<1>9. CASE Reverify(c)
  <2>1. CASE Replaced(c)
    <3>1. "prepare" \in Steps
      BY DEF Steps
    <3> QED BY <1>a, <1>j, <2>1, <3>1, FreshIsJob, MovesWith DEF Replaced
  <2>2. CASE Goes(c, "restore") /\ UNCHANGED job
    BY <1>9, <2>2, ReviewGoesOn DEF Reverify, LockedReview
  <2> QED BY <1>9, <2>1, <2>2 DEF Reverify
<1>10. CASE Restore(c)
  BY <1>10, <1>e DEF Restore, Results
<1> QED BY <1>1, <1>2, <1>3, <1>4, <1>5, <1>6, <1>7, <1>8, <1>9, <1>10 DEF Reviews

LEMMA DataKept ==
  ASSUME DataInv, UNCHANGED <<product, world, approvals>>, fresh' \subseteq Cli
  PROVE  DataInv'
BY DEF DataInv, world

LEMMA DataWritten ==
  ASSUME DataInv, NEW h, NEW keys \in Seq(Key), Writes(h, keys), UNCHANGED <<world, approvals>>
  PROVE  DataInv'
BY DEF DataInv, Writes, world

LEMMA NextTypes == TypeInv /\ [Next]_vars => TypeInv'
<1> SUFFICES ASSUME TypeInv, [Next]_vars PROVE WorkInv' /\ DataInv'
  BY NextKeepsLock DEF TypeInv
<1>i. LockInv /\ WorkInv /\ DataInv
  BY DEF TypeInv
<1>k. ASSUME NEW a \in Actor, at[a] \in Handling
      PROVE  job[a].hop.host \in Host /\ (at[a] \in Keyed => job[a].key \in Key)
  BY <1>i, <1>k DEF WorkInv, Sound, Visit
<1>1. CASE UNCHANGED vars
  BY <1>1, <1>i DEF vars, file, world, WorkInv, DataInv
<1>2. CASE \E a \in Actor : Registers(a)
  <2>1. PICK a \in Actor : Registers(a)
    BY <1>2
  <2>2. CASE AppendNew(a)
    <3>1. job[a].hop.host \in Host /\ job[a].key \in Key
      BY <2>2, <1>k DEF AppendNew, Handling, Keyed, Locked
    <3>2. Append(product[job[a].hop.host], job[a].key) \in Seq(Key)
      BY <3>1, <1>i DEF DataInv
    <3> QED BY <1>i, <2>1, <2>2, <3>2, RegistersWork, DataWritten, DataKept
            DEF AppendNew, AppendEntry, file, DataInv
  <2>3. CASE ~AppendNew(a)
    <3>1. UNCHANGED <<file, world, approvals>>
      BY <2>1, <2>3 DEF Registers, Acquire, AcquireTimesOut, PrepareFileFails, Recheck,
                        Probe, Verify, Dial
    <3> QED BY <1>i, <2>1, <3>1, RegistersWork, DataKept DEF file, DataInv
  <2> QED BY <2>2, <2>3
<1>3. CASE \E a \in Actor : Crash(a)
  BY <1>3, <1>i, EndsWell, DataKept DEF Crash, Results, file, DataInv
<1>4. CASE \E t \in Terminal : Opened(t)
  <2>1. PICK t \in Terminal : Opened(t)
    BY <1>4
  <2>2. \E result \in Results : Ends(t, result)
    BY <2>1 DEF Opened, Results
  <2> QED BY <2>1, <2>2, <1>i, EndsWell, DataKept DEF Opened, Actor, file, DataInv
<1>5. CASE \E t \in Terminal, d \in Device : OpenTerminal(t, d)
  <2>1. PICK t \in Terminal, d \in Device : OpenTerminal(t, d)
    BY <1>5
  <2> DEFINE way == [Idle.way EXCEPT ![d] = Hops[d]]
             j == [Idle EXCEPT !.hop = Head(Visits(d)), !.todo = Tail(Visits(d)), !.way = way]
  <2>2. Head(Visits(d)) \in Visit /\ Tail(Visits(d)) \in Seq(Visit)
    BY VisitsAreVisits, HeadAndTail
  <2>3. Sound("idle", Idle) /\ Idle \in Job
    BY IdleIsJob DEF Steps, Handling, Locked, LockedReview
  <2>4. /\ way \in [Device -> Seq(Host)]
        /\ \A e \in Device : way[e] \in Seq(Range(Hops[e]))
    BY <2>3, HopsAreHosts DEF Sound, Job
  <2>5. job' = [job EXCEPT ![t] = j]
    BY <2>1 DEF OpenTerminal
  <2> HIDE DEF way
  <2>6. j \in Job /\ j.way = way /\ j.bad = Idle.bad /\ j.hop \in Visit
    BY <2>2, <2>3, <2>4 DEF Job
  <2> HIDE DEF j
  <2>7. Sound("lock", j) /\ "lock" \in Steps
    BY <2>3, <2>4, <2>6 DEF Sound, Keyed, LockedReview, Steps, TofuSteps
  <2> QED BY <2>1, <2>5, <2>6, <2>7, <1>i, MovesWith, DataKept DEF OpenTerminal, Actor, file, DataInv
<1>6. CASE \E c \in Cli : Discover(c)
  <2>1. PICK c \in Cli : Discover(c)
    BY <1>6
  <2>2. WorkInv'
    BY <2>1, <1>i, IdleIsJob, FreshIsJob, MovesWith DEF Discover, Actor, Steps
  <2>3. UNCHANGED <<file, world>> /\ approvals' = [approvals EXCEPT ![c] = {}]
    BY <2>1 DEF Discover
  <2>4. DataInv'
    BY <2>3, <1>i DEF file, world, DataInv
  <2> QED BY <2>2, <2>4
<1>7. CASE \E c \in Cli : Reviews(c)
  <2>1. PICK c \in Cli : Reviews(c)
    BY <1>7
  <2>a. c \in Actor
    BY DEF Actor
  <2>2. CASE RemoveHost(c)
    <3>1. << >> \in Seq(Key)
      OBVIOUS
    <3> QED BY <1>i, <2>1, <2>2, <3>1, ReviewsWork, DataWritten, DataKept
            DEF RemoveHost, Breaks, file, DataInv
  <2>3. CASE Reappend(c)
    <3>1. job[c].hop.host \in Host /\ job[c].key \in Key
      BY <2>3, <2>a, <1>k DEF Reappend, Handling, Keyed, Locked, LockedReview
    <3>2. Append(product[job[c].hop.host], job[c].key) \in Seq(Key)
      BY <3>1, <1>i DEF DataInv
    <3> QED BY <1>i, <2>1, <2>3, <3>2, ReviewsWork, DataWritten, DataKept
            DEF Reappend, AppendEntry, file, DataInv
  <2>4. CASE Restore(c)
    <3>1. job[c].hop.host \in Host /\ job[c].saved \in [Host -> Seq(Key)]
      BY <2>4, <2>a, <1>i, <1>k DEF Restore, Handling, Locked, LockedReview, WorkInv, Job
    <3>2. product[job[c].hop.host] \o job[c].saved[job[c].hop.host] \in Seq(Key)
      BY <3>1, <1>i DEF DataInv
    <3> QED BY <1>i, <2>1, <2>4, <3>2, ReviewsWork, DataWritten, DataKept
            DEF Restore, file, DataInv
  <2>5. CASE Confirm(c) \/ Reverify(c)
    <3>1. job[c].hop.host \in Host /\ job[c].key \in Key
      BY <2>5, <2>a, <1>k DEF Confirm, GivesUp, Reverify, Handling, Keyed, Locked, LockedReview
    <3> DEFINE granted == [host |-> job[c].hop.host, key |-> job[c].key, consumed |-> FALSE]
               used == [granted EXCEPT !.consumed = TRUE]
    <3>2. granted \in Approval
      BY <3>1 DEF Approval
    <3>3. \/ UNCHANGED approvals
          \/ approvals' = [approvals EXCEPT ![c] = @ \cup {granted}]
          \/ approvals' = [approvals EXCEPT ![c] = (@ \ {granted}) \cup {used}]
      BY <2>5 DEF Confirm, GivesUp, Reverify, Replaced
    <3> HIDE DEF granted
    <3>g. used \in Approval
      BY <3>2 DEF Approval
    <3> HIDE DEF used
    <3>4. UNCHANGED <<file, world>>
      BY <2>5 DEF Confirm, GivesUp, Reverify
    <3>5. DataInv'
      BY <1>i, <3>2, <3>g, <3>3, <3>4 DEF file, world, DataInv
    <3> QED BY <1>i, <2>1, <3>5, ReviewsWork
  <2>6. CASE ~(RemoveHost(c) \/ Reappend(c) \/ Restore(c) \/ Confirm(c) \/ Reverify(c))
    <3>1. UNCHANGED <<product, world, approvals>> /\ (UNCHANGED fresh \/ fresh' = fresh \cup {c})
      BY <2>1, <2>6 DEF Reviews, Prepare, PrepareUnclear, Collected, Lookup, Sign, Reprobe,
                        Compare, Inspect, ReadFile, Backup, CheckRemoved, Tidy,
                        GivesUp, Breaks, file
    <3> QED BY <1>i, <2>1, <3>1, ReviewsWork, DataKept DEF DataInv
  <2> QED BY <2>2, <2>3, <2>4, <2>5, <2>6
<1>8. CASE \E h \in Host, k \in Key : Rekey(h, k) \/ EditOutside(h, k)
  <2>1. PICK h \in Host, k \in Key : Rekey(h, k) \/ EditOutside(h, k)
    BY <1>8
  <2>2. UNCHANGED <<at, job, said, product, fresh, approvals>>
    BY <2>1 DEF Rekey, EditOutside, file
  <2>3. CASE Rekey(h, k)
    <3>1. /\ rekeys < MaxRekeys /\ rekeys' = rekeys + 1
          /\ presented' = [presented EXCEPT ![h] = k] /\ UNCHANGED <<outside, edits>>
      BY <2>3 DEF Rekey
    <3> QED BY <1>i, <2>2, <3>1, BoundAssumption DEF WorkInv, DataInv
  <2>4. CASE EditOutside(h, k)
    <3>1. /\ edits < MaxEdits /\ edits' = edits + 1
          /\ outside' = [outside EXCEPT ![h] = @ \cup {k}] /\ UNCHANGED <<presented, rekeys>>
      BY <2>4 DEF EditOutside
    <3>2. outside' \in [Host -> SUBSET Key]
      BY <1>i, <3>1 DEF DataInv
    <3>3. edits' \in 0..MaxEdits
      BY <1>i, <3>1, BoundAssumption DEF DataInv
    <3> QED BY <1>i, <2>2, <3>1, <3>2, <3>3 DEF WorkInv, DataInv
  <2> QED BY <2>1, <2>3, <2>4
<1>9. CASE \E h \in Host, k \in Key : EditProduct(h, <<k>>) \/ EditProduct(h, << >>)
  <2>1. \A k \in Key : <<k>> \in Seq(Key) /\ << >> \in Seq(Key)
    OBVIOUS
  <2>2. PICK h \in Host : \E keys \in Seq(Key) : EditProduct(h, keys)
    BY <1>9, <2>1
  <2>3. PICK keys \in Seq(Key) : EditProduct(h, keys)
    BY <2>2
  <2>4. UNCHANGED <<at, job, said, outside, presented, rekeys, approvals>>
    BY <2>3 DEF EditProduct
  <2>5. /\ product' = [product EXCEPT ![h] = keys] /\ fresh' = {}
        /\ edits < MaxEdits /\ edits' = edits + 1
    BY <2>3 DEF EditProduct, Writes
  <2>6. DataInv'
    BY <1>i, <2>4, <2>5, BoundAssumption DEF DataInv
  <2> QED BY <1>i, <2>4, <2>6 DEF WorkInv
<1> QED BY <1>1, <1>2, <1>3, <1>4, <1>5, <1>6, <1>7, <1>8, <1>9 DEF Next

LEMMA InitTypes == Init => TypeInv
<1> SUFFICES ASSUME Init PROVE TypeInv
  OBVIOUS
<1>1. LockInv
  BY NobodyIsNone DEF Init, LockInv, HolderIsLocked, Locked, LockedReview
<1>2. "idle" \in Steps \ Handling
  BY DEF Steps, Handling, Locked, LockedReview
<1>3. WorkInv
  BY <1>2, IdleIsJob DEF Init, WorkInv, Results
<1>4. DataInv
  BY ShapeAssumption, BoundAssumption DEF Init, DataInv
<1> QED BY <1>1, <1>3, <1>4 DEF TypeInv

(* The file, the lock and the steps of every actor keep their types,       *)
(* whatever fails and whoever edits the files.                             *)
THEOREM TypeCorrect == Spec => []TypeOK
<1>1. TypeInv => TypeOK
  BY DEF TypeInv, LockInv, WorkInv, DataInv, TypeOK
<1> QED BY <1>1, InitTypes, NextTypes, PTL DEF Spec

-----------------------------------------------------------------------------
(* An approval is consumed in one step only, after the last look at the    *)
(* file.                                                                   *)

LEMMA ConsumedExactly ==
  ASSUME TypeInv, NEW c \in Cli, Reviews(c), NEW b \in Cli,
         NEW ap \in approvals'[b] \ approvals[b], ap.consumed
  PROVE  product'[ap.host] = <<ap.key>>
<1>i. DataInv /\ job[c] \in Job
  BY DEF TypeInv, WorkInv, Actor
<1> DEFINE granted == [host |-> job[c].hop.host, key |-> job[c].key, consumed |-> FALSE]
           used == [granted EXCEPT !.consumed = TRUE]
<1>1. CASE UNCHANGED approvals
  BY <1>1
<1>2. CASE approvals' = [approvals EXCEPT ![c] = @ \cup {granted}]
  <2>1. ap = granted
    BY <1>2, <1>i DEF DataInv
  <2>2. ~granted.consumed
    OBVIOUS
  <2> QED BY <2>1, <2>2
<1>3. CASE Reverify(c) /\ OnlyKey(c) /\ approvals' = [approvals EXCEPT ![c] = (@ \ {granted}) \cup {used}]
  <2>1. ap = used
    BY <1>3, <1>i DEF DataInv
  <2>2. used.host = job[c].hop.host /\ used.key = job[c].key
    OBVIOUS
  <2>3. UNCHANGED product
    BY <1>3 DEF Reverify, file
  <2> QED BY <1>3, <2>1, <2>2, <2>3 DEF OnlyKey
<1>4. CASE ~(Confirm(c) \/ Reverify(c))
  <2>1. UNCHANGED approvals
    BY <1>4 DEF Reviews, Prepare, PrepareUnclear, Collected, Lookup, Sign, Reprobe,
                Compare, Inspect, ReadFile, Backup, RemoveHost, CheckRemoved, Tidy,
                Reappend, Restore, GivesUp, Breaks
  <2> QED BY <1>1, <2>1
<1>5. CASE Confirm(c)
  BY <1>1, <1>2, <1>5 DEF Confirm, GivesUp
<1>6. CASE Reverify(c)
  BY <1>1, <1>3, <1>6 DEF Reverify, Replaced
<1> QED BY <1>4, <1>5, <1>6

(* Whatever fails and whoever edits known_hosts: an approval is consumed   *)
(* only when the file lists the confirmed key, and no other, for its host. *)
THEOREM ReplacementsAreExact == Spec => ReplacementIsExact
<1>1. ASSUME TypeInv, [Next]_vars, NEW b \in Cli, NEW ap \in approvals'[b] \ approvals[b],
             ap.consumed
      PROVE  product'[ap.host] = <<ap.key>>
  <2>1. CASE \E c \in Cli : Reviews(c)
    BY <1>1, <2>1, ConsumedExactly
  <2>2. CASE ~ \E c \in Cli : Reviews(c) \/ Discover(c)
    <3>1. UNCHANGED approvals
      BY <1>1, <2>2 DEF Next, vars, Registers, Acquire, AcquireTimesOut, PrepareFileFails,
           Recheck, Probe, AppendNew, Verify, Dial, Crash, Opened, OpenTerminal, Rekey,
           EditProduct, EditOutside
    <3> QED BY <1>1, <3>1
  <2>3. CASE \E c \in Cli : Discover(c)
    BY <1>1, <2>3 DEF Discover, TypeInv, DataInv
  <2> QED BY <2>1, <2>2, <2>3
<1>2. TypeInv /\ [Next]_vars =>
        [\A c \in Cli : \A ap \in approvals'[c] \ approvals[c] :
           ap.consumed => product'[ap.host] = <<ap.key>>]_vars
  BY <1>1
<1> QED BY <1>2, InitTypes, NextTypes, PTL DEF Spec, ReplacementIsExact

-----------------------------------------------------------------------------
(* What the holder of the lock knows about the host in hand, if only the   *)
(* program writes the file and what it wrote and looked up is there.       *)

Careful ==
  /\ MaxEdits = 0
  /\ "fsync" \notin Faults /\ "keygen" \notin Faults
  /\ \A lines \in InitialFiles : \A h \in Host : Len(lines[h]) <= 1

Removed == {"removed", "tidy", "reappend", "restore"}
Saved == {"backup", "remove", "reverify"} \cup Removed

Known(a) ==
  LET h == job[a].hop.host IN
  /\ at[a] \in {"probe", "append"} \cup Removed => product[h] = << >>
  /\ at[a] = "reverify" => OnlyKey(a)
  /\ at[a] \in Saved => Len(job[a].saved[h]) = 1
  /\ at[a] \in {"backup", "remove", "removed"} =>
       \A g \in Host \ {h} : job[a].saved[g] = product[g]

KnowledgeInv ==
  /\ OneEntryEach
  /\ edits = 0 /\ \A h \in Host : outside[h] = {}
  /\ \A a \in Actor : Known(a)

Knowing == {"probe", "append"} \cup Saved

LEMMA KnowingIsLocked == Knowing \subseteq Locked
BY DEF Knowing, Saved, Removed, Locked, LockedReview

(* A step of a call is its own.                                            *)
Own(a) == \A b \in Actor \ {a} : at'[b] = at[b] /\ job'[b] = job[b]

LEMMA RegistersOwn ==
  ASSUME WorkInv, NEW a \in Actor, Registers(a)
  PROVE  Own(a)
BY DEF WorkInv, Own, Registers, Acquire, AcquireTimesOut, PrepareFileFails, Recheck, Probe,
       AppendNew, Verify, Dial, Goes, Ends, HopTrusted

LEMMA ReviewsOwn ==
  ASSUME WorkInv, NEW c \in Cli, Reviews(c)
  PROVE  Own(c)
<1> c \in Actor
  BY DEF Actor
<1>1. CASE Prepare(c) \/ PrepareUnclear(c) \/ Collected(c) \/ Lookup(c) \/ Sign(c) \/ Reprobe(c)
  BY <1>1 DEF WorkInv, Own, Prepare, PrepareUnclear, Collected, Lookup, Sign, Reprobe,
              Goes, Ends, GivesUp
<1>2. CASE \/ Confirm(c) \/ Compare(c) \/ Inspect(c) \/ ReadFile(c) \/ Backup(c) \/ RemoveHost(c)
           \/ CheckRemoved(c) \/ Tidy(c) \/ Reappend(c) \/ Reverify(c) \/ Restore(c)
  BY <1>2 DEF WorkInv, Own, Confirm, Compare, Inspect, ReadFile, Backup, RemoveHost, CheckRemoved,
              Tidy, Reappend, Reverify, Restore, Replaced, Goes, Ends, GivesUp, Breaks
<1> QED BY <1>1, <1>2 DEF Reviews

LEMMA OtherSteps ==
  ASSUME WorkInv, NEW a \in Actor,
         \/ Crash(a) \/ Opened(a) \/ Discover(a) \/ \E d \in Device : OpenTerminal(a, d)
  PROVE  Own(a) /\ at'[a] \in {"idle", "prepare", "lock"} /\ UNCHANGED <<file, world>>
BY DEF WorkInv, Own, Crash, Opened, Discover, OpenTerminal, Goes, Ends

(* Whatever one actor does under the lock, the others know what they knew. *)
LEMMA KnowledgeStep ==
  ASSUME LockInv, KnowledgeInv, NEW a \in Actor, Own(a), UNCHANGED world,
         UNCHANGED product \/ at[a] \in Locked, OneEntryEach', Known(a)'
  PROVE  KnowledgeInv'
<1>1. ASSUME NEW b \in Actor \ {a}
      PROVE  Known(b)'
  <2>1. at'[b] = at[b] /\ job'[b] = job[b] /\ Known(b)
    BY DEF Own, KnowledgeInv
  <2>2. CASE at[b] \in Knowing
    <3>1. at[a] \notin Locked
      BY <2>2, KnowingIsLocked DEF LockInv, HolderIsLocked
    <3> QED BY <2>1, <3>1 DEF Known, OnlyKey
  <2>3. CASE at[b] \notin Knowing
    BY <2>1, <2>3 DEF Known, Knowing, Saved, Removed
  <2> QED BY <2>2, <2>3
<1> QED BY <1>1 DEF KnowledgeInv, world

LEMMA KnowsNothing ==
  ASSUME NEW a \in Actor, at'[a] \notin Knowing
  PROVE  Known(a)'
BY DEF Known, Knowing, Saved, Removed

LEMMA KnowledgeUnwritten ==
  ASSUME LockInv, KnowledgeInv, NEW a \in Actor, Own(a), UNCHANGED <<product, world>>, Known(a)'
  PROVE  KnowledgeInv'
BY KnowledgeStep DEF KnowledgeInv, OneEntryEach

LEMMA UnregisteredIsEmpty ==
  ASSUME DataInv, NEW h \in Host, ~Registered(h)
  PROVE  product[h] = << >>
<1>1. product[h] \in Seq(Key) /\ Range(product[h]) = {}
  BY DEF DataInv, Registered, Entries
<1>2. ASSUME NEW keys \in Seq(Key), keys # << >>
      PROVE  keys[1] \in Range(keys)
  BY <1>2 DEF Range
<1> QED BY <1>1, <1>2

LEMMA RegistersKnows ==
  ASSUME Careful, TypeInv, KnowledgeInv, NEW a \in Actor, Registers(a)
  PROVE  KnowledgeInv'
<1>i. LockInv /\ WorkInv /\ DataInv /\ Own(a) /\ job[a] \in Job
  BY RegistersOwn DEF TypeInv, WorkInv
<1>k. at[a] \in Handling => job[a].hop.host \in Host
  BY <1>i DEF WorkInv, Sound, Visit
<1>w. UNCHANGED world
  BY DEF Registers, Acquire, AcquireTimesOut, PrepareFileFails, Recheck, Probe, AppendNew, Verify, Dial
<1>1. CASE Recheck(a) /\ ~Registered(job[a].hop.host) /\ Goes(a, "probe") /\ UNCHANGED job
  <2>1. at'[a] = "probe" /\ UNCHANGED product
    BY <1>1, <1>i DEF Goes, Recheck, file, WorkInv
  <2>2. job[a].hop.host \in Host
    BY <1>1, <1>k DEF Recheck, Handling, Locked
  <2>3. product[job[a].hop.host] = << >>
    BY <1>1, <1>i, <2>2, UnregisteredIsEmpty
  <2>4. Known(a)'
    BY <1>1, <2>1, <2>3 DEF Known, Saved, Removed
  <2> QED BY <1>i, <1>w, <2>1, <2>4, KnowledgeUnwritten
<1>2. CASE Probe(a) /\ Goes(a, "append") /\ job' = [job EXCEPT ![a].key = presented[job[a].hop.host]]
  <2>1. at'[a] = "append" /\ at[a] = "probe" /\ UNCHANGED product /\ job'[a].hop = job[a].hop
    BY <1>2, <1>i DEF Goes, Probe, file, WorkInv, Job
  <2>2. Known(a)
    BY DEF KnowledgeInv
  <2>3. Known(a)'
    BY <2>1, <2>2 DEF Known, Saved, Removed
  <2> QED BY <1>i, <1>w, <2>1, <2>3, KnowledgeUnwritten
<1>3. CASE AppendNew(a)
  <2>1. at[a] = "append" /\ at[a] \in Locked /\ at'[a] \in {"verify", "idle"}
    BY <1>3, <1>i DEF AppendNew, Goes, Ends, Locked, WorkInv
  <2>2. Known(a)'
    BY <2>1, KnowsNothing DEF Knowing, Saved, Removed
  <2>3. CASE UNCHANGED product
    BY <1>i, <1>w, <2>2, <2>3, KnowledgeUnwritten
  <2>4. CASE AppendEntry(a)
    <3> DEFINE h == job[a].hop.host
    <3>1. h \in Host /\ product[h] = << >>
      BY <2>1, <1>k DEF Handling, KnowledgeInv, Known
    <3>2. product' = [product EXCEPT ![h] = <<job[a].key>>]
      BY <2>4, <3>1 DEF AppendEntry, Writes
    <3>3. \A g \in Host : Len(product'[g]) <= 1
      BY <1>i, <3>2 DEF DataInv, KnowledgeInv, OneEntryEach
    <3> QED BY <1>i, <1>w, <2>1, <2>2, <3>3, KnowledgeStep DEF OneEntryEach
  <2> QED BY <1>3, <2>3, <2>4 DEF AppendNew, file
<1>4. CASE \/ Acquire(a) \/ AcquireTimesOut(a) \/ PrepareFileFails(a) \/ Verify(a)
           \/ (Recheck(a) /\ (Ends(a, "failed") \/ HopTrusted(a)))
           \/ (Probe(a) /\ Ends(a, "failed"))
           \/ \E d \in Device : Dial(a, d)
  <2>1. UNCHANGED product
    BY <1>4 DEF Acquire, AcquireTimesOut, PrepareFileFails, Recheck, Probe, Verify, Dial, file
  <2>2. at'[a] \in {"recheck", "compare", "idle", "connect", "prepare", "lock"}
    BY <1>4, <1>i DEF Acquire, AcquireTimesOut, PrepareFileFails, Verify, Dial, Goes, Ends,
                      HopTrusted, WorkInv
  <2>3. Known(a)'
    BY <2>2, KnowsNothing DEF Knowing, Saved, Removed
  <2> QED BY <1>i, <1>w, <2>1, <2>3, KnowledgeUnwritten
<1>5. CASE Recheck(a)
  BY <1>1, <1>4, <1>5 DEF Recheck
<1>6. CASE Probe(a)
  BY <1>2, <1>4, <1>6 DEF Probe
<1> QED BY <1>3, <1>4, <1>5, <1>6 DEF Registers

LEMMA OneKey ==
  ASSUME NEW keys \in Seq(Key), keys # << >>, Len(keys) <= 1
  PROVE  Len(keys) = 1
<1>1. Len(keys) \in Nat /\ (Len(keys) = 0 => keys = << >>)
  BY EmptySeq
<1> QED BY <1>1

LEMMA ReviewsKnows ==
  ASSUME Careful, TypeInv, KnowledgeInv, NEW c \in Cli, Reviews(c)
  PROVE  KnowledgeInv'
<1> DEFINE h == job[c].hop.host
<1>a. c \in Actor /\ Known(c) /\ OneEntryEach
  BY DEF Actor, KnowledgeInv
<1>i. LockInv /\ WorkInv /\ DataInv /\ Own(c) /\ job[c] \in Job
  BY <1>a, ReviewsOwn DEF TypeInv, WorkInv
<1>k. at[c] \in Handling => h \in Host
  BY <1>a, <1>i DEF WorkInv, Sound, Visit
<1>f. ~Fails("keygen") /\ ~Fails("fsync")
  BY DEF Careful, Fails
<1>w. UNCHANGED world
  BY DEF Reviews, Prepare, PrepareUnclear, Collected, Lookup, Sign, Reprobe, Confirm, Compare,
         Inspect, ReadFile, Backup, RemoveHost, CheckRemoved, Tidy, Reappend, Reverify, Restore,
         GivesUp, Breaks
<1>n. ASSUME UNCHANGED product, at'[c] \notin Knowing
      PROVE  KnowledgeInv'
  BY <1>a, <1>i, <1>w, <1>n, KnowsNothing, KnowledgeUnwritten
<1>e. ASSUME UNCHANGED product, NEW result, Ends(c, result)
      PROVE  KnowledgeInv'
  <2>1. at'[c] \notin Knowing
    BY <1>a, <1>e, <1>i DEF Ends, WorkInv, Knowing, Saved, Removed
  <2> QED BY <1>e, <1>n, <2>1
<1>b. ASSUME Breaks(c)
      PROVE  KnowledgeInv'
  BY <1>b, <1>e DEF Breaks, file
<1>1. CASE \/ Prepare(c) \/ PrepareUnclear(c) \/ Collected(c) \/ Lookup(c) \/ Sign(c)
           \/ Reprobe(c) \/ Confirm(c) \/ Compare(c) \/ Inspect(c)
  <2>1. UNCHANGED product
    BY <1>1 DEF Prepare, PrepareUnclear, Collected, Lookup, Sign, Reprobe, Confirm, Compare,
                Inspect, GivesUp, Breaks, file
  <2>2. at'[c] \notin Knowing
    BY <1>1, <1>a, <1>i DEF Prepare, PrepareUnclear, Collected, Lookup, Sign, Reprobe, Confirm,
           Compare, Inspect, GivesUp, Breaks, Goes, Ends, WorkInv, Knowing, Saved, Removed
  <2> QED BY <1>n, <2>1, <2>2
<1>2. CASE ReadFile(c)
  <2>1. CASE job' = [job EXCEPT ![c].saved = product] /\ Goes(c, "backup") /\ product[h] # << >>
    <3>1. at[c] = "read" /\ UNCHANGED product
      BY <1>2, <2>1, <1>a, <1>i DEF ReadFile, Breaks, file
    <3>2. h \in Host /\ Len(product[h]) = 1
      <4>1. h \in Host
        BY <3>1, <1>k DEF Handling, Locked, LockedReview
      <4>2. product[h] \in Seq(Key) /\ product[h] # << >> /\ Len(product[h]) <= 1
        BY <4>1, <2>1, <1>a, <1>i DEF DataInv, OneEntryEach
      <4> QED BY <4>1, <4>2, OneKey
    <3>3. at'[c] = "backup" /\ job'[c].hop = job[c].hop /\ job'[c].saved = product
      BY <2>1, <1>a, <1>i DEF Goes, WorkInv, Job
    <3>4. Known(c)'
      BY <3>1, <3>2, <3>3 DEF Known, Removed
    <3> QED BY <1>a, <1>i, <1>w, <3>1, <3>4, KnowledgeUnwritten
  <2> QED BY <1>2, <2>1, <1>b DEF ReadFile
<1>3. CASE Backup(c)
  <2>1. CASE Goes(c, "remove") /\ UNCHANGED <<file, job>>
    <3>1. at[c] = "backup" /\ at'[c] = "remove" /\ UNCHANGED product
      BY <1>3, <2>1, <1>a, <1>i DEF Backup, Goes, WorkInv, file
    <3>2. Known(c)'
      BY <1>a, <2>1, <3>1 DEF Known, Saved, Removed
    <3> QED BY <1>a, <1>i, <1>w, <3>1, <3>2, KnowledgeUnwritten
  <2> QED BY <1>3, <2>1, <1>b DEF Backup
<1>4. CASE RemoveHost(c)
  <2>1. CASE Writes(h, << >>) /\ Goes(c, "removed") /\ UNCHANGED job
    <3>1. at[c] = "remove" /\ at[c] \in Locked /\ at'[c] = "removed"
      BY <1>4, <2>1, <1>a, <1>i DEF RemoveHost, Breaks, Goes, WorkInv, Locked, LockedReview
    <3>2. h \in Host /\ product' = [product EXCEPT ![h] = << >>]
      BY <3>1, <2>1, <1>k DEF Handling, Writes
    <3>3. OneEntryEach'
      BY <3>2, <1>a, <1>i DEF OneEntryEach, DataInv
    <3>4. product'[h] = << >> /\ \A g \in Host \ {h} : product'[g] = product[g]
      BY <3>2, <1>i DEF DataInv
    <3>5. Known(c)'
      BY <3>1, <3>4, <2>1, <1>a DEF Known, Saved, Removed
    <3> QED BY <1>a, <1>i, <1>w, <3>1, <3>3, <3>5, KnowledgeStep
  <2> QED BY <1>4, <2>1, <1>b DEF RemoveHost
<1>5. CASE CheckRemoved(c)
  <2>1. CASE Goes(c, "tidy") /\ UNCHANGED <<file, job>>
    <3>1. at[c] = "removed" /\ at'[c] = "tidy" /\ UNCHANGED product
      BY <1>5, <2>1, <1>a, <1>i DEF CheckRemoved, Goes, WorkInv, file
    <3>2. Known(c)'
      BY <1>a, <2>1, <3>1 DEF Known, Saved, Removed
    <3> QED BY <1>a, <1>i, <1>w, <3>1, <3>2, KnowledgeUnwritten
  <2> QED BY <1>5, <2>1, <1>b DEF CheckRemoved
<1>6. CASE Tidy(c)
  <2>1. at[c] = "tidy" /\ UNCHANGED product
    BY <1>6 DEF Tidy, file
  <2>2. CASE Goes(c, "reappend") /\ UNCHANGED job
    <3>1. at'[c] = "reappend"
      BY <2>2, <1>a, <1>i DEF Goes, WorkInv
    <3>2. Known(c)'
      BY <1>a, <2>1, <2>2, <3>1 DEF Known, Saved, Removed
    <3> QED BY <1>a, <1>i, <1>w, <2>1, <3>2, KnowledgeUnwritten
  <2> QED BY <1>6, <2>1, <2>2, <1>e DEF Tidy
<1>7. CASE Reappend(c)
  <2>1. at[c] = "reappend" /\ at[c] \in Locked /\ UNCHANGED job
    BY <1>7 DEF Reappend, Locked, LockedReview
  <2>2. h \in Host /\ product[h] = << >> /\ Len(job[c].saved[h]) = 1
    BY <2>1, <1>a, <1>k DEF Handling, Known, Saved, Removed
  <2>3. CASE AppendEntry(c) /\ Goes(c, "reverify")
    <3>1. at'[c] = "reverify"
      BY <2>3, <1>a, <1>i DEF Goes, WorkInv
    <3>2. product' = [product EXCEPT ![h] = <<job[c].key>>]
      BY <2>3, <2>2 DEF AppendEntry, Writes
    <3>3. OneEntryEach'
      BY <3>2, <1>a, <1>i DEF OneEntryEach, DataInv
    <3>4. product'[h] = <<job[c].key>>
      BY <3>2, <2>2, <1>i DEF DataInv
    <3>5. Known(c)'
      BY <2>1, <2>2, <3>1, <3>4 DEF Known, OnlyKey, Saved, Removed
    <3> QED BY <1>a, <1>i, <1>w, <2>1, <3>3, <3>5, KnowledgeStep
  <2>4. CASE Goes(c, "restore") /\ UNCHANGED file
    <3>1. at'[c] = "restore" /\ UNCHANGED product
      BY <2>4, <1>a, <1>i DEF Goes, WorkInv, file
    <3>2. Known(c)'
      BY <2>1, <2>2, <3>1 DEF Known, Saved, Removed
    <3> QED BY <1>a, <1>i, <1>w, <3>1, <3>2, KnowledgeUnwritten
  <2> QED BY <1>7, <1>f, <2>3, <2>4 DEF Reappend
<1>8. CASE Reverify(c)
  <2>1. at[c] = "reverify" /\ UNCHANGED product
    BY <1>8 DEF Reverify, file
  <2>2. OnlyKey(c)
    BY <1>a, <2>1 DEF Known
  <2>3. Goes(c, "prepare")
    BY <1>8, <1>f, <2>2 DEF Reverify, Replaced
  <2>4. at'[c] \notin Knowing
    BY <2>3, <1>a, <1>i DEF Goes, WorkInv, Knowing, Saved, Removed
  <2> QED BY <1>n, <2>1, <2>4
<1>9. CASE Restore(c)
  <2>1. at[c] = "restore" /\ at[c] \in Locked
    BY <1>9 DEF Restore, Locked, LockedReview
  <2>2. h \in Host /\ product[h] = << >> /\ Len(job[c].saved[h]) = 1
    BY <2>1, <1>a, <1>k DEF Handling, Known, Saved, Removed
  <2>3. CASE UNCHANGED file
    BY <1>9, <2>3, <1>e DEF Restore, file
  <2>4. CASE Writes(h, product[h] \o job[c].saved[h])
    <3>1. job[c].saved[h] \in Seq(Key)
      BY <1>i, <2>2 DEF Job
    <3>2. Len(product[h] \o job[c].saved[h]) <= 1
      <4>1. product[h] \o job[c].saved[h] = job[c].saved[h]
        BY <2>2, <3>1, ConcatEmptySeq
      <4>2. Len(product[h] \o job[c].saved[h]) = 1
        BY <2>2, <4>1, Zenon
      <4> QED BY <4>2
    <3>3. product' = [product EXCEPT ![h] = product[h] \o job[c].saved[h]]
      BY <2>4 DEF Writes
    <3>4. OneEntryEach'
      BY <3>2, <3>3, <1>a, <1>i DEF OneEntryEach, DataInv
    <3>5. at'[c] = "idle"
      BY <1>9, <1>a, <1>i DEF Restore, Ends, WorkInv
    <3>6. Known(c)'
      BY <3>5, <1>a, KnowsNothing DEF Knowing, Saved, Removed
    <3> QED BY <1>a, <1>i, <1>w, <2>1, <3>4, <3>6, KnowledgeStep
  <2> QED BY <1>9, <2>3, <2>4 DEF Restore
<1> QED BY <1>1, <1>2, <1>3, <1>4, <1>5, <1>6, <1>7, <1>8, <1>9 DEF Reviews

LEMMA NextKnows == Careful /\ TypeInv /\ KnowledgeInv /\ [Next]_vars => KnowledgeInv'
<1> SUFFICES ASSUME Careful, TypeInv, KnowledgeInv, [Next]_vars PROVE KnowledgeInv'
  OBVIOUS
<1>i. LockInv /\ WorkInv /\ DataInv
  BY DEF TypeInv
<1>1. CASE UNCHANGED vars
  BY <1>1 DEF vars, file, world, KnowledgeInv, OneEntryEach, Known, OnlyKey
<1>2. CASE \E a \in Actor : Registers(a)
  BY <1>2, RegistersKnows
<1>3. CASE \E c \in Cli : Reviews(c)
  BY <1>3, ReviewsKnows
<1>4. ASSUME NEW a \in Actor,
             \/ Crash(a) \/ Opened(a) \/ Discover(a) \/ \E d \in Device : OpenTerminal(a, d)
      PROVE  KnowledgeInv'
  <2>1. Own(a) /\ at'[a] \notin Knowing /\ UNCHANGED <<product, world>>
    BY <1>4, <1>i, OtherSteps DEF Knowing, Saved, Removed, file
  <2> QED BY <1>i, <2>1, KnowsNothing, KnowledgeUnwritten
<1>5. CASE \E h \in Host, k \in Key : Rekey(h, k)
  <2>1. UNCHANGED <<product, outside, edits, at, job>>
    BY <1>5 DEF Rekey, file
  <2> QED BY <2>1 DEF KnowledgeInv, OneEntryEach, Known, OnlyKey
<1>6. CASE \E h \in Host, k \in Key :
             EditProduct(h, <<k>>) \/ EditProduct(h, << >>) \/ EditOutside(h, k)
  <2>1. edits < MaxEdits
    BY <1>6 DEF EditProduct, EditOutside
  <2> QED BY <2>1 DEF Careful, KnowledgeInv
<1> QED BY <1>1, <1>2, <1>3, <1>4, <1>5, <1>6 DEF Next, Actor

LEMMA InitKnows == Careful /\ Init => KnowledgeInv
<1> SUFFICES ASSUME Careful, Init PROVE KnowledgeInv
  OBVIOUS
<1>1. OneEntryEach
  BY DEF Init, Careful, OneEntryEach
<1>2. \A a \in Actor : at[a] = "idle"
  BY DEF Init
<1>3. \A a \in Actor : Known(a)
  BY <1>2 DEF Known, Saved, Removed
<1> QED BY <1>1, <1>3 DEF Init, KnowledgeInv

(* However many terminals and CLIs meet an unknown host at once, whatever  *)
(* reviews run beside them, and wherever they fail or crash, the program   *)
(* lists at most one key of a host: the question asked under the lock      *)
(* covers the append.  Edits by others, a failing fsync (of an entry that  *)
(* is there all the same) and a failing look-up are left out.              *)
THEOREM OneKeyPerHost ==
  ASSUME Careful
  PROVE  Spec => []OneEntryEach
<1>1. KnowledgeInv => OneEntryEach
  BY DEF KnowledgeInv
<1>2. Init => TypeInv /\ KnowledgeInv
  BY InitTypes, InitKnows
<1>3. TypeInv /\ KnowledgeInv /\ [Next]_vars => TypeInv' /\ KnowledgeInv'
  BY NextTypes, NextKnows
<1> QED BY <1>1, <1>2, <1>3, PTL DEF Spec

-----------------------------------------------------------------------------
(* From the confirmation on, a review holds an approval that nothing but   *)
(* its own success uses up.                                                *)

Approved == {"relock"} \cup LockedReview

Grant(c) == \E ap \in approvals[c] : ap.host = job[c].hop.host /\ ~ap.consumed

GrantInv == \A c \in Cli : at[c] \in Approved => Grant(c)

(* What a step does to the keys of a registered host.                      *)
ByApproval ==
  \A h \in Host :
    Registered(h) /\ product'[h] # product[h] =>
      \E c \in Cli : holder = c /\ \E ap \in approvals[c] : ap.host = h /\ ~ap.consumed

LEMMA GrantKept ==
  ASSUME GrantInv, NEW a \in Actor, Own(a), UNCHANGED approvals,
         a \in Cli /\ at'[a] \in Approved => at[a] \in Approved /\ job'[a].hop = job[a].hop
  PROVE  GrantInv'
BY DEF GrantInv, Grant, Own, Actor

LEMMA RegistersGrant ==
  ASSUME TypeInv, GrantInv, NEW a \in Actor, Registers(a)
  PROVE  GrantInv'
<1>i. WorkInv /\ Own(a) /\ UNCHANGED approvals
  BY RegistersOwn DEF TypeInv, Registers, Acquire, AcquireTimesOut, PrepareFileFails, Recheck,
        Probe, AppendNew, Verify, Dial
<1>1. CASE Acquire(a)
  BY <1>1, <1>i, GrantKept DEF Acquire, Goes, WorkInv, Approved, LockedReview
<1>2. CASE ~Acquire(a)
  <2>1. \/ \E step \in {"probe", "append", "verify"} : Goes(a, step)
        \/ HopTrusted(a) \/ (\E result : Ends(a, result)) \/ (at[a] = "connect" /\ UNCHANGED at)
    BY <1>2 DEF Registers, AcquireTimesOut, PrepareFileFails, Recheck, Probe, AppendNew, Verify, Dial
  <2>2. at'[a] \in {"probe", "append", "verify", "prepare", "connect", "lock", "idle"}
    BY <1>i, <2>1 DEF HopTrusted, Goes, Ends, WorkInv
  <2>3. at'[a] \notin Approved
    BY <2>2 DEF Approved, LockedReview
  <2> QED BY <1>i, <2>3, GrantKept
<1> QED BY <1>1, <1>2

LEMMA ReviewsGrant ==
  ASSUME TypeInv, GrantInv, NEW c \in Cli, Reviews(c)
  PROVE  GrantInv'
<1>i. c \in Actor /\ WorkInv /\ DataInv /\ Own(c) /\ job[c] \in Job
  BY ReviewsOwn DEF TypeInv, Actor, WorkInv
<1>e. ASSUME UNCHANGED approvals, NEW result, Ends(c, result)
      PROVE  GrantInv'
  <2>1. at'[c] \notin Approved
    BY <1>e, <1>i DEF Ends, WorkInv, Approved, LockedReview
  <2> QED BY <1>e, <1>i, <2>1, GrantKept
<1>g. GivesUp(c) \/ Breaks(c) => GrantInv'
  BY <1>e DEF GivesUp, Breaks
<1>1. CASE Prepare(c) \/ PrepareUnclear(c) \/ Collected(c)
  <2>1. UNCHANGED approvals
    BY <1>1 DEF Prepare, PrepareUnclear, Collected
  <2>2. at'[c] \notin Approved
    BY <1>1, <1>i DEF Prepare, PrepareUnclear, Collected, Goes, Ends, WorkInv, Approved, LockedReview
  <2> QED BY <1>i, <2>1, <2>2, GrantKept
<1>2. CASE Lookup(c) \/ Sign(c) \/ Reprobe(c)
  <2>1. UNCHANGED approvals
    BY <1>2 DEF Lookup, Sign, Reprobe, GivesUp
  <2>2. at'[c] \notin Approved
    BY <1>2, <1>i DEF Lookup, Sign, Reprobe, GivesUp, Goes, Ends, WorkInv, Approved, LockedReview
  <2> QED BY <1>i, <2>1, <2>2, GrantKept
<1>3. CASE Confirm(c)
  <2> DEFINE granted == [host |-> job[c].hop.host, key |-> job[c].key, consumed |-> FALSE]
  <2>1. CASE approvals' = [approvals EXCEPT ![c] = @ \cup {granted}] /\ UNCHANGED job
    <3>1. granted \in approvals'[c] /\ \A b \in Cli \ {c} : approvals'[b] = approvals[b]
      BY <2>1, <1>i DEF DataInv
    <3>2. granted.host = job'[c].hop.host /\ ~granted.consumed
      BY <2>1
    <3>3. Grant(c)'
      BY <3>1, <3>2 DEF Grant
    <3>4. ASSUME NEW b \in Cli \ {c}, at'[b] \in Approved
          PROVE  Grant(b)'
      BY <1>i, <3>1, <3>4 DEF Own, Actor, GrantInv, Grant
    <3> QED BY <3>3, <3>4 DEF GrantInv
  <2> QED BY <1>3, <1>g, <2>1 DEF Confirm
<1>4. CASE \/ Compare(c) \/ Inspect(c) \/ ReadFile(c) \/ Backup(c) \/ RemoveHost(c)
           \/ CheckRemoved(c) \/ Tidy(c) \/ Reappend(c) \/ Restore(c)
  <2>1. UNCHANGED approvals /\ at[c] \in Approved
    BY <1>4 DEF Compare, Inspect, ReadFile, Backup, RemoveHost, CheckRemoved, Tidy, Reappend,
                Restore, Breaks, Approved, LockedReview
  <2>2. job'[c].hop = job[c].hop \/ \E result : Ends(c, result)
    BY <1>4, <1>i DEF Compare, Inspect, ReadFile, Backup, RemoveHost, CheckRemoved, Tidy, Reappend,
                Restore, Breaks, WorkInv, Job
  <2> QED BY <1>i, <1>e, <2>1, <2>2, GrantKept
<1>5. CASE Reverify(c)
  <2>1. CASE Replaced(c)
    <3>1. at'[c] \notin Approved /\ \A b \in Cli \ {c} : approvals'[b] = approvals[b]
      BY <2>1, <1>i DEF Replaced, Goes, WorkInv, DataInv, Approved, LockedReview
    <3>2. ASSUME NEW b \in Cli \ {c}, at'[b] \in Approved
          PROVE  Grant(b)'
      BY <1>i, <3>1, <3>2 DEF Own, Actor, GrantInv, Grant
    <3> QED BY <3>1, <3>2 DEF GrantInv
  <2>2. CASE Goes(c, "restore") /\ UNCHANGED <<holder, job, approvals>>
    <3>1. at[c] \in Approved
      BY <1>5 DEF Reverify, Approved, LockedReview
    <3> QED BY <1>i, <2>2, <3>1, GrantKept
  <2> QED BY <1>5, <2>1, <2>2 DEF Reverify
<1> QED BY <1>1, <1>2, <1>3, <1>4, <1>5 DEF Reviews

LEMMA NextGrants == TypeInv /\ GrantInv /\ [Next]_vars => GrantInv'
<1> SUFFICES ASSUME TypeInv, GrantInv, [Next]_vars PROVE GrantInv'
  OBVIOUS
<1>i. WorkInv /\ DataInv
  BY DEF TypeInv
<1>1. CASE \E a \in Actor : Registers(a)
  BY <1>1, RegistersGrant
<1>2. CASE \E c \in Cli : Reviews(c)
  BY <1>2, ReviewsGrant
<1>3. ASSUME NEW a \in Actor, Crash(a) \/ Opened(a) \/ \E d \in Device : OpenTerminal(a, d)
      PROVE  GrantInv'
  <2>1. Own(a) /\ at'[a] \notin Approved
    BY <1>3, <1>i, OtherSteps DEF Approved, LockedReview
  <2>2. UNCHANGED approvals
    BY <1>3 DEF Crash, Opened, OpenTerminal
  <2> QED BY <2>1, <2>2, GrantKept
<1>4. ASSUME NEW c \in Cli, Discover(c)
      PROVE  GrantInv'
  <2>1. c \in Actor /\ Own(c) /\ at'[c] \notin Approved
    BY <1>4, <1>i, OtherSteps DEF Actor, Approved, LockedReview
  <2>2. \A b \in Cli \ {c} : approvals'[b] = approvals[b]
    BY <1>4, <1>i DEF Discover, DataInv
  <2>3. ASSUME NEW b \in Cli \ {c}, at'[b] \in Approved
        PROVE  Grant(b)'
    BY <2>1, <2>2, <2>3 DEF Own, Actor, GrantInv, Grant
  <2> QED BY <2>1, <2>3 DEF GrantInv
<1>5. CASE UNCHANGED <<at, job, approvals>>
  BY <1>5 DEF GrantInv, Grant
<1> QED BY <1>1, <1>2, <1>3, <1>4, <1>5 DEF Next, vars, Actor, Rekey, EditProduct, EditOutside

LEMMA StepsByApproval ==
  ASSUME Careful, TypeInv, KnowledgeInv, GrantInv, [Next]_vars
  PROVE  ByApproval
<1>i. LockInv /\ WorkInv /\ DataInv
  BY DEF TypeInv
<1>e. ASSUME NEW h \in Host, product[h] = << >>
      PROVE  ~Registered(h)
  BY <1>e DEF KnowledgeInv, Registered, Entries, Range
<1>w. ASSUME NEW a \in Actor, NEW keys, Writes(job[a].hop.host, keys), job[a].hop.host \in Host,
             product[job[a].hop.host] = << >>
      PROVE  ByApproval
  BY <1>e, <1>w, <1>i DEF ByApproval, Writes, DataInv
<1>1. CASE UNCHANGED product
  BY <1>1 DEF ByApproval
<1>2. ASSUME NEW a \in Actor, AppendNew(a)
      PROVE  ByApproval
  <2>1. at[a] = "append" /\ Known(a)
    BY <1>2 DEF AppendNew, KnowledgeInv
  <2>2. job[a].hop.host \in Host /\ product[job[a].hop.host] = << >>
    BY <2>1, <1>i DEF Known, WorkInv, Sound, Handling, Locked, Visit
  <2> QED BY <1>1, <1>2, <1>w, <2>2 DEF AppendNew, AppendEntry, file
<1>3. ASSUME NEW c \in Cli, Reappend(c) \/ Restore(c)
      PROVE  ByApproval
  <2>1. c \in Actor /\ at[c] \in {"reappend", "restore"} /\ Known(c)
    BY <1>3 DEF Reappend, Restore, KnowledgeInv, Actor
  <2>2. job[c].hop.host \in Host /\ product[job[c].hop.host] = << >>
    BY <2>1, <1>i DEF Known, Removed, WorkInv, Sound, Handling, Locked, LockedReview, Visit
  <2> QED BY <1>1, <1>3, <1>w, <2>1, <2>2 DEF Reappend, Restore, AppendEntry, file
<1>4. ASSUME NEW c \in Cli, RemoveHost(c)
      PROVE  ByApproval
  <2>1. c \in Actor /\ at[c] = "remove"
    BY <1>4 DEF RemoveHost, Breaks, Actor
  <2>2. holder = c /\ Grant(c) /\ job[c].hop.host \in Host
    BY <2>1, <1>i DEF LockInv, HolderIsLocked, GrantInv, Approved, Locked, LockedReview, WorkInv,
          Sound, Handling, Visit
  <2>3. UNCHANGED product \/ product' = [product EXCEPT ![job[c].hop.host] = << >>]
    BY <1>4 DEF RemoveHost, Breaks, Writes, file
  <2> QED BY <1>i, <2>2, <2>3 DEF ByApproval, Grant, DataInv
<1>5. CASE \E a \in Actor : Registers(a) /\ ~AppendNew(a)
  BY <1>1, <1>5 DEF Registers, Acquire, AcquireTimesOut, PrepareFileFails, Recheck, Probe, Verify,
        Dial, file
<1>6. CASE \E c \in Cli : Reviews(c) /\ ~(RemoveHost(c) \/ Reappend(c) \/ Restore(c))
  BY <1>1, <1>6 DEF Reviews, Prepare, PrepareUnclear, Collected, Lookup, Sign, Reprobe, Confirm,
        Compare, Inspect, ReadFile, Backup, CheckRemoved, Tidy, Reverify, GivesUp, Breaks, file
<1>7. CASE \E a \in Actor : \/ Crash(a) \/ Opened(a) \/ Discover(a)
                              \/ \E d \in Device : OpenTerminal(a, d)
  BY <1>1, <1>7, <1>i, OtherSteps DEF file
<1>8. CASE \E h \in Host, k \in Key :
             \/ Rekey(h, k) \/ EditProduct(h, <<k>>) \/ EditProduct(h, << >>) \/ EditOutside(h, k)
  <2>1. edits = 0 /\ MaxEdits = 0
    BY DEF KnowledgeInv, Careful
  <2> QED BY <1>1, <1>8, <2>1 DEF Rekey, EditProduct, EditOutside, file
<1> QED BY <1>1, <1>2, <1>3, <1>4, <1>5, <1>6, <1>7, <1>8 DEF Next, vars, file, Actor

(* Nobody but a CLI that holds the lock, and whose operator granted an     *)
(* approval for the host that has not been used, changes the keys of a     *)
(* registered host: not a registration that was overtaken between its look *)
(* at the file and its append, and not a restoration.                      *)
THEOREM RegisteredKeysChangeByApproval ==
  ASSUME Careful
  PROVE  Spec => ChangesNeedApproval
<1>1. Init => TypeInv /\ KnowledgeInv /\ GrantInv
  BY InitTypes, InitKnows DEF Init, GrantInv, Approved, LockedReview, Actor
<1>2. TypeInv /\ KnowledgeInv /\ GrantInv /\ [Next]_vars => TypeInv' /\ KnowledgeInv' /\ GrantInv'
  BY NextTypes, NextKnows, NextGrants
<1>3. TypeInv /\ KnowledgeInv /\ GrantInv /\ [Next]_vars =>
        [\A h \in Host :
           Registered(h) /\ product'[h] # product[h] =>
             \E c \in Cli : /\ holder = c
                           /\ \E ap \in approvals[c] : ap.host = h /\ ~ap.consumed]_vars
  BY StepsByApproval DEF ByApproval
<1> QED BY <1>1, <1>2, <1>3, PTL DEF Spec, ChangesNeedApproval

-----------------------------------------------------------------------------
(* A host that a call trusts stays registered, or its replacement is       *)
(* between the removal and the new entry.                                  *)

Steady == Careful /\ {"tidy", "restore", "crash"} \cap Faults = {}

Gap(h) == \E c \in Cli : at[c] \in Removed /\ job[c].hop.host = h

TrustInv == \A a \in Actor : \A h \in job[a].known : product[h] # << >> \/ Gap(h)

LEMMA OneIsSome ==
  ASSUME NEW keys, Len(keys) = 1
  PROVE  keys # << >>
<1>1. Len(<< >>) # 1
  OBVIOUS
<1> QED BY <1>1, Zenon

LEMMA IdleTrustsNobody == Idle.known = {} /\ \A j : Fresh(j).known = {}
BY DEF Idle, Fresh

LEMMA TrustStep ==
  ASSUME TrustInv, WorkInv, NEW a \in Actor, Own(a),
         \A h \in Host : product[h] # << >> \/ Gap(h) => product'[h] # << >> \/ Gap(h)',
         \A h \in job'[a].known : h \in job[a].known \/ product'[h] # << >>
  PROVE  TrustInv'
<1>1. \A b \in Actor : job[b].known \subseteq Host
  BY DEF WorkInv, Job
<1>2. ASSUME NEW b \in Actor, NEW h \in job'[b].known
      PROVE  product'[h] # << >> \/ Gap(h)'
  <2>1. h \in job[b].known \/ product'[h] # << >>
    BY <1>2 DEF Own
  <2> QED BY <2>1, <1>1 DEF TrustInv
<1> QED BY <1>2 DEF TrustInv

LEMMA TrustKept ==
  ASSUME TrustInv, WorkInv, NEW a \in Actor, Own(a), UNCHANGED product,
         a \in Cli /\ at[a] \in Removed => at'[a] \in Removed /\ job'[a].hop = job[a].hop,
         \A h \in job'[a].known : h \in job[a].known \/ product[h] # << >>
  PROVE  TrustInv'
<1>1. \A h \in Host : Gap(h) => Gap(h)'
  BY DEF Gap, Own, Actor
<1> QED BY <1>1, TrustStep

LEMMA EndsTrusting ==
  ASSUME TrustInv, WorkInv, NEW a \in Actor, Own(a), UNCHANGED product, at[a] \notin Removed,
         NEW result, Ends(a, result)
  PROVE  TrustInv'
<1>1. job'[a].known = {}
  BY DEF WorkInv, Ends, Idle
<1> QED BY <1>1, TrustKept

LEMMA TrustsHop ==
  ASSUME TypeInv, TrustInv, NEW a \in Actor, HopTrusted(a), Own(a), UNCHANGED product,
         at[a] \notin Removed, product[job[a].hop.host] # << >>
  PROVE  TrustInv'
<1>1. job'[a].known = job[a].known \cup {job[a].hop.host}
  BY DEF HopTrusted, TypeInv, WorkInv, Job
<1> QED BY <1>1, TrustKept DEF TypeInv

LEMMA RegistersTrust ==
  ASSUME Steady, TypeInv, KnowledgeInv, TrustInv, NEW a \in Actor, Registers(a)
  PROVE  TrustInv'
<1>i. LockInv /\ WorkInv /\ DataInv /\ Own(a) /\ job[a] \in Job
  BY RegistersOwn DEF TypeInv, WorkInv
<1>k. at[a] \in Handling => job[a].hop.host \in Host
  BY <1>i DEF WorkInv, Sound, Visit
<1>r. at[a] \notin Removed
  BY DEF Registers, Acquire, AcquireTimesOut, PrepareFileFails, Recheck, Probe, AppendNew, Verify,
         Dial, Removed
<1>n. ASSUME UNCHANGED product, job'[a].known = job[a].known
      PROVE  TrustInv'
  BY <1>i, <1>r, <1>n, TrustKept
<1>1. CASE Acquire(a) \/ AcquireTimesOut(a) \/ PrepareFileFails(a)
  BY <1>1, <1>i, <1>r, <1>n, EndsTrusting DEF Acquire, AcquireTimesOut, PrepareFileFails, file
<1>2. CASE Recheck(a)
  <2>1. UNCHANGED product
    BY <1>2 DEF Recheck, file
  <2>2. CASE Registered(job[a].hop.host) /\ HopTrusted(a)
    <3>1. job[a].hop.host \in Host
      BY <1>2, <1>k DEF Recheck, Handling, Locked
    <3>2. product[job[a].hop.host] # << >>
      BY <2>2, <3>1 DEF Registered, Entries, Range, KnowledgeInv
    <3> QED BY <1>i, <1>r, <2>1, <2>2, <3>2, TrustsHop
  <2> QED BY <1>2, <1>i, <1>r, <1>n, <2>1, <2>2, EndsTrusting DEF Recheck
<1>3. CASE Probe(a)
  <2>1. UNCHANGED product
    BY <1>3 DEF Probe, file
  <2>2. CASE job' = [job EXCEPT ![a].key = presented[job[a].hop.host]]
    <3>1. job'[a].known = job[a].known
      BY <2>2, <1>i DEF WorkInv, Job
    <3> QED BY <2>1, <3>1, <1>n
  <2> QED BY <1>3, <1>i, <1>r, <2>1, <2>2, EndsTrusting DEF Probe
<1>4. CASE AppendNew(a)
  <2>1. at[a] = "append" /\ job[a].hop.host \in Host
    BY <1>4, <1>k DEF AppendNew, Handling, Locked
  <2>2. CASE AppendEntry(a) /\ UNCHANGED job /\ Goes(a, "verify")
    <3> DEFINE h == job[a].hop.host
    <3>1. product[h] = << >>
      BY <2>1 DEF KnowledgeInv, Known
    <3>2. product' = [product EXCEPT ![h] = <<job[a].key>>]
      BY <2>2, <3>1 DEF AppendEntry, Writes
    <3>3. \A g \in Host : product[g] # << >> => product'[g] # << >>
      BY <2>1, <3>2, <1>i DEF DataInv
    <3>4. \A g \in Host : Gap(g) => Gap(g)'
      BY <1>r, <1>i, <2>2 DEF Gap, Own, Actor
    <3> QED BY <2>2, <3>3, <3>4, <1>i, TrustStep
  <2>3. ~Fails("fsync")
    BY DEF Steady, Careful, Fails
  <2> QED BY <1>4, <1>i, <1>r, <2>2, <2>3, EndsTrusting DEF AppendNew, file
<1>5. CASE Verify(a)
  <2>1. UNCHANGED product
    BY <1>5 DEF Verify, file
  <2>2. CASE OnlyKey(a) /\ HopTrusted(a)
    <3>1. product[job[a].hop.host] # << >>
      BY <2>2 DEF OnlyKey
    <3> QED BY <1>i, <1>r, <2>1, <2>2, <3>1, TrustsHop
  <2> QED BY <1>5, <1>i, <1>r, <2>1, <2>2, EndsTrusting DEF Verify
<1>6. CASE \E d \in Device : Dial(a, d)
  <2>1. UNCHANGED product /\ job'[a].known = job[a].known
    BY <1>6, <1>i DEF Dial, WorkInv, Job, file
  <2> QED BY <2>1, <1>n
<1> QED BY <1>1, <1>2, <1>3, <1>4, <1>5, <1>6 DEF Registers

LEMMA ReviewsTrust ==
  ASSUME Steady, TypeInv, KnowledgeInv, TrustInv, NEW c \in Cli, Reviews(c)
  PROVE  TrustInv'
<1> DEFINE h == job[c].hop.host
<1>i. c \in Actor /\ LockInv /\ WorkInv /\ DataInv /\ Own(c) /\ job[c] \in Job /\ Known(c)
  BY ReviewsOwn DEF TypeInv, Actor, WorkInv, KnowledgeInv
<1>k. at[c] \in Handling => h \in Host
  BY <1>i DEF WorkInv, Sound, Visit
<1>f. ~Fails("keygen") /\ ~Fails("fsync") /\ ~Fails("tidy") /\ ~Fails("restore")
  BY DEF Steady, Careful, Fails
<1>e. ASSUME UNCHANGED product, at[c] \notin Removed, NEW result, Ends(c, result)
      PROVE  TrustInv'
  BY <1>e, <1>i, EndsTrusting
<1>g. ASSUME at[c] \notin Removed, GivesUp(c) \/ Breaks(c)
      PROVE  TrustInv'
  BY <1>e, <1>g DEF GivesUp, Breaks, file
<1>n. ASSUME UNCHANGED product, job'[c].known \subseteq job[c].known, at[c] \notin Removed
      PROVE  TrustInv'
  BY <1>i, <1>n, TrustKept
<1>1. CASE Prepare(c)
  <2>1. at[c] \notin Removed /\ UNCHANGED product
    BY <1>1 DEF Prepare, Removed, file
  <2>2. CASE job' = [job EXCEPT ![c].todo = Tail(@),
                                ![c].known = @ \cup {Head(job[c].todo).host}]
             /\ job[c].todo # << >>
             /\ (Registered(Head(job[c].todo).host) \/ Head(job[c].todo).host \in job[c].known)
    <3> DEFINE g == Head(job[c].todo).host
    <3>1. g \in Host
      <4>1. job[c].todo \in Seq(Visit)
        BY <1>i DEF Job
      <4>2. Head(job[c].todo) \in Visit
        BY <4>1, <2>2
      <4> QED BY <4>2 DEF Visit
    <3>2. g \in job[c].known \/ product[g] # << >>
      BY <2>2, <3>1 DEF Registered, Entries, Range, KnowledgeInv
    <3>3. job'[c].known = job[c].known \cup {g}
      BY <2>2, <1>i DEF WorkInv, Job
    <3> QED BY <2>1, <3>2, <3>3, <1>i, TrustKept
  <2>3. CASE \/ UNCHANGED job
             \/ job' = [job EXCEPT ![c].todo = Tail(@), ![c].hop = Head(job[c].todo)]
    <3>1. job'[c].known = job[c].known
      BY <2>3, <1>i DEF WorkInv, Job
    <3> QED BY <2>1, <3>1, <1>n
  <2> QED BY <1>1, <2>2, <2>3 DEF Prepare
<1>2. CASE PrepareUnclear(c)
  BY <1>2, <1>e DEF PrepareUnclear, Removed, file
<1>3. CASE Collected(c)
  <2>1. at[c] \notin Removed /\ UNCHANGED product
    BY <1>3 DEF Collected, AllDialed, Removed, file
  <2>2. (\E result : Ends(c, result)) \/ job'[c].known = {}
    BY <1>3, <1>i DEF Collected, Idle, WorkInv
  <2> QED BY <2>1, <2>2, <1>e, <1>n
<1>4. CASE Lookup(c) \/ Sign(c) \/ Reprobe(c) \/ Confirm(c)
  <2>1. at[c] \notin Removed /\ UNCHANGED product
    BY <1>4 DEF Lookup, Sign, Reprobe, Confirm, GivesUp, Removed, file
  <2>2. GivesUp(c) \/ job'[c].known = job[c].known
    BY <1>4, <1>i DEF Lookup, Sign, Reprobe, Confirm, WorkInv, Job
  <2> QED BY <2>1, <2>2, <1>g, <1>n
<1>5. CASE Compare(c) \/ Inspect(c) \/ ReadFile(c) \/ Backup(c)
  <2>1. at[c] \notin Removed /\ UNCHANGED product
    BY <1>5 DEF Compare, Inspect, ReadFile, Backup, Breaks, Removed, file
  <2>2. (\E result : Ends(c, result)) \/ job'[c].known = job[c].known
    BY <1>5, <1>i DEF Compare, Inspect, ReadFile, Backup, Breaks, WorkInv, Job
  <2> QED BY <2>1, <2>2, <1>e, <1>n
<1>6. CASE RemoveHost(c)
  <2>1. at[c] = "remove" /\ at[c] \notin Removed /\ h \in Host
    BY <1>6, <1>k DEF RemoveHost, Breaks, Removed, Handling, Locked, LockedReview
  <2>2. CASE Writes(h, << >>) /\ Goes(c, "removed") /\ UNCHANGED job
    <3>1. Gap(h)' /\ \A g \in Host : Gap(g) => Gap(g)'
      BY <2>1, <2>2, <1>i DEF Gap, Own, Actor, Goes, WorkInv, Removed
    <3>2. \A g \in Host \ {h} : product'[g] = product[g]
      BY <2>1, <2>2, <1>i DEF Writes, DataInv
    <3> QED BY <2>2, <3>1, <3>2, <1>i, TrustStep
  <2> QED BY <1>6, <1>g, <2>1, <2>2 DEF RemoveHost
<1>7. CASE CheckRemoved(c)
  <2>1. at[c] = "removed" /\ at[c] \in Removed /\ h \in Host
    BY <1>7, <1>k DEF CheckRemoved, Breaks, Removed, Handling, Locked, LockedReview
  <2>2. product[h] = << >> /\ \A g \in Host \ {h} : job[c].saved[g] = product[g]
    BY <2>1, <1>i DEF Known
  <2>3. Goes(c, "tidy") /\ UNCHANGED <<file, job>>
    BY <1>7, <1>f, <2>2 DEF CheckRemoved
  <2> QED BY <2>3, <1>i, TrustKept DEF Goes, WorkInv, Removed, file
<1>8. CASE Tidy(c)
  <2>1. at[c] = "tidy" /\ Goes(c, "reappend") /\ UNCHANGED <<file, job>>
    BY <1>8, <1>f DEF Tidy
  <2> QED BY <2>1, <1>i, TrustKept DEF Goes, WorkInv, Removed, file
<1>9. ASSUME at[c] \in Removed, h \in Host, product'[h] # << >>, job'[c].known \subseteq job[c].known,
             \A g \in Host \ {h} : product'[g] = product[g]
      PROVE  TrustInv'
  <2>1. \A g \in Host \ {h} : Gap(g) => Gap(g)'
    BY <1>i DEF Gap, Own, Actor
  <2> QED BY <1>9, <2>1, <1>i, TrustStep
<1>10. CASE Reappend(c)
  <2>1. at[c] \in Removed /\ h \in Host /\ product[h] = << >>
    BY <1>10, <1>i, <1>k DEF Reappend, Removed, Known, Handling, Locked, LockedReview
  <2>2. CASE AppendEntry(c) /\ UNCHANGED job
    <3>1. product' = [product EXCEPT ![h] = <<job[c].key>>]
      BY <2>1, <2>2 DEF AppendEntry, Writes
    <3> QED BY <2>1, <2>2, <3>1, <1>9, <1>i DEF DataInv
  <2>3. CASE Goes(c, "restore") /\ UNCHANGED <<file, job>>
    BY <2>3, <1>i, TrustKept DEF Goes, WorkInv, Removed, file
  <2> QED BY <1>10, <1>f, <2>2, <2>3 DEF Reappend
<1>11. CASE Reverify(c)
  <2>1. at[c] = "reverify" /\ at[c] \notin Removed /\ UNCHANGED product
    BY <1>11 DEF Reverify, Removed, file
  <2>2. Replaced(c)
    BY <1>11, <1>f, <1>i, <2>1 DEF Reverify, Known
  <2>3. job'[c].known = {}
    BY <2>2, <1>i DEF Replaced, Fresh, Idle, WorkInv
  <2> QED BY <2>1, <2>3, <1>n
<1>12. CASE Restore(c)
  <2>1. at[c] \in Removed /\ h \in Host /\ product[h] = << >> /\ Len(job[c].saved[h]) = 1
    BY <1>12, <1>i, <1>k DEF Restore, Removed, Known, Saved, Handling, Locked, LockedReview
  <2>2. Writes(h, product[h] \o job[c].saved[h]) /\ Ends(c, "restored")
    BY <1>12, <1>f DEF Restore
  <2>3. job[c].saved[h] \in Seq(Key) /\ job[c].saved[h] # << >>
    <3>1. job[c].saved[h] \in Seq(Key)
      BY <2>1, <1>i DEF Job
    <3>2. job[c].saved[h] # << >>
      BY <2>1, OneIsSome
    <3> QED BY <3>1, <3>2
  <2>4. product[h] \o job[c].saved[h] = job[c].saved[h]
    BY <2>1, <2>3, ConcatEmptySeq
  <2>5. product' = [product EXCEPT ![h] = job[c].saved[h]] /\ job'[c].known = {}
    BY <2>2, <2>4, <1>i DEF Writes, Ends, Idle, WorkInv
  <2> QED BY <2>1, <2>3, <2>5, <1>9, <1>i DEF DataInv
<1> QED BY <1>1, <1>2, <1>3, <1>4, <1>5, <1>6, <1>7, <1>8, <1>10, <1>11, <1>12 DEF Reviews

LEMMA NextTrusts == Steady /\ TypeInv /\ KnowledgeInv /\ TrustInv /\ [Next]_vars => TrustInv'
<1> SUFFICES ASSUME Steady, TypeInv, KnowledgeInv, TrustInv, [Next]_vars PROVE TrustInv'
  OBVIOUS
<1>i. WorkInv
  BY DEF TypeInv
<1>1. CASE \E a \in Actor : Registers(a)
  BY <1>1, RegistersTrust
<1>2. CASE \E c \in Cli : Reviews(c)
  BY <1>2, ReviewsTrust
<1>3. ASSUME NEW a \in Actor, Opened(a) \/ Discover(a) \/ \E d \in Device : OpenTerminal(a, d)
      PROVE  TrustInv'
  <2>1. Own(a) /\ UNCHANGED product /\ at[a] \notin Removed
    BY <1>3, <1>i, OtherSteps DEF file, Opened, AllDialed, Discover, OpenTerminal, Removed
  <2>2. job'[a].known = {}
    <3>1. CASE Opened(a) \/ Discover(a)
      <4>1. job'[a] = Idle \/ job'[a] = Fresh(Idle)
        BY <1>i, <3>1 DEF Opened, Ends, Discover, WorkInv
      <4> QED BY <4>1, IdleTrustsNobody
    <3>2. CASE \E d \in Device : OpenTerminal(a, d)
      BY <1>i, <3>2 DEF OpenTerminal, Idle, WorkInv
    <3> QED BY <1>3, <3>1, <3>2
  <2> QED BY <1>i, <2>1, <2>2, TrustKept
<1>4. CASE UNCHANGED <<product, at, job>>
  BY <1>4 DEF TrustInv, Gap
<1>5. CASE \E h \in Host, k \in Key : EditProduct(h, <<k>>) \/ EditProduct(h, << >>)
  BY <1>5 DEF EditProduct, KnowledgeInv, Steady, Careful
<1>6. ~ \E a \in Actor : Crash(a)
  BY DEF Crash, Steady, Fails
<1> QED BY <1>1, <1>2, <1>3, <1>4, <1>5, <1>6
     DEF Next, vars, file, Actor, Rekey, EditOutside

(* While no registration or replacement is under way, every host that some *)
(* call has found trusted is registered: a replacement that fails puts the *)
(* old entries back before it releases the lock.  A failing clean-up or    *)
(* restoration and a crash, which leave the host unregistered, are left    *)
(* out.                                                                    *)
THEOREM TrustedStayRegistered ==
  ASSUME Steady
  PROVE  Spec => []TrustedHopsAreRegistered
<1>1. Careful
  BY DEF Steady
<1>2. Init => TypeInv /\ KnowledgeInv /\ TrustInv
  BY <1>1, InitTypes, InitKnows DEF Init, Idle, TrustInv
<1>3. TypeInv /\ KnowledgeInv /\ TrustInv /\ [Next]_vars => TypeInv' /\ KnowledgeInv' /\ TrustInv'
  BY <1>1, NextTypes, NextKnows, NextTrusts
<1>4. TypeInv /\ KnowledgeInv /\ TrustInv => TrustedHopsAreRegistered
  <2> SUFFICES ASSUME TypeInv, KnowledgeInv, TrustInv, holder = None,
                      NEW a \in Actor, NEW h \in job[a].known
               PROVE  Registered(h)
    BY DEF TrustedHopsAreRegistered
  <2>1. h \in Host
    BY DEF TypeInv, WorkInv, Job
  <2>2. ~Gap(h)
    BY NobodyIsNone DEF Gap, Removed, TypeInv, LockInv, HolderIsLocked, Locked, LockedReview, Actor
  <2>3. product[h] # << >>
    BY <2>2 DEF TrustInv
  <2> QED BY <2>1, <2>3, UnregisteredIsEmpty DEF TypeInv
<1> QED BY <1>2, <1>3, <1>4, PTL DEF Spec

-----------------------------------------------------------------------------
(* With one CLI, what the operator is shown is what is there, and what is  *)
(* put back.                                                               *)

Alone == Careful /\ \A c, d \in Cli : c = d

Showing == {"sign", "reprobe", "confirm", "relock", "compare", "inspect", "read", "backup", "remove"}

Seen(c) ==
  LET h == job[c].hop.host IN
  /\ at[c] \in Showing => job[c].shown = product[h] /\ product[h] # << >>
  /\ at[c] \in Saved => job[c].saved[h] = job[c].shown

SeenInv == \A c \in Cli : Seen(c)

LEMMA SeesNothing ==
  ASSUME NEW c \in Cli, at'[c] \notin Showing \cup Saved
  PROVE  Seen(c)'
BY DEF Seen

LEMMA RegistersSeen ==
  ASSUME Alone, TypeInv, KnowledgeInv, SeenInv, NEW a \in Actor, Registers(a)
  PROVE  SeenInv'
<1>i. WorkInv /\ DataInv /\ Own(a) /\ Known(a)
  BY RegistersOwn DEF TypeInv, KnowledgeInv
<1>p. \A h \in Host : product[h] # << >> => product'[h] = product[h]
  <2>1. CASE AppendNew(a)
    <3>1. at[a] = "append" /\ product[job[a].hop.host] = << >>
      BY <2>1, <1>i DEF AppendNew, Known
    <3> QED BY <2>1, <3>1, <1>i DEF AppendNew, AppendEntry, Writes, file, DataInv
  <2>2. CASE ~AppendNew(a)
    BY <2>2 DEF Registers, Acquire, AcquireTimesOut, PrepareFileFails, Recheck, Probe, Verify,
          Dial, file
  <2> QED BY <2>1, <2>2
<1>1. ASSUME NEW c \in Cli, at'[c] = at[c] \/ (at[c] = "relock" /\ at'[c] = "compare"),
             job'[c] = job[c]
      PROVE  Seen(c)'
  <2>1. Seen(c) /\ c \in Actor
    BY DEF SeenInv, Actor
  <2>2. at'[c] \in Showing => at[c] \in Showing
    BY <1>1 DEF Showing
  <2>3. at'[c] \in Saved => at[c] \in Saved
    BY <1>1 DEF Saved, Removed
  <2>4. at[c] \in Showing => job[c].hop.host \in Host
    BY <2>1, <1>i DEF Showing, WorkInv, Sound, Handling, Locked, LockedReview, Visit
  <2> QED BY <1>1, <1>p, <2>1, <2>2, <2>3, <2>4 DEF Seen
<1>2. ASSUME NEW c \in Cli
      PROVE  Seen(c)'
  <2>1. CASE c # a
    BY <1>1, <2>1, <1>i DEF Own, Actor
  <2>2. CASE c = a /\ Acquire(a)
    <3>1. at[c] = "lock" => at'[c] = "recheck"
      BY <2>2, <1>i DEF Acquire, Goes, WorkInv
    <3>2. at[c] = "relock" => at'[c] = "compare" /\ job'[c] = job[c]
      BY <2>2, <1>i DEF Acquire, Goes, WorkInv
    <3>3. at[c] \in {"lock", "relock"}
      BY <2>2 DEF Acquire
    <3> QED BY <1>1, <3>1, <3>2, <3>3, SeesNothing DEF Showing, Saved, Removed
  <2>3. CASE c = a /\ ~Acquire(a)
    <3>1. \/ \E step \in {"probe", "append", "verify"} : Goes(a, step)
          \/ HopTrusted(a) \/ (\E result : Ends(a, result)) \/ (at[a] = "connect" /\ UNCHANGED at)
      BY <2>3 DEF Registers, AcquireTimesOut, PrepareFileFails, Recheck, Probe, AppendNew, Verify, Dial
    <3>2. at'[a] \in {"probe", "append", "verify", "prepare", "connect", "lock", "idle"}
      BY <1>i, <3>1 DEF HopTrusted, Goes, Ends, WorkInv
    <3> QED BY <2>3, <3>2, SeesNothing DEF Showing, Saved, Removed
  <2> QED BY <2>1, <2>2, <2>3
<1> QED BY <1>2 DEF SeenInv

LEMMA ReviewsSeen ==
  ASSUME Alone, TypeInv, KnowledgeInv, SeenInv, NEW c \in Cli, Reviews(c)
  PROVE  SeenInv'
<1> DEFINE h == job[c].hop.host
<1>i. c \in Actor /\ WorkInv /\ DataInv /\ job[c] \in Job /\ Known(c) /\ Seen(c)
  BY DEF TypeInv, Actor, WorkInv, KnowledgeInv, SeenInv
<1>k. at[c] \in Handling => h \in Host
  BY <1>i DEF WorkInv, Sound, Visit
<1>s. SUFFICES Seen(c)'
  BY DEF Alone, SeenInv
<1>e. ASSUME NEW result, Ends(c, result)
      PROVE  Seen(c)'
  <2>1. at'[c] = "idle"
    BY <1>e, <1>i DEF Ends, WorkInv
  <2> QED BY <2>1, SeesNothing DEF Showing, Saved, Removed
<1>g. GivesUp(c) \/ Breaks(c) => Seen(c)'
  BY <1>e DEF GivesUp, Breaks
<1>u. ASSUME UNCHANGED product, job'[c].hop = job[c].hop, job'[c].shown = job[c].shown,
             job'[c].saved = job[c].saved,
             at'[c] \in Showing => at[c] \in Showing, at'[c] \in Saved => at[c] \in Saved
      PROVE  Seen(c)'
  BY <1>i, <1>u DEF Seen
<1>1. CASE Prepare(c) \/ PrepareUnclear(c) \/ Collected(c)
  <2>1. at'[c] \in {"prepare", "connect", "lock", "lookup", "idle"}
    BY <1>1, <1>i DEF Prepare, PrepareUnclear, Collected, Goes, Ends, WorkInv
  <2> QED BY <2>1, SeesNothing DEF Showing, Saved, Removed
<1>2. CASE Lookup(c)
  <2>1. CASE /\ product[h] # << >> /\ job' = [job EXCEPT ![c].shown = product[h]]
             /\ Goes(c, "sign") /\ UNCHANGED file
    <3>1. /\ job'[c].shown = product[h] /\ job'[c].hop = job[c].hop /\ at'[c] = "sign"
          /\ UNCHANGED product
      BY <2>1, <1>i DEF WorkInv, Job, Goes, file
    <3> QED BY <2>1, <3>1 DEF Seen, Saved, Removed
  <2> QED BY <1>2, <1>g, <2>1 DEF Lookup
<1>3. CASE Sign(c) \/ Confirm(c)
  <2>1. CASE /\ UNCHANGED <<product, job>> /\ at[c] \in {"sign", "confirm"}
             /\ (Goes(c, "reprobe") \/ Goes(c, "relock"))
    <3>1. at[c] \in Showing /\ at'[c] \in {"reprobe", "relock"}
      BY <2>1, <1>i DEF Goes, WorkInv, Showing
    <3> QED BY <2>1, <3>1, <1>u DEF Saved, Removed
  <2> QED BY <1>3, <1>g, <2>1 DEF Sign, Confirm, file
<1>4. CASE Reprobe(c)
  <2>1. CASE job' = [job EXCEPT ![c].key = presented[h]] /\ Goes(c, "confirm") /\ UNCHANGED file
    <3>1. /\ at[c] \in Showing /\ at'[c] = "confirm" /\ UNCHANGED product
          /\ job'[c].hop = job[c].hop /\ job'[c].shown = job[c].shown /\ job'[c].saved = job[c].saved
      BY <1>4, <2>1, <1>i DEF Reprobe, Goes, WorkInv, Job, Showing, file
    <3> QED BY <3>1, <1>u DEF Saved, Removed
  <2> QED BY <1>4, <1>g, <2>1 DEF Reprobe
<1>5. CASE Compare(c) \/ Inspect(c) \/ Backup(c)
  <2>1. CASE UNCHANGED <<product, job>> /\ \E step \in {"inspect", "read", "remove"} : Goes(c, step)
    <3>1. at[c] \in Showing /\ at'[c] \in {"inspect", "read", "remove"}
      BY <1>5, <2>1, <1>i DEF Compare, Inspect, Backup, Goes, WorkInv, Showing
    <3>2. at'[c] = "remove" => at[c] = "backup"
      BY <1>5, <2>1, <1>i DEF Compare, Inspect, Backup, Breaks, Ends, Goes, WorkInv
    <3> QED BY <2>1, <3>1, <3>2, <1>u DEF Saved, Removed
  <2> QED BY <1>5, <1>e, <1>g, <2>1 DEF Compare, Inspect, Backup, file
<1>6. CASE ReadFile(c)
  <2>1. CASE job' = [job EXCEPT ![c].saved = product] /\ Goes(c, "backup")
    <3>1. /\ at[c] \in Showing /\ UNCHANGED product
          /\ job'[c].hop = job[c].hop /\ job'[c].shown = job[c].shown /\ job'[c].saved = product
      BY <1>6, <2>1, <1>i DEF ReadFile, Breaks, WorkInv, Job, Showing, file
    <3> QED BY <3>1, <1>i DEF Seen
  <2> QED BY <1>6, <1>g, <2>1 DEF ReadFile
<1>7. CASE RemoveHost(c) \/ CheckRemoved(c) \/ Tidy(c) \/ Reappend(c) \/ Reverify(c)
  <2>1. CASE /\ UNCHANGED job
             /\ \E step \in {"removed", "tidy", "reappend", "reverify", "restore"} : Goes(c, step)
    <3>1. at[c] \in Saved
      BY <1>7 DEF RemoveHost, CheckRemoved, Tidy, Reappend, Reverify, Breaks, Saved, Removed
    <3>2. at'[c] \in {"removed", "tidy", "reappend", "reverify", "restore"}
      BY <2>1, <1>i DEF Goes, WorkInv
    <3> QED BY <2>1, <3>1, <3>2, <1>i DEF Seen, Showing
  <2>2. CASE Replaced(c)
    <3>1. at'[c] = "prepare"
      BY <2>2, <1>i DEF Replaced, Goes, WorkInv
    <3> QED BY <3>1, SeesNothing DEF Showing, Saved, Removed
  <2> QED BY <1>7, <1>e, <1>g, <2>1, <2>2
       DEF RemoveHost, CheckRemoved, Tidy, Reappend, Reverify
<1>8. CASE Restore(c)
  BY <1>8, <1>e DEF Restore
<1> QED BY <1>1, <1>2, <1>3, <1>4, <1>5, <1>6, <1>7, <1>8 DEF Reviews

LEMMA NextSees == Alone /\ TypeInv /\ KnowledgeInv /\ SeenInv /\ [Next]_vars => SeenInv'
<1> SUFFICES ASSUME Alone, TypeInv, KnowledgeInv, SeenInv, [Next]_vars PROVE SeenInv'
  OBVIOUS
<1>i. WorkInv
  BY DEF TypeInv
<1>1. CASE \E a \in Actor : Registers(a)
  BY <1>1, RegistersSeen
<1>2. CASE \E c \in Cli : Reviews(c)
  BY <1>2, ReviewsSeen
<1>3. ASSUME NEW a \in Actor,
             \/ Crash(a) \/ Opened(a) \/ Discover(a) \/ \E d \in Device : OpenTerminal(a, d)
      PROVE  SeenInv'
  <2>1. Own(a) /\ UNCHANGED product /\ at'[a] \notin Showing \cup Saved
    BY <1>3, <1>i, OtherSteps DEF file, Showing, Saved, Removed
  <2>2. ASSUME NEW c \in Cli, c # a
        PROVE  Seen(c)'
    <3>1. Seen(c) /\ at'[c] = at[c] /\ job'[c] = job[c]
      BY <2>1, <2>2 DEF SeenInv, Own, Actor
    <3> QED BY <2>1, <3>1 DEF Seen
  <2> QED BY <2>1, <2>2, SeesNothing DEF SeenInv
<1>4. CASE UNCHANGED <<product, at, job>>
  BY <1>4 DEF SeenInv, Seen
<1>5. CASE \E h \in Host, k \in Key : EditProduct(h, <<k>>) \/ EditProduct(h, << >>)
  BY <1>5 DEF EditProduct, KnowledgeInv, Alone, Careful
<1> QED BY <1>1, <1>2, <1>3, <1>4, <1>5 DEF Next, vars, file, Actor, Rekey, EditOutside

LEMMA SeenAlways == ASSUME Alone PROVE Spec => [](TypeInv /\ KnowledgeInv /\ SeenInv)
<1>1. Careful
  BY DEF Alone
<1>2. Init => TypeInv /\ KnowledgeInv /\ SeenInv
  BY <1>1, InitTypes, InitKnows DEF Init, SeenInv, Seen, Showing, Saved, Removed, Actor
<1>3. TypeInv /\ KnowledgeInv /\ SeenInv /\ [Next]_vars => TypeInv' /\ KnowledgeInv' /\ SeenInv'
  BY <1>1, NextTypes, NextKnows, NextSees
<1> QED BY <1>2, <1>3, PTL DEF Spec

(* Between the display of a changed host's keys and their removal no       *)
(* terminal's registration gets in: it finds the host registered.  Two     *)
(* CLIs are left out; one can replace the keys after the other displayed   *)
(* them and before it takes its signature of the file.                     *)
THEOREM ShownIsRemoved ==
  ASSUME Alone
  PROVE  Spec => RemovesWhatWasShown
<1>1. SeenInv /\ [Next]_vars =>
        [\A c \in Cli : at[c] = "remove" /\ at'[c] = "removed" =>
           product[job[c].hop.host] = job[c].shown]_vars
  BY DEF SeenInv, Seen, Showing
<1> QED BY <1>1, SeenAlways, PTL DEF Spec, RemovesWhatWasShown

(* A restoration that says so has put back the keys that were displayed,   *)
(* whatever the terminals registered since.                                *)
THEOREM ShownIsRestored ==
  ASSUME Alone
  PROVE  Spec => RestoredKeepsOld
<1>1. ASSUME TypeInv, KnowledgeInv, SeenInv, [Next]_vars, NEW c \in Cli,
             at[c] = "restore", at'[c] = "idle", said'[c] = "restored"
      PROVE  Range(job[c].shown) \subseteq Range(product'[job[c].hop.host])
  <2> DEFINE h == job[c].hop.host
  <2>i. c \in Actor /\ WorkInv /\ DataInv /\ Known(c) /\ Seen(c)
    BY <1>1 DEF TypeInv, KnowledgeInv, SeenInv, Actor
  <2>1. h \in Host /\ product[h] = << >> /\ job[c].saved[h] = job[c].shown
    BY <1>1, <2>i DEF Known, Seen, Removed, Saved, WorkInv, Sound, Handling, Locked, LockedReview, Visit
  <2>2. job[c].shown \in Seq(Key)
    BY <2>i DEF WorkInv, Job
  <2>4. Restore(c)
    <3>1. ASSUME NEW a \in Actor \ {c}, Own(a)
          PROVE  FALSE
      BY <1>1, <2>i, <3>1 DEF Own
    <3>2. CASE \E a \in Actor : Registers(a)
      <4>1. Registers(c)
        BY <3>1, <3>2, <2>i, RegistersOwn
      <4> QED BY <1>1, <4>1 DEF Registers, Acquire, AcquireTimesOut, PrepareFileFails, Recheck,
                Probe, AppendNew, Verify, Dial
    <3>3. CASE \E b \in Cli : Reviews(b)
      <4>1. Reviews(c)
        BY <3>3 DEF Alone
      <4> QED BY <1>1, <4>1 DEF Reviews, Prepare, PrepareUnclear, Collected, AllDialed, Lookup, Sign,
                Reprobe, Confirm, Compare, Inspect, ReadFile, Backup, RemoveHost, CheckRemoved, Tidy,
                Reappend, Reverify, GivesUp, Breaks
    <3>4. ASSUME NEW a \in Actor,
                 \/ Crash(a) \/ Opened(a) \/ Discover(a) \/ \E d \in Device : OpenTerminal(a, d)
          PROVE  FALSE
      <4>1. a = c
        BY <3>1, <3>4, <2>i, OtherSteps
      <4>2. Crash(c)
        BY <1>1, <3>4, <4>1 DEF Opened, AllDialed, Discover, OpenTerminal
      <4>3. said'[c] = "crashed"
        BY <4>2, <2>i DEF Crash, Ends, WorkInv
      <4> QED BY <1>1, <4>3
    <3>5. CASE UNCHANGED at
      BY <1>1, <3>5
    <3> QED BY <1>1, <3>2, <3>3, <3>4, <3>5
         DEF Next, vars, Actor, Rekey, EditProduct, EditOutside
  <2>5. Writes(h, product[h] \o job[c].saved[h])
    <3>1. \A result : Ends(c, result) => said'[c] = result
      BY <2>i DEF Ends, WorkInv
    <3> QED BY <1>1, <2>4, <3>1 DEF Restore
  <2>6. product[h] \o job[c].saved[h] = job[c].shown
    BY <2>1, <2>2, ConcatEmptySeq
  <2>7. product'[h] = job[c].shown
    BY <2>1, <2>5, <2>6, <2>i DEF Writes, DataInv
  <2> QED BY <2>7
<1>2. TypeInv /\ KnowledgeInv /\ SeenInv /\ [Next]_vars =>
        [\A c \in Cli : at[c] = "restore" /\ at'[c] = "idle" /\ said'[c] = "restored" =>
           Range(job[c].shown) \subseteq Range(product'[job[c].hop.host])]_vars
  BY <1>1
<1> QED BY <1>2, SeenAlways, PTL DEF Spec, RestoredKeepsOld
=============================================================================
