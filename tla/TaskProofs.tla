----------------------------- MODULE TaskProofs -----------------------------
(***************************************************************************)
(* Proofs about Task: the counter of unfinished tasks is right, and nobody *)
(* works on a destroyed task, for any threads, libraries, calls and        *)
(* failures.                                                               *)
(*                                                                         *)
(* The invariant that makes them inductive says who has a task (the queue, *)
(* or one user), what a task looks like where it is, when the monitor has  *)
(* the lock, and that the counter is one too high between the end of a     *)
(* task and the subtraction.                                               *)
(***************************************************************************)
EXTENDS Task, SequenceTheorems, FiniteSetTheorems, TLAPS

Queued(k) == k \in ToSet(tasks)
Held(u) == user[u].pc # "idle"
InWalk == mon.pc \in {"tasks", "count"}
Matches(k) ==
    /\ task[k].hooked <=> task[k].finished /\ ~task[k].error
    /\ task[k].error => task[k].finished

\* No task is in the queue twice, and what is there exists and says what happened.
QueueOK ==
    /\ \A i, j \in 1..Len(tasks) : tasks[i] = tasks[j] => i = j
    /\ \A k \in Stubs : Queued(k) => task[k].mem = "live" /\ Matches(k)

\* A task that a user works on exists, has left or not yet reached the queue, and is
\* nobody else's.
UsersOK ==
    /\ \A u \in Users : Held(u) =>
        /\ user[u].k \in Stubs /\ ~Queued(user[u].k)
        /\ task[user[u].k].mem = "live" /\ Matches(user[u].k)
    /\ \A u, v \in Users : Held(u) /\ Held(v) /\ user[u].k = user[v].k => u = v

\* Before it is hooked a task is as it was created.
FreshOK == \A u \in Users : user[u].pc \in {"lookup", "monitor", "switch"} =>
    ~task[user[u].k].finished /\ ~task[user[u].k].error

\* A destroyed task has no hook.
FreedOK == \A k \in Stubs : task[k].mem = "freed" => ~task[k].hooked

\* The monitor walks over the queue with the lock held, for a library it was given.
WalkOK ==
    /\ lock = Monitor <=> InWalk
    /\ InWalk => ToSet(mon.todo) \subseteq ToSet(tasks)
    /\ mon.pc = "count" => mon.todo # <<>>
    /\ mon.pc \in {"tasks", "count", "decide"} => mon.libs # <<>>

WaitingSet == {k \in Stubs : Waiting(k)}

CountOK == unfinished = Cardinality(WaitingSet) + (IF mon.pc = "count" THEN 1 ELSE 0)

LoadersOK == \A l \in Loaders : loader[l].via # "none" => loader[l].lib \in Libs

IInv == TypeOK /\ QueueOK /\ UsersOK /\ FreshOK /\ FreedOK /\ WalkOK /\ CountOK /\ LoadersOK

USE ConstantsAssumption
USE DEF Nobody, Monitor
-----------------------------------------------------------------------------
(* Sequences and counting *)

Once(s) == \A i, j \in 1..Len(s) : s[i] = s[j] => i = j

\* One more, and one less, in a finite set of tasks.
LEMMA CountMore ==
    ASSUME NEW A \in SUBSET Stubs, NEW k \in Stubs, k \notin A
    PROVE  Cardinality(A \union {k}) = Cardinality(A) + 1
<1>1. IsFiniteSet(Stubs)
  BY FS_Interval DEF Stubs
<1>2. IsFiniteSet(A)
  BY <1>1, FS_Subset
<1> QED
  BY <1>2, FS_AddElement

LEMMA CountLess ==
    ASSUME NEW A \in SUBSET Stubs, NEW k \in A
    PROVE  Cardinality(A \ {k}) = Cardinality(A) - 1
<1>1. IsFiniteSet(Stubs)
  BY FS_Interval DEF Stubs
<1>2. IsFiniteSet(A)
  BY <1>1, FS_Subset
<1> QED
  BY <1>2, FS_RemoveElement

LEMMA CountType ==
    ASSUME NEW A \in SUBSET Stubs
    PROVE  Cardinality(A) \in Nat /\ (A # {} => Cardinality(A) > 0)
<1>1. IsFiniteSet(Stubs)
  BY FS_Interval DEF Stubs
<1>2. IsFiniteSet(A)
  BY <1>1, FS_Subset
<1>3. Cardinality(A) \in Nat /\ (Cardinality(A) = 0 <=> A = {})
  BY <1>2, FS_CardinalityType, FS_EmptySet
<1> QED
  BY <1>3

LEMMA InQueue ==
    ASSUME NEW S, NEW s \in Seq(S), NEW k
    PROVE  k \in ToSet(s) <=> \E i \in 1..Len(s) : s[i] = k
BY LenProperties DEF ToSet

LEMMA AppendQueue ==
    ASSUME NEW S, NEW s \in Seq(S), NEW k \in S
    PROVE  /\ Append(s, k) \in Seq(S)
           /\ ToSet(Append(s, k)) = ToSet(s) \union {k}
           /\ Once(s) /\ k \notin ToSet(s) => Once(Append(s, k))
<1> DEFINE t == Append(s, k)
<1>1. /\ t \in Seq(S) /\ Len(t) = Len(s) + 1 /\ Len(s) \in Nat
      /\ \A i \in 1..Len(s) : t[i] = s[i]
      /\ t[Len(s) + 1] = k
  BY AppendProperties, LenProperties
<1> HIDE DEF t
<1>2. \A x : x \in ToSet(s) <=> \E i \in 1..Len(s) : s[i] = x
  BY InQueue
<1>3. \A x : x \in ToSet(t) <=> \E i \in 1..Len(t) : t[i] = x
  BY <1>1, InQueue
<1>4. ASSUME NEW x PROVE x \in ToSet(t) <=> x \in ToSet(s) \/ x = k
  <2>1. ASSUME x \in ToSet(t) PROVE x \in ToSet(s) \/ x = k
    <3>1. PICK i \in 1..Len(t) : t[i] = x
      BY <2>1, <1>3
    <3>2. i \in 1..Len(s) \/ i = Len(s) + 1
      BY <1>1
    <3> QED
      BY <3>1, <3>2, <1>1, <1>2
  <2>2. ASSUME x \in ToSet(s) PROVE x \in ToSet(t)
    <3>1. PICK i \in 1..Len(s) : s[i] = x
      BY <2>2, <1>2
    <3>2. i \in 1..Len(t) /\ t[i] = x
      BY <3>1, <1>1
    <3> QED
      BY <3>2, <1>3
  <2>3. k \in ToSet(t)
    <3>1. Len(s) + 1 \in 1..Len(t)
      BY <1>1
    <3> QED
      BY <3>1, <1>1, <1>3
  <2> QED
    BY <2>1, <2>2, <2>3
<1>5. ASSUME Once(s), k \notin ToSet(s) PROVE Once(t)
  <2> SUFFICES ASSUME NEW i \in 1..Len(t), NEW j \in 1..Len(t), t[i] = t[j] PROVE i = j
    BY DEF Once
  <2>1. \A m \in 1..Len(s) : s[m] # k
    BY <1>5, <1>2
  <2>2. (i \in 1..Len(s) \/ i = Len(s) + 1) /\ (j \in 1..Len(s) \/ j = Len(s) + 1)
    BY <1>1
  <2> QED
    BY <2>1, <2>2, <1>1, <1>5 DEF Once
<1> QED
  BY <1>1, <1>4, <1>5 DEF t

LEMMA RemoveQueue ==
    ASSUME NEW S, NEW s \in Seq(S), NEW i \in DOMAIN s, Once(s)
    PROVE  /\ RemoveAt(s, i) \in Seq(S)
           /\ ToSet(RemoveAt(s, i)) = ToSet(s) \ {s[i]}
           /\ Once(RemoveAt(s, i))
<1> DEFINE a == SubSeq(s, 1, i - 1)
           b == SubSeq(s, i + 1, Len(s))
           t == RemoveAt(s, i)
<1>1. i \in 1..Len(s) /\ Len(s) \in Nat
  BY LenProperties
<1>2. /\ a \in Seq(S) /\ Len(a) = i - 1
      /\ \A m \in 1..i - 1 : a[m] = s[m]
  <2>1. \A m \in 1..i - 1 : s[m] \in S
    BY <1>1, ElementOfSeq
  <2>2. /\ a \in Seq(S) /\ Len(a) = IF 1 <= i - 1 THEN i - 1 - 1 + 1 ELSE 0
        /\ \A m \in 1..i - 1 - 1 + 1 : a[m] = s[1 + m - 1]
    BY <1>1, <2>1, SubSeqProperties
  <2> HIDE DEF a
  <2> QED
    BY <1>1, <2>2
<1>3. /\ b \in Seq(S) /\ Len(b) = Len(s) - i
      /\ \A m \in 1..Len(s) - i : b[m] = s[i + m]
  <2>1. \A m \in i + 1..Len(s) : s[m] \in S
    BY <1>1, ElementOfSeq
  <2>2. /\ b \in Seq(S) /\ Len(b) = IF i + 1 <= Len(s) THEN Len(s) - (i + 1) + 1 ELSE 0
        /\ \A m \in 1..Len(s) - (i + 1) + 1 : b[m] = s[(i + 1) + m - 1]
    BY <1>1, <2>1, SubSeqProperties
  <2> HIDE DEF b
  <2> QED
    BY <1>1, <2>2
<1>4. t = a \o b
  BY DEF RemoveAt
<1> HIDE DEF a, b, t
<1>5. /\ t \in Seq(S) /\ Len(t) = Len(s) - 1
      /\ \A m \in 1..Len(s) - 1 : t[m] = IF m < i THEN s[m] ELSE s[m + 1]
  <2>1. /\ t \in Seq(S) /\ Len(t) = Len(a) + Len(b)
        /\ \A m \in 1..Len(a) + Len(b) : t[m] = IF m <= Len(a) THEN a[m] ELSE b[m - Len(a)]
    <3>1. a \in Seq(S) /\ b \in Seq(S)
      BY <1>2, <1>3
    <3>2. /\ a \o b \in Seq(S) /\ Len(a \o b) = Len(a) + Len(b)
          /\ \A m \in 1..Len(a) + Len(b) :
                (a \o b)[m] = IF m <= Len(a) THEN a[m] ELSE b[m - Len(a)]
      BY <3>1, ConcatProperties
    <3> QED
      BY <3>2, <1>4
  <2>2. ASSUME NEW m \in 1..Len(s) - 1 PROVE t[m] = IF m < i THEN s[m] ELSE s[m + 1]
    <3>1. m \in 1..Len(a) + Len(b) /\ m \in Nat
      BY <1>1, <1>2, <1>3
    <3>2. CASE m < i
      BY <3>1, <3>2, <2>1, <1>1, <1>2
    <3>3. CASE ~(m < i)
      <4>3. /\ Len(a) = i - 1 /\ i \in Nat /\ m \in Nat /\ Len(s) \in Nat
            /\ i <= m /\ m <= Len(s) - 1
        BY <3>1, <3>3, <1>1, <1>2
      <4>1. m - Len(a) \in 1..Len(s) - i /\ ~(m <= Len(a)) /\ i + (m - Len(a)) = m + 1
        BY <4>3
      <4>2. t[m] = b[m - Len(a)]
        BY <3>1, <4>1, <2>1
      <4> QED
        BY <4>1, <4>2, <3>3, <1>3
    <3> QED
      BY <3>2, <3>3
  <2> QED
    BY <2>1, <2>2, <1>1, <1>2, <1>3
<1>6. \A x : x \in ToSet(s) <=> \E m \in 1..Len(s) : s[m] = x
  BY InQueue
<1>7. \A x : x \in ToSet(t) <=> \E m \in 1..Len(t) : t[m] = x
  BY <1>5, InQueue
<1>8. ASSUME NEW x PROVE x \in ToSet(t) <=> x \in ToSet(s) /\ x # s[i]
  <2>1. ASSUME x \in ToSet(t) PROVE x \in ToSet(s) /\ x # s[i]
    <3>1. PICK m \in 1..Len(t) : t[m] = x
      BY <2>1, <1>7
    <3>2. CASE m < i
      BY <3>1, <3>2, <1>1, <1>5, <1>6 DEF Once
    <3>3. CASE ~(m < i)
      <4>1. m + 1 \in 1..Len(s) /\ x = s[m + 1] /\ m + 1 # i
        BY <3>1, <3>3, <1>1, <1>5
      <4> QED
        BY <4>1, <1>1, <1>6 DEF Once
    <3> QED
      BY <3>2, <3>3
  <2>2. ASSUME x \in ToSet(s), x # s[i] PROVE x \in ToSet(t)
    <3>1. PICK m \in 1..Len(s) : s[m] = x
      BY <2>2, <1>6
    <3>2. CASE m < i
      <4>1. m \in 1..Len(t) /\ t[m] = x
        BY <3>1, <3>2, <1>1, <1>5
      <4> QED
        BY <4>1, <1>7
    <3>3. CASE m > i
      <4>1. m - 1 \in 1..Len(t) /\ t[m - 1] = x
        BY <3>1, <3>3, <1>1, <1>5
      <4> QED
        BY <4>1, <1>7
    <3> QED
      BY <3>1, <3>2, <3>3, <2>2, <1>1
  <2> QED
    BY <2>1, <2>2
<1>9. Once(t)
  <2> SUFFICES ASSUME NEW m \in 1..Len(t), NEW n \in 1..Len(t), t[m] = t[n] PROVE m = n
    BY DEF Once
  <2> DEFINE p == IF m < i THEN m ELSE m + 1
             q == IF n < i THEN n ELSE n + 1
  <2>1. p \in 1..Len(s) /\ q \in 1..Len(s) /\ t[m] = s[p] /\ t[n] = s[q]
    BY <1>1, <1>5
  <2>2. p = q
    BY <2>1 DEF Once
  <2> QED
    BY <2>2, <1>1, <1>5
<1> QED
  BY <1>5, <1>8, <1>9 DEF t

LEMMA HeadTailQueue ==
    ASSUME NEW S, NEW s \in Seq(S), s # <<>>
    PROVE  /\ Head(s) \in ToSet(s) /\ Head(s) \in S
           /\ Tail(s) \in Seq(S) /\ ToSet(Tail(s)) \subseteq ToSet(s)
<1>1. /\ Head(s) \in S /\ Tail(s) \in Seq(S) /\ Len(Tail(s)) = Len(s) - 1
      /\ \A i \in 1..Len(Tail(s)) : Tail(s)[i] = s[i + 1]
  BY HeadTailProperties
<1>2. Len(s) \in Nat \ {0} /\ Head(s) = s[1]
  BY EmptySeq
<1>3. \A x : x \in ToSet(s) <=> \E m \in 1..Len(s) : s[m] = x
  BY InQueue
<1>4. \A x : x \in ToSet(Tail(s)) <=> \E m \in 1..Len(Tail(s)) : Tail(s)[m] = x
  BY <1>1, InQueue
<1>5. Head(s) \in ToSet(s)
  BY <1>2, <1>3
<1>6. ASSUME NEW x \in ToSet(Tail(s)) PROVE x \in ToSet(s)
  <2>1. PICK m \in 1..Len(Tail(s)) : Tail(s)[m] = x
    BY <1>4
  <2>2. m + 1 \in 1..Len(s) /\ s[m + 1] = x
    BY <2>1, <1>1, <1>2
  <2> QED
    BY <2>2, <1>3
<1> QED
  BY <1>1, <1>5, <1>6

LEMMA EmptyQueue == ToSet(<<>>) = {}
BY DEF ToSet
-----------------------------------------------------------------------------
(* The initial states, and what a step leaves alone *)

Points == {"idle", "lookup", "monitor", "switch", "enqueue", "unhook"}
UserTypes == [Users -> [pc : Points, k : Stubs \union {0}]]
TaskRecords == [mem : {"unused", "live", "freed"}, lib : Libs \union {NoLib},
                finished : BOOLEAN, error : BOOLEAN, hooked : BOOLEAN]
TaskTypes == [Stubs -> TaskRecords]

LEMMA InitIInv == Init => IInv
<1> SUFFICES ASSUME Init PROVE IInv
  OBVIOUS
<1>1. NoTask \in TaskRecords /\ NotLoading.via = "none"
  BY DEF NoTask, TaskRecords, NotLoading
<1>2. TypeOK
  <2>1. NotLoading \in [via : {"none", "proxy", "original"}, lib : Libs \union {NoLib}]
    BY DEF NotLoading
  <2> HIDE DEF NotLoading, NoTask
  <2>2. task \in [Stubs -> TaskRecords]
    BY <1>1 DEF Init
  <2>7. loaded \in Seq(Libs) /\ tasks \in Seq(Stubs)
    BY EmptySeq DEF Init
  <2>3. /\ unfinished \in Nat /\ lock \in {Monitor, Nobody} /\ event \in BOOLEAN
        /\ dl_mutex \in Loaders \union {Monitor, Nobody}
        /\ monitored \in {"no", "yes", "failed"}
    BY DEF Init
  <2>4. mon \in [pc : {"poll", "iterate", "library", "tasks", "count", "decide"},
                libs : Seq(Libs), todo : Seq(Stubs)]
    BY DEF Init
  <2>5. user \in UserTypes
    BY DEF Init, UserTypes, Points
  <2>6. loader \in [Loaders -> [via : {"none", "proxy", "original"}, lib : Libs \union {NoLib}]]
    BY <2>1 DEF Init
  <2> QED
    BY <2>2, <2>3, <2>4, <2>5, <2>6, <2>7 DEF TypeOK, TaskRecords, UserTypes, Points
<1>3. ToSet(tasks) = {} /\ Len(tasks) = 0
  BY EmptyQueue DEF Init
<1>4. QueueOK
  BY <1>3 DEF QueueOK, Queued
<1>5. UsersOK /\ FreshOK
  BY DEF Init, UsersOK, FreshOK, Held
<1>6. FreedOK
  BY DEF Init, FreedOK, NoTask
<1>7. WalkOK
  BY DEF Init, WalkOK, InWalk
<1>8. CountOK
  <2>1. WaitingSet = {}
    BY <1>3 DEF WaitingSet, Waiting
  <2> QED
    BY <2>1, FS_EmptySet DEF Init, CountOK
<1>9. LoadersOK
  BY <1>1 DEF Init, LoadersOK
<1> QED
  BY <1>2, <1>4, <1>5, <1>6, <1>7, <1>8, <1>9 DEF IInv

LEMMA SameTasks ==
    ASSUME QueueOK, FreedOK, UNCHANGED <<task, tasks>>
    PROVE  QueueOK' /\ FreedOK' /\ WaitingSet' = WaitingSet
BY DEF QueueOK, FreedOK, WaitingSet, Waiting, Queued, Matches

LEMMA SameUsers ==
    ASSUME UsersOK, FreshOK, UNCHANGED <<task, tasks, user>>
    PROVE  UsersOK' /\ FreshOK'
BY DEF UsersOK, FreshOK, Held, Queued, Matches

LEMMA SameWalk ==
    ASSUME WalkOK, CountOK, UNCHANGED <<tasks, lock, mon, unfinished>>, WaitingSet' = WaitingSet
    PROVE  WalkOK' /\ CountOK'
BY DEF WalkOK, InWalk, CountOK

LEMMA SameLoaders ==
    ASSUME LoadersOK, UNCHANGED loader PROVE LoadersOK'
BY DEF LoadersOK

LEMMA StutterIInv ==
    ASSUME IInv, UNCHANGED vars PROVE IInv'
<1>1. TypeOK'
  BY DEF IInv, vars, TypeOK
<1> QED
  BY <1>1, SameTasks, SameUsers, SameWalk, SameLoaders DEF IInv, vars

\* A step of user u that touches at most the task k, which only u has, or nobody.
LEMMA UserFrame ==
    ASSUME QueueOK, UsersOK, FreshOK, FreedOK, NEW u \in Users, NEW k \in Stubs,
           tasks' = tasks,
           \A j \in Stubs : j # k => task'[j] = task[j],
           \A v \in Users : v # u => user'[v] = user[v],
           ~Queued(k), \A v \in Users : v # u /\ Held(v) => user[v].k # k,
           user'[u].pc # "idle" =>
               user'[u].k = k /\ task'[k].mem = "live" /\ Matches(k)',
           user'[u].pc \in {"lookup", "monitor", "switch"} =>
               ~task'[k].finished /\ ~task'[k].error,
           task'[k].mem = "freed" => ~task'[k].hooked
    PROVE  QueueOK' /\ UsersOK' /\ FreshOK' /\ FreedOK' /\ WaitingSet' = WaitingSet
<1>1. \A j \in Stubs : Queued(j)' <=> Queued(j)
  BY DEF Queued
<1>2. \A j \in Stubs : Queued(j) => j # k /\ task'[j] = task[j]
  OBVIOUS
<1>3. \A j \in Stubs : j # k => (Matches(j)' <=> Matches(j))
  BY DEF Matches
<1>4. QueueOK'
  BY <1>1, <1>2, <1>3 DEF QueueOK
<1>5. WaitingSet' = WaitingSet
  BY <1>2 DEF WaitingSet, Waiting, Queued
<1>6. FreedOK'
  BY DEF FreedOK
<1>7. \A v \in Users : v # u => (Held(v)' <=> Held(v)) /\ user'[v].k = user[v].k
  BY DEF Held
<1>8. UsersOK'
  <2>1. ASSUME NEW v \in Users, Held(v)'
        PROVE  /\ user'[v].k \in Stubs /\ ~Queued(user[v].k)'
               /\ task'[user'[v].k].mem = "live" /\ Matches(user[v].k)'
    <3>1. CASE v = u
      <4>1. user'[u].pc # "idle"
        BY <2>1, <3>1 DEF Held
      <4>2. user'[v].k = k /\ ~Queued(k)'
        BY <4>1, <3>1, <1>1
      <4> QED
        BY <4>1, <4>2 DEF Queued, Matches
    <3>2. CASE v # u
      <4>1. Held(v) /\ user'[v].k = user[v].k /\ user[v].k # k
        BY <2>1, <3>2, <1>7
      <4>2. user[v].k \in Stubs /\ ~Queued(user[v].k)
            /\ task[user[v].k].mem = "live" /\ Matches(user[v].k)
        BY <4>1 DEF UsersOK
      <4> QED
        BY <4>1, <4>2, <1>1, <1>3 DEF Queued, Matches
    <3> QED
      BY <3>1, <3>2
  <2>2. ASSUME NEW v \in Users, NEW w \in Users, Held(v)', Held(w)', user'[v].k = user'[w].k
        PROVE  v = w
    <3>1. CASE v # u /\ w # u
      BY <2>2, <3>1, <1>7 DEF UsersOK
    <3>2. CASE v = u /\ w # u
      <4>1. user'[v].k = k
        BY <2>2, <3>2 DEF Held
      <4> QED
        BY <2>2, <3>2, <4>1, <1>7
    <3>3. CASE v # u /\ w = u
      <4>1. user'[w].k = k
        BY <2>2, <3>3 DEF Held
      <4> QED
        BY <2>2, <3>3, <4>1, <1>7
    <3> QED
      BY <3>1, <3>2, <3>3
  <2> QED
    BY <2>1, <2>2 DEF UsersOK
<1>9. FreshOK'
  <2> SUFFICES ASSUME NEW v \in Users, user'[v].pc \in {"lookup", "monitor", "switch"}
               PROVE  ~task'[user'[v].k].finished /\ ~task'[user'[v].k].error
    BY DEF FreshOK
  <2>1. CASE v = u
    BY <2>1
  <2>2. CASE v # u
    <3>1. Held(v) /\ user'[v] = user[v]
      BY <2>2 DEF Held
    <3>2. user[v].k \in Stubs /\ user[v].k # k
      BY <2>2, <3>1 DEF UsersOK
    <3> QED
      BY <3>1, <3>2 DEF FreshOK
  <2> QED
    BY <2>1, <2>2
<1> QED
  BY <1>4, <1>5, <1>6, <1>8, <1>9

\* The user's record after a step that moves it on.
LEMMA GotoType ==
    ASSUME TypeOK, NEW u \in Users, NEW where \in Points, Goto(u, where)
    PROVE  /\ user' \in UserTypes
           /\ user'[u].pc = where /\ user'[u].k = user[u].k
           /\ \A v \in Users : v # u => user'[v] = user[v]
<1>1. user \in UserTypes
  BY DEF TypeOK, UserTypes, Points
<1>2. user[u] \in [pc : Points, k : Stubs \union {0}]
  BY <1>1 DEF UserTypes
<1>3. user' = [user EXCEPT ![u] = [user[u] EXCEPT !.pc = where]]
  BY DEF Goto
<1>4. [user[u] EXCEPT !.pc = where] \in [pc : Points, k : Stubs \union {0}]
  BY <1>2
<1>5. [user[u] EXCEPT !.pc = where].pc = where /\ [user[u] EXCEPT !.pc = where].k = user[u].k
  BY <1>2
<1> QED
  BY <1>1, <1>3, <1>4, <1>5 DEF UserTypes

LEMMA PutType ==
    ASSUME TypeOK, NEW u \in Users, NEW where \in Points, NEW k \in Stubs,
           user' = [user EXCEPT ![u] = [pc |-> where, k |-> k]]
    PROVE  /\ user' \in UserTypes
           /\ user'[u].pc = where /\ user'[u].k = k
           /\ \A v \in Users : v # u => user'[v] = user[v]
<1>1. user \in UserTypes
  BY DEF TypeOK, UserTypes, Points
<1> QED
  BY <1>1 DEF UserTypes

\* A held task.
LEMMA HeldTask ==
    ASSUME IInv, NEW u \in Users, user[u].pc # "idle"
    PROVE  /\ user[u].k \in Stubs /\ ~Queued(user[u].k)
           /\ task[user[u].k].mem = "live" /\ Matches(user[u].k)
           /\ task[user[u].k] \in TaskRecords /\ task \in TaskTypes
           /\ \A v \in Users : v # u /\ Held(v) => user[v].k # user[u].k
           /\ user[u].pc \in {"lookup", "monitor", "switch"} =>
                  ~task[user[u].k].finished /\ ~task[user[u].k].error
<1>1. task \in TaskTypes
  BY DEF IInv, TypeOK, TaskTypes, TaskRecords
<1>2. Held(u)
  BY DEF Held
<1> QED
  BY <1>1, <1>2 DEF IInv, UsersOK, FreshOK, TaskTypes
-----------------------------------------------------------------------------
(* Users *)

\* The other types of a step of a user.
LEMMA UserTypeOK ==
    ASSUME TypeOK, task' \in TaskTypes, user' \in UserTypes, tasks' \in Seq(Stubs),
           unfinished' \in Nat, monitored' \in {"no", "yes", "failed"},
           UNCHANGED <<loaded, dl_mutex, lock, event, loader, mon>>
    PROVE  TypeOK'
BY DEF TypeOK, TaskTypes, TaskRecords, UserTypes, Points

LEMMA TypesOf ==
    ASSUME TypeOK
    PROVE  /\ task \in TaskTypes /\ user \in UserTypes /\ tasks \in Seq(Stubs)
           /\ unfinished \in Nat /\ monitored \in {"no", "yes", "failed"}
BY DEF TypeOK, TaskTypes, TaskRecords, UserTypes, Points

\* What a step of a user has to say that leaves the queue alone.
LEMMA UserStepIInv ==
    ASSUME IInv, NEW u \in Users, NEW k \in Stubs,
           task' \in TaskTypes, user' \in UserTypes, monitored' \in {"no", "yes", "failed"},
           UNCHANGED <<loaded, dl_mutex, tasks, lock, unfinished, event, loader, mon>>,
           \A j \in Stubs : j # k => task'[j] = task[j],
           \A v \in Users : v # u => user'[v] = user[v],
           ~Queued(k), \A v \in Users : v # u /\ Held(v) => user[v].k # k,
           user'[u].pc # "idle" =>
               user'[u].k = k /\ task'[k].mem = "live" /\ Matches(k)',
           user'[u].pc \in {"lookup", "monitor", "switch"} =>
               ~task'[k].finished /\ ~task'[k].error,
           task'[k].mem = "freed" => ~task'[k].hooked
    PROVE  IInv'
<1>1. TypeOK'
  <2>1. tasks' \in Seq(Stubs) /\ unfinished' \in Nat
    BY TypesOf DEF IInv
  <2> QED
    BY <2>1, UserTypeOK DEF IInv
<1>2. QueueOK' /\ UsersOK' /\ FreshOK' /\ FreedOK' /\ WaitingSet' = WaitingSet
  BY UserFrame DEF IInv
<1>3. WalkOK' /\ CountOK' /\ LoadersOK'
  BY <1>2, SameWalk, SameLoaders DEF IInv
<1> QED
  BY <1>1, <1>2, <1>3 DEF IInv

LEMMA HookBeginIInv ==
    ASSUME IInv, NEW u \in Users, NEW lib \in Libs, HookBegin(u, lib) PROVE IInv'
<1>1. PICK k \in Stubs :
        /\ user[u].pc = "idle" /\ task[k].mem = "unused"
        /\ task' = [task EXCEPT ![k] = [NoTask EXCEPT !.mem = "live", !.lib = lib]]
        /\ user' = [user EXCEPT ![u] = [pc |-> "lookup", k |-> k]]
        /\ UNCHANGED <<loaded, dl_mutex, monitored, tasks, lock, unfinished, event, loader, mon>>
  BY DEF HookBegin
<1>2. task \in TaskTypes /\ monitored \in {"no", "yes", "failed"}
  BY TypesOf DEF IInv
<1> DEFINE new == [NoTask EXCEPT !.mem = "live", !.lib = lib]
<1>3. new \in TaskRecords /\ new.mem = "live" /\ ~new.finished /\ ~new.error /\ ~new.hooked
  BY DEF NoTask, TaskRecords
<1> HIDE DEF new
<1>4. /\ task' \in TaskTypes /\ task'[k] = new
      /\ \A j \in Stubs : j # k => task'[j] = task[j]
  <2>1. task' = [task EXCEPT ![k] = new]
    BY <1>1 DEF new
  <2> QED
    BY <2>1, <1>2, <1>3 DEF TaskTypes
<1>5. /\ user' \in UserTypes /\ user'[u].pc = "lookup" /\ user'[u].k = k
      /\ \A v \in Users : v # u => user'[v] = user[v]
  <2>1. "lookup" \in Points
    BY DEF Points
  <2> QED
    BY <2>1, <1>1, PutType DEF IInv
<1>6. ~Queued(k) /\ \A v \in Users : v # u /\ Held(v) => user[v].k # k
  BY <1>1 DEF IInv, QueueOK, UsersOK
<1>7. Matches(k)'
  BY <1>3, <1>4 DEF Matches
<1>8. task'[k].mem = "live" /\ ~task'[k].finished /\ ~task'[k].error
  BY <1>3, <1>4
<1> QED
  BY <1>1, <1>2, <1>4, <1>5, <1>6, <1>7, <1>8, UserStepIInv

\* A step that leaves the tasks alone and moves the user on.
LEMMA MoveOnIInv ==
    ASSUME IInv, NEW u \in Users, NEW where \in Points \ {"idle"}, Goto(u, where),
           user[u].pc \in {"lookup", "monitor"}, monitored' \in {"no", "yes", "failed"},
           UNCHANGED <<loaded, dl_mutex, task, tasks, lock, unfinished, event, loader, mon>>
    PROVE  IInv'
<1>1. /\ user[u].k \in Stubs /\ ~Queued(user[u].k)
      /\ task[user[u].k].mem = "live" /\ Matches(user[u].k) /\ task \in TaskTypes
      /\ \A v \in Users : v # u /\ Held(v) => user[v].k # user[u].k
      /\ ~task[user[u].k].finished /\ ~task[user[u].k].error
  BY HeldTask
<1>2. /\ user' \in UserTypes /\ user'[u].pc = where /\ user'[u].k = user[u].k
      /\ \A v \in Users : v # u => user'[v] = user[v]
  BY GotoType DEF IInv
<1> DEFINE k == user[u].k
<1>3. /\ task'[k].mem = "live" /\ (task'[k].error => task'[k].finished)
      /\ task'[k].hooked <=> task'[k].finished /\ ~task'[k].error
  BY <1>1 DEF Matches
<1>4. k \in Stubs /\ task' \in TaskTypes /\ \A j \in Stubs : task'[j] = task[j]
  BY <1>1
<1>5. ~task'[k].finished /\ ~task'[k].error /\ task'[k].mem # "freed"
  BY <1>1
<1>6. PICK n \in Stubs : n = k
  BY <1>4
<1>7. Matches(n)'
  BY <1>3, <1>6 DEF Matches
<1>8. /\ ~Queued(n) /\ (\A v \in Users : v # u /\ Held(v) => user[v].k # n)
      /\ user'[u].k = n /\ task'[n].mem = "live"
      /\ ~task'[n].finished /\ ~task'[n].error
  BY <1>1, <1>2, <1>3, <1>5, <1>6
<1> HIDE DEF k
<1> QED
  BY <1>2, <1>4, <1>7, <1>8, UserStepIInv

\* The task is destroyed.
LEMMA RefuseIInv ==
    ASSUME IInv, NEW u \in Users, Refuse(u),
           user[u].pc \in {"lookup", "monitor", "switch"},
           monitored' \in {"no", "yes", "failed"},
           UNCHANGED <<loaded, dl_mutex, tasks, lock, unfinished, event, loader, mon>>
    PROVE  IInv'
<1>1. PICK n \in Stubs : n = user[u].k
  BY HeldTask
<1>2. /\ ~Queued(n) /\ Matches(n) /\ task[n] \in TaskRecords /\ task \in TaskTypes
      /\ \A v \in Users : v # u /\ Held(v) => user[v].k # n
      /\ ~task[n].finished /\ ~task[n].error
  BY <1>1, HeldTask
<1>3. "idle" \in Points
  BY DEF Points
<1>4. /\ user' \in UserTypes /\ user'[u].pc = "idle"
      /\ \A v \in Users : v # u => user'[v] = user[v]
  BY <1>3, GotoType DEF IInv, Refuse
<1> DEFINE new == [task[n] EXCEPT !.mem = "freed"]
<1>5. new \in TaskRecords /\ new.mem = "freed" /\ ~new.hooked
  BY <1>2 DEF TaskRecords, Matches
<1>6. task' = [task EXCEPT ![n] = new]
  BY <1>1 DEF Refuse
<1> HIDE DEF new
<1>7. /\ task' \in TaskTypes /\ task'[n] = new
      /\ \A j \in Stubs : j # n => task'[j] = task[j]
  BY <1>2, <1>5, <1>6 DEF TaskTypes
<1>8. ~task'[n].hooked
  BY <1>5, <1>7
<1> QED
  BY <1>2, <1>4, <1>7, <1>8, UserStepIInv

LEMMA LookupIInv ==
    ASSUME IInv, NEW u \in Users, Lookup(u) PROVE IInv'
<1>1. /\ user[u].pc = "lookup"
      /\ UNCHANGED <<loaded, dl_mutex, monitored, tasks, lock, unfinished, event, loader, mon>>
  BY DEF Lookup
<1>2. monitored' \in {"no", "yes", "failed"}
  BY <1>1, TypesOf DEF IInv
<1>3. CASE Goto(u, "switch") /\ UNCHANGED task
  <2>1. "switch" \in Points \ {"idle"}
    BY DEF Points
  <2> QED
    BY <2>1, <1>1, <1>2, <1>3, MoveOnIInv
<1>4. CASE Goto(u, "monitor") /\ UNCHANGED task
  <2>1. "monitor" \in Points \ {"idle"}
    BY DEF Points
  <2> QED
    BY <2>1, <1>1, <1>2, <1>4, MoveOnIInv
<1>5. CASE Refuse(u)
  BY <1>1, <1>2, <1>5, RefuseIInv
<1> QED
  BY <1>3, <1>4, <1>5 DEF Lookup

LEMMA StartMonitorIInv ==
    ASSUME IInv, NEW u \in Users, StartMonitor(u) PROVE IInv'
<1>1. /\ user[u].pc = "monitor" /\ monitored' \in {"no", "yes", "failed"}
      /\ UNCHANGED <<loaded, dl_mutex, tasks, lock, unfinished, event, loader, mon>>
  BY DEF StartMonitor
<1>2. CASE Goto(u, "enqueue") /\ UNCHANGED task
  <2>1. "enqueue" \in Points \ {"idle"}
    BY DEF Points
  <2> QED
    BY <2>1, <1>1, <1>2, MoveOnIInv
<1>3. CASE Refuse(u)
  BY <1>1, <1>3, RefuseIInv
<1> QED
  BY <1>2, <1>3 DEF StartMonitor

LEMMA SwitchHookIInv ==
    ASSUME IInv, NEW u \in Users, SwitchHook(u) PROVE IInv'
<1>1. /\ user[u].pc = "switch"
      /\ UNCHANGED <<loaded, dl_mutex, monitored, tasks, lock, unfinished, event, loader, mon>>
  BY DEF SwitchHook
<1>2. monitored' \in {"no", "yes", "failed"}
  BY <1>1, TypesOf DEF IInv
<1>3. CASE Refuse(u)
  BY <1>1, <1>2, <1>3, RefuseIInv
<1>4. CASE task' = [task EXCEPT ![user[u].k].hooked = TRUE, ![user[u].k].finished = TRUE]
           /\ Goto(u, "enqueue")
  <2>1. PICK n \in Stubs : n = user[u].k
    BY <1>1, HeldTask
  <2>2. /\ ~Queued(n) /\ task[n].mem = "live" /\ task[n] \in TaskRecords /\ task \in TaskTypes
        /\ \A v \in Users : v # u /\ Held(v) => user[v].k # n
        /\ ~task[n].error
    BY <1>1, <2>1, HeldTask
  <2>3. "enqueue" \in Points
    BY DEF Points
  <2>4. /\ user' \in UserTypes /\ user'[u].pc = "enqueue" /\ user'[u].k = n
        /\ \A v \in Users : v # u => user'[v] = user[v]
    BY <1>4, <2>1, <2>3, GotoType DEF IInv
  <2> DEFINE new == [[task[n] EXCEPT !.hooked = TRUE] EXCEPT !.finished = TRUE]
  <2>5. new \in TaskRecords /\ new.mem = "live" /\ new.hooked /\ new.finished /\ ~new.error
    BY <2>2 DEF TaskRecords
  <2>6. task' = [task EXCEPT ![n] = new]
    <3>1. task' = [[task EXCEPT ![n].hooked = TRUE] EXCEPT ![n].finished = TRUE]
      BY <1>4, <2>1
    <3> QED
      BY <3>1, <2>2 DEF TaskTypes
  <2> HIDE DEF new
  <2>7. /\ task' \in TaskTypes /\ task'[n] = new
        /\ \A j \in Stubs : j # n => task'[j] = task[j]
    BY <2>2, <2>5, <2>6 DEF TaskTypes
  <2>8. Matches(n)' /\ task'[n].mem = "live"
    BY <2>5, <2>7 DEF Matches
  <2> QED
    BY <1>1, <1>2, <2>2, <2>4, <2>7, <2>8, UserStepIInv
<1> QED
  BY <1>3, <1>4 DEF SwitchHook

LEMMA UnhookIInv ==
    ASSUME IInv, NEW u \in Users, Unhook(u) PROVE IInv'
<1>1. /\ user[u].pc = "unhook" /\ Goto(u, "idle")
      /\ UNCHANGED <<loaded, dl_mutex, monitored, tasks, lock, unfinished, event, loader, mon>>
  BY DEF Unhook
<1>2. monitored' \in {"no", "yes", "failed"}
  BY <1>1, TypesOf DEF IInv
<1>3. PICK n \in Stubs : n = user[u].k
  BY <1>1, HeldTask
<1>4. /\ ~Queued(n) /\ Matches(n) /\ task[n] \in TaskRecords /\ task \in TaskTypes
      /\ \A v \in Users : v # u /\ Held(v) => user[v].k # n
  BY <1>1, <1>3, HeldTask
<1>5. "idle" \in Points
  BY DEF Points
<1>6. /\ user' \in UserTypes /\ user'[u].pc = "idle"
      /\ \A v \in Users : v # u => user'[v] = user[v]
  BY <1>1, <1>5, GotoType DEF IInv
<1> DEFINE still == task[n].hooked /\ ~(task[n].finished /\ ~task[n].error)
           new == [[task[n] EXCEPT !.mem = "freed"] EXCEPT !.hooked = still]
<1>7. still = FALSE
  BY <1>4 DEF Matches
<1>8. new \in TaskRecords /\ new.mem = "freed" /\ ~new.hooked
  BY <1>4, <1>7 DEF TaskRecords
<1>9. task' = [task EXCEPT ![n] = new]
  <2>1. task' = [[task EXCEPT ![n].mem = "freed"]
                   EXCEPT ![n].hooked = @ /\ ~(task[n].finished /\ ~task[n].error)]
    BY <1>3 DEF Unhook
  <2>2. [task EXCEPT ![n].mem = "freed"][n] = [task[n] EXCEPT !.mem = "freed"]
    BY <1>4 DEF TaskTypes
  <2>3. [task[n] EXCEPT !.mem = "freed"].hooked = task[n].hooked
    BY <1>4 DEF TaskRecords
  <2> QED
    BY <2>1, <2>2, <2>3, <1>4 DEF TaskTypes
<1> HIDE DEF new
<1>10. /\ task' \in TaskTypes /\ task'[n] = new
       /\ \A j \in Stubs : j # n => task'[j] = task[j]
  BY <1>4, <1>8, <1>9 DEF TaskTypes
<1>11. ~task'[n].hooked
  BY <1>8, <1>10
<1> QED
  BY <1>1, <1>2, <1>4, <1>6, <1>10, <1>11, UserStepIInv
LEMMA EnqueueIInv ==
    ASSUME IInv, NEW u \in Users, Enqueue(u) PROVE IInv'
<1>1. /\ user[u].pc = "enqueue" /\ lock = Nobody /\ Goto(u, "idle")
      /\ tasks' = Append(tasks, user[u].k)
      /\ unfinished' = IF task[user[u].k].finished THEN unfinished ELSE unfinished + 1
      /\ UNCHANGED <<loaded, dl_mutex, monitored, task, lock, event, loader, mon>>
  BY DEF Enqueue
<1>2. PICK n \in Stubs : n = user[u].k
  BY <1>1, HeldTask
<1>3. /\ ~Queued(n) /\ task[n].mem = "live" /\ Matches(n) /\ task \in TaskTypes
      /\ \A v \in Users : v # u /\ Held(v) => user[v].k # n
  BY <1>1, <1>2, HeldTask
<1>4. "idle" \in Points
  BY DEF Points
<1>5. /\ user' \in UserTypes /\ user'[u].pc = "idle"
      /\ \A v \in Users : v # u => user'[v] = user[v]
  BY <1>1, <1>4, GotoType DEF IInv
<1>6. tasks \in Seq(Stubs) /\ unfinished \in Nat /\ monitored \in {"no", "yes", "failed"}
  BY TypesOf DEF IInv
<1>7. Once(tasks) /\ n \notin ToSet(tasks) /\ tasks' = Append(tasks, n)
  BY <1>1, <1>2, <1>3 DEF IInv, QueueOK, Once, Queued
<1>8. tasks' \in Seq(Stubs) /\ ToSet(tasks') = ToSet(tasks) \union {n} /\ Once(tasks')
  BY <1>6, <1>7, AppendQueue
<1>9. TypeOK'
  <2>1. unfinished' \in Nat /\ monitored' \in {"no", "yes", "failed"} /\ task' \in TaskTypes
    BY <1>1, <1>3, <1>6
  <2> QED
    BY <2>1, <1>1, <1>5, <1>8, UserTypeOK DEF IInv
<1>10. QueueOK'
  <2>1. \A k \in Stubs : k \in ToSet(tasks) => task[k].mem = "live" /\ Matches(k)
    BY DEF IInv, QueueOK, Queued
  <2>2. \A k \in Stubs : k \in ToSet(tasks') => task[k].mem = "live" /\ Matches(k)
    BY <2>1, <1>3, <1>8
  <2> QED
    BY <2>2, <1>1, <1>8 DEF QueueOK, Queued, Once, Matches
<1>11. UsersOK' /\ FreshOK' /\ FreedOK'
  <2>1. \A v \in Users : Held(v)' => v # u /\ Held(v) /\ user'[v] = user[v]
    BY <1>5 DEF Held
  <2>2. ASSUME NEW v \in Users, Held(v)'
        PROVE  /\ user'[v].k \in Stubs /\ user'[v].k \notin ToSet(tasks')
               /\ task'[user'[v].k].mem = "live" /\ Matches(user[v].k)'
    <3>1. /\ user[v].k \in Stubs /\ user[v].k \notin ToSet(tasks)
          /\ task[user[v].k].mem = "live" /\ Matches(user[v].k)
          /\ user[v].k # n /\ user'[v] = user[v]
      BY <2>1, <2>2, <1>3 DEF IInv, UsersOK, Queued
    <3> QED
      BY <3>1, <1>1, <1>8 DEF Matches
  <2>3. UsersOK'
    <3>1. \A v, w \in Users : Held(v)' /\ Held(w)' /\ user'[v].k = user'[w].k => v = w
      BY <2>1 DEF IInv, UsersOK
    <3> QED
      BY <2>2, <3>1 DEF UsersOK, Queued
  <2>4. FreshOK'
    <3> SUFFICES ASSUME NEW v \in Users, user'[v].pc \in {"lookup", "monitor", "switch"}
                 PROVE  ~task'[user'[v].k].finished /\ ~task'[user'[v].k].error
      BY DEF FreshOK
    <3>1. v # u /\ user'[v] = user[v]
      BY <1>5
    <3> QED
      BY <3>1, <1>1 DEF IInv, FreshOK
  <2>5. FreedOK'
    BY <1>1 DEF IInv, FreedOK
  <2> QED
    BY <2>3, <2>4, <2>5
<1>12. WalkOK'
  BY <1>1, <1>8 DEF IInv, WalkOK, InWalk
<1>13. CountOK'
  <2>1. mon.pc # "count" /\ mon' = mon
    BY <1>1 DEF IInv, WalkOK, InWalk
  <2>2. unfinished = Cardinality(WaitingSet)
    <3>1. Cardinality(WaitingSet) \in Nat
      BY CountType DEF WaitingSet
    <3>2. unfinished = Cardinality(WaitingSet) + 0
      BY <2>1 DEF IInv, CountOK
    <3> QED
      BY <3>1, <3>2
  <2>3. WaitingSet \in SUBSET Stubs /\ n \notin WaitingSet
    BY <1>7 DEF WaitingSet, Waiting
  <2>4. CASE task[n].finished
    <3>1. WaitingSet' = WaitingSet
      BY <2>4, <1>1, <1>8 DEF WaitingSet, Waiting
    <3>2. unfinished' = unfinished
      BY <2>4, <1>1, <1>2
    <3> QED
      BY <3>1, <3>2, <2>1 DEF CountOK, IInv
  <2>5. CASE ~task[n].finished
    <3>1. WaitingSet' = WaitingSet \union {n}
      BY <2>5, <1>1, <1>8 DEF WaitingSet, Waiting
    <3>2. unfinished' = unfinished + 1
      BY <2>5, <1>1, <1>2
    <3>3. Cardinality(WaitingSet \union {n}) = Cardinality(WaitingSet) + 1
      BY <2>3, CountMore
    <3>4. Cardinality(WaitingSet) \in Nat
      BY <2>3, CountType
    <3>5. Cardinality(WaitingSet') = Cardinality(WaitingSet) + 1
      BY <3>1, <3>3
    <3>6. unfinished' = Cardinality(WaitingSet') + 0
      BY <3>2, <3>4, <3>5, <2>2
    <3> QED
      BY <3>6, <2>1 DEF CountOK
  <2> QED
    BY <2>4, <2>5
<1>14. LoadersOK'
  BY <1>1, SameLoaders DEF IInv
<1> QED
  BY <1>9, <1>10, <1>11, <1>12, <1>13, <1>14 DEF IInv

LEMMA DequeueIInv ==
    ASSUME IInv, NEW u \in Users, NEW n \in Stubs, Dequeue(u, n) PROVE IInv'
<1>1. /\ user[u].pc = "idle" /\ lock = Nobody
      /\ user' = [user EXCEPT ![u] = [pc |-> "unhook", k |-> n]]
      /\ unfinished' = IF task[n].finished THEN unfinished ELSE unfinished - 1
      /\ UNCHANGED <<loaded, dl_mutex, monitored, task, lock, event, loader, mon>>
  BY DEF Dequeue
<1>2. PICK i \in DOMAIN tasks : tasks[i] = n /\ tasks' = RemoveAt(tasks, i)
  BY DEF Dequeue
<1>3. /\ tasks \in Seq(Stubs) /\ unfinished \in Nat /\ task \in TaskTypes
      /\ monitored \in {"no", "yes", "failed"}
  BY TypesOf DEF IInv
<1>4. Once(tasks)
  BY DEF IInv, QueueOK, Once
<1>5. tasks' \in Seq(Stubs) /\ ToSet(tasks') = ToSet(tasks) \ {n} /\ Once(tasks')
  BY <1>2, <1>3, <1>4, RemoveQueue
<1>6. n \in ToSet(tasks)
  BY <1>2 DEF ToSet
<1>7. /\ user' \in UserTypes /\ user'[u].pc = "unhook" /\ user'[u].k = n
      /\ \A v \in Users : v # u => user'[v] = user[v]
  <2>1. "unhook" \in Points
    BY DEF Points
  <2> QED
    BY <2>1, <1>1, PutType DEF IInv
<1>8. task[n].mem = "live" /\ Matches(n) /\ \A v \in Users : Held(v) => user[v].k # n
  BY <1>6 DEF IInv, QueueOK, UsersOK, Queued
<1>9. CountOK' /\ unfinished' \in Nat
  <2>1. mon.pc # "count" /\ mon' = mon
    BY <1>1 DEF IInv, WalkOK, InWalk
  <2>2. unfinished = Cardinality(WaitingSet)
    <3>1. Cardinality(WaitingSet) \in Nat
      BY CountType DEF WaitingSet
    <3>2. unfinished = Cardinality(WaitingSet) + 0
      BY <2>1 DEF IInv, CountOK
    <3> QED
      BY <3>1, <3>2
  <2>3. WaitingSet \in SUBSET Stubs
    BY DEF WaitingSet
  <2>4. CASE task[n].finished
    <3>1. WaitingSet' = WaitingSet
      BY <2>4, <1>1, <1>5 DEF WaitingSet, Waiting
    <3>2. unfinished' = unfinished
      BY <2>4, <1>1
    <3> QED
      BY <3>1, <3>2, <2>1, <1>3 DEF CountOK, IInv
  <2>5. CASE ~task[n].finished
    <3>1. WaitingSet' = WaitingSet \ {n} /\ n \in WaitingSet
      BY <2>5, <1>1, <1>5, <1>6 DEF WaitingSet, Waiting
    <3>2. unfinished' = unfinished - 1
      BY <2>5, <1>1
    <3>3. Cardinality(WaitingSet \ {n}) = Cardinality(WaitingSet) - 1
      BY <2>3, <3>1, CountLess
    <3>4. Cardinality(WaitingSet) \in Nat /\ Cardinality(WaitingSet) > 0
      BY <2>3, <3>1, CountType
    <3>5. Cardinality(WaitingSet') = Cardinality(WaitingSet) - 1
      BY <3>1, <3>3
    <3>6. unfinished' = Cardinality(WaitingSet') + 0 /\ unfinished' \in Nat
      BY <3>2, <3>4, <3>5, <2>2
    <3> QED
      BY <3>6, <2>1 DEF CountOK
  <2> QED
    BY <2>4, <2>5
<1>10. TypeOK'
  <2>1. monitored' \in {"no", "yes", "failed"} /\ task' \in TaskTypes
    BY <1>1, <1>3
  <2> QED
    BY <2>1, <1>1, <1>5, <1>7, <1>9, UserTypeOK DEF IInv
<1>11. QueueOK'
  <2>1. \A k \in Stubs : k \in ToSet(tasks') => task[k].mem = "live" /\ Matches(k)
    BY <1>5 DEF IInv, QueueOK, Queued
  <2> QED
    BY <2>1, <1>1, <1>5 DEF QueueOK, Queued, Once, Matches
<1>12. UsersOK' /\ FreshOK' /\ FreedOK'
  <2>1. \A v \in Users : v # u /\ Held(v)' => Held(v) /\ user'[v] = user[v]
    BY <1>7 DEF Held
  <2>2. ASSUME NEW v \in Users, Held(v)'
        PROVE  /\ user'[v].k \in Stubs /\ user'[v].k \notin ToSet(tasks')
               /\ task'[user'[v].k].mem = "live" /\ Matches(user[v].k)'
    <3>1. CASE v = u
      BY <3>1, <1>1, <1>5, <1>7, <1>8 DEF Matches
    <3>2. CASE v # u
      <4>1. /\ user[v].k \in Stubs /\ user[v].k \notin ToSet(tasks)
            /\ task[user[v].k].mem = "live" /\ Matches(user[v].k)
            /\ user'[v] = user[v]
        BY <2>1, <2>2, <3>2 DEF IInv, UsersOK, Queued
      <4> QED
        BY <4>1, <1>1, <1>5 DEF Matches
    <3> QED
      BY <3>1, <3>2
  <2>3. UsersOK'
    <3>1. \A v, w \in Users : Held(v)' /\ Held(w)' /\ user'[v].k = user'[w].k => v = w
      <4> SUFFICES ASSUME NEW v \in Users, NEW w \in Users, Held(v)', Held(w)',
                          user'[v].k = user'[w].k, v # w
                   PROVE  FALSE
        OBVIOUS
      <4>1. CASE v # u /\ w # u
        BY <4>1, <2>1 DEF IInv, UsersOK
      <4>2. CASE v = u
        BY <4>2, <2>1, <1>7, <1>8
      <4>3. CASE w = u
        BY <4>3, <2>1, <1>7, <1>8
      <4> QED
        BY <4>1, <4>2, <4>3
    <3> QED
      BY <2>2, <3>1 DEF UsersOK, Queued
  <2>4. FreshOK'
    <3> SUFFICES ASSUME NEW v \in Users, user'[v].pc \in {"lookup", "monitor", "switch"}
                 PROVE  ~task'[user'[v].k].finished /\ ~task'[user'[v].k].error
      BY DEF FreshOK
    <3>1. v # u /\ user'[v] = user[v]
      BY <1>7
    <3> QED
      BY <3>1, <1>1 DEF IInv, FreshOK
  <2>5. FreedOK'
    BY <1>1 DEF IInv, FreedOK
  <2> QED
    BY <2>3, <2>4, <2>5
<1>13. WalkOK'
  BY <1>1 DEF IInv, WalkOK, InWalk
<1>14. LoadersOK'
  BY <1>1, SameLoaders DEF IInv
<1> QED
  BY <1>9, <1>10, <1>11, <1>12, <1>13, <1>14 DEF IInv
-----------------------------------------------------------------------------
(* Loaders *)

Loadings == [Loaders -> [via : {"none", "proxy", "original"}, lib : Libs \union {NoLib}]]

LEMMA LoaderIInv ==
    ASSUME IInv, loader' \in Loadings, LoadersOK', loaded' \in Seq(Libs),
           dl_mutex' \in Loaders \union {Monitor, Nobody}, event' \in BOOLEAN,
           UNCHANGED <<monitored, task, tasks, lock, unfinished, user, mon>>
    PROVE  IInv'
<1>1. TypeOK'
  BY DEF IInv, TypeOK, Loadings
<1> QED
  BY <1>1, SameTasks, SameUsers, SameWalk DEF IInv

LEMMA LoadIInv ==
    ASSUME IInv, NEW l \in Loaders, NEW lib \in Libs, Load(l, lib) PROVE IInv'
<1> DEFINE new == [via |-> IF monitored = "yes" THEN "proxy" ELSE "original", lib |-> lib]
<1>1. new \in [via : {"none", "proxy", "original"}, lib : Libs \union {NoLib}] /\ new.lib \in Libs
  OBVIOUS
<1>2. /\ dl_mutex' = l /\ loader' = [loader EXCEPT ![l] = new]
      /\ UNCHANGED <<loaded, monitored, task, tasks, lock, unfinished, event, user, mon>>
  BY DEF Load
<1> HIDE DEF new
<1>3. loader \in Loadings /\ loaded \in Seq(Libs) /\ event \in BOOLEAN
  BY DEF IInv, TypeOK, Loadings
<1>4. loader' \in Loadings /\ LoadersOK'
  BY <1>1, <1>2, <1>3 DEF Loadings, LoadersOK, IInv
<1> QED
  BY <1>2, <1>3, <1>4, LoaderIInv

LEMMA LoadsIInv ==
    ASSUME IInv, NEW l \in Loaders, NEW via \in {"proxy", "original"}, Loads(l, via),
           event' \in BOOLEAN
    PROVE  IInv'
<1>1. /\ loader[l].via = via /\ loaded' = Append(loaded, loader[l].lib)
      /\ dl_mutex' = Nobody /\ loader' = [loader EXCEPT ![l] = NotLoading]
      /\ UNCHANGED <<monitored, task, tasks, lock, unfinished, user, mon>>
  BY DEF Loads
<1>2. loader \in Loadings /\ loaded \in Seq(Libs)
  BY DEF IInv, TypeOK, Loadings
<1>3. /\ NotLoading \in [via : {"none", "proxy", "original"}, lib : Libs \union {NoLib}]
      /\ NotLoading.via = "none"
  BY DEF NotLoading
<1>4. loader[l].lib \in Libs
  BY <1>1 DEF IInv, LoadersOK
<1>5. loaded' \in Seq(Libs)
  BY <1>1, <1>2, <1>4, AppendProperties
<1>6. loader' \in Loadings /\ LoadersOK'
  BY <1>1, <1>2, <1>3 DEF Loadings, LoadersOK, IInv
<1> QED
  BY <1>1, <1>5, <1>6, LoaderIInv

LEMMA PostDlopenIInv ==
    ASSUME IInv, NEW l \in Loaders, PostDlopen(l) PROVE IInv'
<1>1. event' \in BOOLEAN
  BY DEF PostDlopen
<1> QED
  BY <1>1, LoadsIInv DEF PostDlopen

LEMMA NoPostDlopenIInv ==
    ASSUME IInv, NEW l \in Loaders, NoPostDlopen(l) PROVE IInv'
<1>1. event' \in BOOLEAN
  BY DEF NoPostDlopen, IInv, TypeOK
<1> QED
  BY <1>1, LoadsIInv DEF NoPostDlopen
-----------------------------------------------------------------------------
(* The monitor thread *)

Walks == [pc : {"poll", "iterate", "library", "tasks", "count", "decide"},
          libs : Seq(Libs), todo : Seq(Stubs)]

LEMMA MonType == TypeOK => mon \in Walks
BY DEF TypeOK, Walks

\* A step of the monitor that finishes no task and counts none.
LEMMA MonitorIInv ==
    ASSUME IInv, mon' \in Walks, WalkOK', mon.pc # "count", mon'.pc # "count",
           lock' \in {Monitor, Nobody}, event' \in BOOLEAN,
           dl_mutex' \in Loaders \union {Monitor, Nobody},
           UNCHANGED <<loaded, monitored, task, tasks, unfinished, user, loader>>
    PROVE  IInv'
<1>1. TypeOK'
  BY DEF IInv, TypeOK, Walks
<1>2. QueueOK' /\ FreedOK' /\ WaitingSet' = WaitingSet
  BY SameTasks DEF IInv
<1>3. CountOK'
  BY <1>2 DEF IInv, CountOK
<1> QED
  BY <1>1, <1>2, <1>3, SameUsers, SameLoaders DEF IInv

LEMMA MonGotoType ==
    ASSUME TypeOK, NEW where \in {"poll", "iterate", "library", "tasks", "count", "decide"},
           MonGoto(where)
    PROVE  mon' \in Walks /\ mon'.pc = where /\ mon'.libs = mon.libs /\ mon'.todo = mon.todo
BY MonType DEF MonGoto, Walks

LEMMA PollIInv == ASSUME IInv, Poll PROVE IInv'
<1>1. /\ mon.pc = "poll" /\ event' = FALSE /\ MonGoto("iterate")
      /\ UNCHANGED <<loaded, dl_mutex, monitored, task, tasks, lock, unfinished, user, loader>>
  BY DEF Poll
<1>2. mon' \in Walks /\ mon'.pc = "iterate"
  BY <1>1, MonGotoType DEF IInv
<1>3. lock \in {Monitor, Nobody} /\ dl_mutex \in Loaders \union {Monitor, Nobody}
  BY DEF IInv, TypeOK
<1>4. WalkOK'
  BY <1>1, <1>2 DEF IInv, WalkOK, InWalk
<1> QED
  BY <1>1, <1>2, <1>3, <1>4, MonitorIInv

LEMMA IterateIInv == ASSUME IInv, Iterate PROVE IInv'
<1>1. /\ mon.pc = "iterate" /\ dl_mutex' = Monitor
      /\ mon' = [mon EXCEPT !.pc = "library", !.libs = loaded]
      /\ UNCHANGED <<loaded, monitored, task, tasks, lock, unfinished, event, user, loader>>
  BY DEF Iterate
<1>2. mon \in Walks /\ loaded \in Seq(Libs)
  BY MonType DEF IInv, TypeOK
<1>3. mon' \in Walks /\ mon'.pc = "library"
  BY <1>1, <1>2 DEF Walks
<1>4. lock \in {Monitor, Nobody} /\ event \in BOOLEAN
  BY DEF IInv, TypeOK
<1>5. WalkOK'
  BY <1>1, <1>3 DEF IInv, WalkOK, InWalk
<1> QED
  BY <1>1, <1>3, <1>4, <1>5, MonitorIInv

LEMMA NextLibraryIInv == ASSUME IInv, NextLibrary PROVE IInv'
<1>1. /\ mon.pc = "library" /\ mon.libs # <<>> /\ lock' = Monitor
      /\ mon' = [mon EXCEPT !.pc = "tasks", !.todo = tasks]
      /\ UNCHANGED <<loaded, dl_mutex, monitored, task, tasks, unfinished, event, user, loader>>
  BY DEF NextLibrary
<1>2. mon \in Walks /\ tasks \in Seq(Stubs)
  BY MonType DEF IInv, TypeOK
<1>3. mon' \in Walks /\ mon'.pc = "tasks" /\ mon'.libs = mon.libs /\ mon'.todo = tasks
  BY <1>1, <1>2 DEF Walks
<1>4. dl_mutex \in Loaders \union {Monitor, Nobody} /\ event \in BOOLEAN
  BY DEF IInv, TypeOK
<1>5. WalkOK'
  BY <1>1, <1>3 DEF IInv, WalkOK, InWalk
<1> QED
  BY <1>1, <1>3, <1>4, <1>5, MonitorIInv

LEMMA EndIterateIInv == ASSUME IInv, EndIterate PROVE IInv'
<1>1. /\ mon.pc = "library" /\ dl_mutex' = Nobody /\ MonGoto("poll")
      /\ UNCHANGED <<loaded, monitored, task, tasks, lock, unfinished, event, user, loader>>
  BY DEF EndIterate
<1>2. mon' \in Walks /\ mon'.pc = "poll"
  BY <1>1, MonGotoType DEF IInv
<1>3. lock \in {Monitor, Nobody} /\ event \in BOOLEAN
  BY DEF IInv, TypeOK
<1>4. WalkOK'
  BY <1>1, <1>2 DEF IInv, WalkOK, InWalk
<1> QED
  BY <1>1, <1>2, <1>3, <1>4, MonitorIInv

LEMMA SkipIInv == ASSUME IInv, Skip PROVE IInv'
<1>1. /\ mon.pc = "tasks" /\ mon.todo # <<>>
      /\ mon' = [mon EXCEPT !.todo = Tail(mon.todo)]
      /\ UNCHANGED <<loaded, dl_mutex, monitored, task, tasks, lock, unfinished, event, user, loader>>
  BY DEF Skip
<1>2. mon \in Walks /\ mon.todo \in Seq(Stubs)
  BY MonType DEF IInv, Walks
<1>3. Tail(mon.todo) \in Seq(Stubs) /\ ToSet(Tail(mon.todo)) \subseteq ToSet(mon.todo)
  BY <1>1, <1>2, HeadTailQueue
<1>4. mon' \in Walks /\ mon'.pc = "tasks" /\ mon'.libs = mon.libs /\ mon'.todo = Tail(mon.todo)
  BY <1>1, <1>2, <1>3 DEF Walks
<1>5. /\ lock \in {Monitor, Nobody} /\ event \in BOOLEAN
      /\ dl_mutex \in Loaders \union {Monitor, Nobody}
  BY DEF IInv, TypeOK
<1>6. WalkOK'
  BY <1>1, <1>3, <1>4 DEF IInv, WalkOK, InWalk
<1> QED
  BY <1>1, <1>4, <1>5, <1>6, MonitorIInv

LEMMA EndTasksIInv == ASSUME IInv, EndTasks PROVE IInv'
<1>1. /\ mon.pc = "tasks" /\ lock' = Nobody /\ MonGoto("decide")
      /\ UNCHANGED <<loaded, dl_mutex, monitored, task, tasks, unfinished, event, user, loader>>
  BY DEF EndTasks
<1>2. mon' \in Walks /\ mon'.pc = "decide" /\ mon'.libs = mon.libs
  BY <1>1, MonGotoType DEF IInv
<1>3. dl_mutex \in Loaders \union {Monitor, Nobody} /\ event \in BOOLEAN
  BY DEF IInv, TypeOK
<1>4. WalkOK'
  BY <1>1, <1>2 DEF IInv, WalkOK, InWalk
<1> QED
  BY <1>1, <1>2, <1>3, <1>4, MonitorIInv

LEMMA DecideIInv == ASSUME IInv, Decide PROVE IInv'
<1>1. /\ mon.pc = "decide"
      /\ mon' = [mon EXCEPT !.pc = "library",
                            !.libs = IF unfinished > 0 THEN Tail(mon.libs) ELSE <<>>]
      /\ UNCHANGED <<loaded, dl_mutex, monitored, task, tasks, lock, unfinished, event, user, loader>>
  BY MonType DEF Decide, IInv, Walks
<1>2. mon \in Walks /\ mon.libs \in Seq(Libs) /\ mon.libs # <<>>
  BY <1>1, MonType DEF IInv, Walks, WalkOK
<1>3. Tail(mon.libs) \in Seq(Libs) /\ <<>> \in Seq(Libs)
  BY <1>2, HeadTailQueue, EmptySeq
<1>4. PICK rest \in Seq(Libs) : rest = IF unfinished > 0 THEN Tail(mon.libs) ELSE <<>>
  BY <1>3
<1>5. mon' \in Walks /\ mon'.pc = "library"
  BY <1>1, <1>2, <1>4 DEF Walks
<1>6. /\ lock \in {Monitor, Nobody} /\ event \in BOOLEAN
      /\ dl_mutex \in Loaders \union {Monitor, Nobody}
  BY DEF IInv, TypeOK
<1>7. WalkOK'
  BY <1>1, <1>5 DEF IInv, WalkOK, InWalk
<1> QED
  BY <1>1, <1>5, <1>6, <1>7, MonitorIInv

\* The task at the head of the walk is finished; the counter follows.
LEMMA FinishIInv == ASSUME IInv, Finish PROVE IInv'
<1>1. PICK n : n = Head(mon.todo)
  OBVIOUS
<1>2. /\ mon.pc = "tasks" /\ mon.todo # <<>> /\ ~task[n].finished /\ MonGoto("count")
      /\ \/ task' = [task EXCEPT ![n].finished = TRUE, ![n].hooked = TRUE]
         \/ task' = [task EXCEPT ![n].finished = TRUE, ![n].error = TRUE]
      /\ UNCHANGED <<loaded, dl_mutex, monitored, tasks, lock, unfinished, event, user, loader>>
  BY <1>1 DEF Finish
<1>3. mon \in Walks /\ mon.todo \in Seq(Stubs)
  BY MonType DEF IInv, Walks
<1>4. n \in Stubs /\ n \in ToSet(tasks)
  <2>1. n \in Stubs /\ n \in ToSet(mon.todo)
    BY <1>1, <1>2, <1>3, HeadTailQueue
  <2> QED
    BY <2>1, <1>2 DEF IInv, WalkOK, InWalk
<1>5. task \in TaskTypes /\ task[n] \in TaskRecords /\ unfinished \in Nat
  BY <1>4, TypesOf DEF IInv, TaskTypes
<1>6. task[n].mem = "live" /\ Matches(n)
  BY <1>4 DEF IInv, QueueOK, Queued
<1>7. PICK r \in TaskRecords :
        /\ task' = [task EXCEPT ![n] = r]
        /\ r.mem = "live" /\ r.finished /\ (r.hooked <=> ~r.error)
  <2>1. CASE task' = [task EXCEPT ![n].finished = TRUE, ![n].hooked = TRUE]
    <3> DEFINE r == [[task[n] EXCEPT !.finished = TRUE] EXCEPT !.hooked = TRUE]
    <3>1. task' = [[task EXCEPT ![n].finished = TRUE] EXCEPT ![n].hooked = TRUE]
      BY <2>1
    <3>2. task' = [task EXCEPT ![n] = r]
      BY <3>1, <1>4, <1>5 DEF TaskTypes
    <3>3. r \in TaskRecords /\ r.mem = "live" /\ r.finished /\ r.hooked /\ r.error = task[n].error
      BY <1>5, <1>6 DEF TaskRecords
    <3>4. ~task[n].error
      BY <1>2, <1>6 DEF Matches
    <3> QED
      BY <3>2, <3>3, <3>4
  <2>2. CASE task' = [task EXCEPT ![n].finished = TRUE, ![n].error = TRUE]
    <3> DEFINE r == [[task[n] EXCEPT !.finished = TRUE] EXCEPT !.error = TRUE]
    <3>1. task' = [[task EXCEPT ![n].finished = TRUE] EXCEPT ![n].error = TRUE]
      BY <2>2
    <3>2. task' = [task EXCEPT ![n] = r]
      BY <3>1, <1>4, <1>5 DEF TaskTypes
    <3>3. r \in TaskRecords /\ r.mem = "live" /\ r.finished /\ r.error /\ r.hooked = task[n].hooked
      BY <1>5, <1>6 DEF TaskRecords
    <3>4. ~task[n].hooked
      BY <1>2, <1>6 DEF Matches
    <3> QED
      BY <3>2, <3>3, <3>4
  <2> QED
    BY <2>1, <2>2, <1>2
<1>8. /\ mon' \in Walks /\ mon'.pc = "count"
      /\ mon'.libs = mon.libs /\ mon'.todo = mon.todo
  BY <1>2, MonGotoType DEF IInv
<1>9. /\ task' \in TaskTypes /\ task'[n] = r
      /\ \A j \in Stubs : j # n => task'[j] = task[j]
  BY <1>4, <1>5, <1>7 DEF TaskTypes
<1>10. Matches(n)' /\ task'[n].mem = "live"
  BY <1>7, <1>9 DEF Matches
<1>11. TypeOK'
  BY <1>2, <1>8, <1>9 DEF IInv, TypeOK, Walks, TaskTypes, TaskRecords
<1>12. QueueOK' /\ FreedOK'
  <2>1. \A j \in Stubs : Queued(j) => task'[j].mem = "live" /\ Matches(j)'
    <3>1. \A j \in Stubs : j # n => (Matches(j)' <=> Matches(j))
      BY <1>9 DEF Matches
    <3> QED
      BY <3>1, <1>9, <1>10 DEF IInv, QueueOK
  <2>2. \A j \in Stubs : Queued(j)' <=> Queued(j)
    BY <1>2 DEF Queued
  <2>3. QueueOK'
    BY <2>1, <2>2, <1>2 DEF IInv, QueueOK
  <2>4. FreedOK'
    BY <1>9, <1>10 DEF IInv, FreedOK
  <2> QED
    BY <2>3, <2>4
<1>13. UsersOK' /\ FreshOK'
  <2>1. ASSUME NEW v \in Users, Held(v)
        PROVE  user[v].k \in Stubs /\ user[v].k # n /\ task'[user[v].k] = task[user[v].k]
    <3>1. user[v].k \in Stubs /\ ~Queued(user[v].k)
      BY <2>1 DEF IInv, UsersOK
    <3> QED
      BY <3>1, <1>4, <1>9 DEF Queued
  <2>2. \A v \in Users : Held(v)' <=> Held(v)
    BY <1>2 DEF Held
  <2>3. ASSUME NEW v \in Users, Held(v)
        PROVE  /\ ~Queued(user[v].k)' /\ task'[user'[v].k].mem = "live" /\ Matches(user[v].k)'
    <3>1. /\ ~Queued(user[v].k) /\ task[user[v].k].mem = "live" /\ Matches(user[v].k)
      BY <2>3 DEF IInv, UsersOK
    <3> QED
      BY <3>1, <2>1, <2>3, <1>2 DEF Queued, Matches
  <2>4. UsersOK'
    BY <2>1, <2>2, <2>3, <1>2 DEF IInv, UsersOK
  <2>5. \A v \in Users : user[v].pc \in {"lookup", "monitor", "switch"} => Held(v)
    BY DEF Held
  <2>6. FreshOK'
    BY <2>1, <2>5, <1>2 DEF IInv, FreshOK
  <2> QED
    BY <2>4, <2>6
<1>14. WalkOK'
  BY <1>2, <1>8 DEF IInv, WalkOK, InWalk
<1>15. CountOK'
  <2>1. WaitingSet' = WaitingSet \ {n} /\ n \in WaitingSet /\ WaitingSet \in SUBSET Stubs
    BY <1>2, <1>4, <1>7, <1>9 DEF WaitingSet, Waiting
  <2>2. Cardinality(WaitingSet) \in Nat /\ Cardinality(WaitingSet \ {n}) = Cardinality(WaitingSet) - 1
    BY <2>1, CountType, CountLess
  <2>3. unfinished = Cardinality(WaitingSet) + 0
    BY <1>2 DEF IInv, CountOK
  <2>4. Cardinality(WaitingSet') = Cardinality(WaitingSet) - 1
    BY <2>1, <2>2
  <2>5. unfinished' = Cardinality(WaitingSet') + 1
    BY <2>2, <2>3, <2>4, <1>2
  <2> QED
    BY <2>5, <1>8 DEF CountOK
<1>16. LoadersOK'
  BY <1>2, SameLoaders DEF IInv
<1> QED
  BY <1>11, <1>12, <1>13, <1>14, <1>15, <1>16 DEF IInv

LEMMA CountOutIInv == ASSUME IInv, CountOut PROVE IInv'
<1>1. /\ mon.pc = "count" /\ unfinished' = unfinished - 1
      /\ mon' = [mon EXCEPT !.pc = "tasks",
                            !.todo = IF unfinished' = 0 THEN <<>> ELSE Tail(mon.todo)]
      /\ UNCHANGED <<loaded, dl_mutex, monitored, task, tasks, lock, event, user, loader>>
  BY MonType DEF CountOut, IInv, Walks
<1>2. mon \in Walks /\ mon.todo \in Seq(Stubs) /\ mon.todo # <<>>
  BY <1>1, MonType DEF IInv, Walks, WalkOK
<1>3. /\ Tail(mon.todo) \in Seq(Stubs) /\ <<>> \in Seq(Stubs)
      /\ ToSet(Tail(mon.todo)) \subseteq ToSet(mon.todo) /\ ToSet(<<>>) \subseteq ToSet(mon.todo)
  BY <1>2, HeadTailQueue, EmptySeq, EmptyQueue
<1>4. PICK rest \in Seq(Stubs) :
        /\ rest = IF unfinished' = 0 THEN <<>> ELSE Tail(mon.todo)
        /\ ToSet(rest) \subseteq ToSet(mon.todo)
  BY <1>3
<1>5. mon' \in Walks /\ mon'.pc = "tasks" /\ mon'.libs = mon.libs /\ mon'.todo = rest
  BY <1>1, <1>2, <1>4 DEF Walks
<1>6. QueueOK' /\ FreedOK' /\ WaitingSet' = WaitingSet
  BY <1>1, SameTasks DEF IInv
<1>7. Cardinality(WaitingSet) \in Nat
  BY CountType DEF WaitingSet
<1>8. unfinished = Cardinality(WaitingSet) + 1
  BY <1>1 DEF IInv, CountOK
<1>9. unfinished' = Cardinality(WaitingSet') + 0 /\ unfinished' \in Nat
  BY <1>1, <1>6, <1>7, <1>8
<1>10. TypeOK'
  BY <1>1, <1>5, <1>9 DEF IInv, TypeOK, Walks
<1>11. WalkOK'
  BY <1>1, <1>4, <1>5 DEF IInv, WalkOK, InWalk
<1>12. CountOK'
  BY <1>5, <1>9 DEF CountOK
<1> QED
  BY <1>1, <1>6, <1>10, <1>11, <1>12, SameUsers, SameLoaders DEF IInv
-----------------------------------------------------------------------------
(* The theorems *)

LEMMA NextIInv == IInv /\ [Next]_vars => IInv'
<1> SUFFICES ASSUME IInv, [Next]_vars PROVE IInv'
  OBVIOUS
<1>1. ASSUME NEW u \in Users, NEW lib \in Libs, HookBegin(u, lib) PROVE IInv'
  BY <1>1, HookBeginIInv
<1>2. ASSUME NEW u \in Users, NEW k \in Stubs, Dequeue(u, k) PROVE IInv'
  BY <1>2, DequeueIInv
<1>3. ASSUME NEW u \in Users, UserStep(u) PROVE IInv'
  BY <1>3, LookupIInv, StartMonitorIInv, SwitchHookIInv, EnqueueIInv, UnhookIInv DEF UserStep
<1>4. ASSUME NEW l \in Loaders, NEW lib \in Libs, Load(l, lib) PROVE IInv'
  BY <1>4, LoadIInv
<1>5. ASSUME NEW l \in Loaders, PostDlopen(l) \/ NoPostDlopen(l) PROVE IInv'
  BY <1>5, PostDlopenIInv, NoPostDlopenIInv
<1>6. ASSUME MonitorStep PROVE IInv'
  BY <1>6, PollIInv, IterateIInv, NextLibraryIInv, EndIterateIInv, SkipIInv, FinishIInv,
     CountOutIInv, EndTasksIInv, DecideIInv DEF MonitorStep
<1>7. CASE UNCHANGED vars
  BY <1>7, StutterIInv
<1> QED
  BY <1>1, <1>2, <1>3, <1>4, <1>5, <1>6, <1>7 DEF Next

\* The invariant holds in every state of every behaviour.
LEMMA Invariance == Spec => []IInv
BY InitIInv, NextIInv, PTL DEF Spec

LEMMA IInvCount == IInv => CountIsRight
<1> SUFFICES ASSUME IInv, lock = Nobody
             PROVE  unfinished = Cardinality({k \in Stubs : Waiting(k)})
  BY DEF CountIsRight
<1>1. mon.pc # "count"
  BY DEF IInv, WalkOK, InWalk
<1>2. Cardinality(WaitingSet) \in Nat
  BY CountType DEF WaitingSet
<1>3. unfinished = Cardinality(WaitingSet) + 0
  BY <1>1 DEF IInv, CountOK
<1>4. unfinished = Cardinality(WaitingSet)
  BY <1>2, <1>3
<1> QED
  BY <1>4 DEF WaitingSet

LEMMA IInvSound == IInv => TasksAreSound
<1> SUFFICES ASSUME IInv PROVE TasksAreSound
  OBVIOUS
<1>1. \A k \in ToSet(tasks) : k \in Stubs
  BY TypesOf, InQueue, ElementOfSeq DEF IInv
<1>2. NoDanglingTask
  <2>1. \A k \in ToSet(tasks) : task[k].mem = "live"
    BY <1>1 DEF IInv, QueueOK, Queued
  <2>2. mon.pc = "tasks" => \A k \in ToSet(mon.todo) : task[k].mem = "live"
    BY <2>1 DEF IInv, WalkOK, InWalk
  <2>3. \A u \in Users : user[u].pc # "idle" => task[user[u].k].mem = "live"
    BY DEF IInv, UsersOK, Held
  <2> QED
    BY <2>1, <2>2, <2>3 DEF NoDanglingTask
<1>3. HookedIffFinished
  BY DEF IInv, QueueOK, FreedOK, Queued, Matches, HookedIffFinished
<1> QED
  BY <1>2, <1>3 DEF IInv, TasksAreSound

\* Whenever the lock is free the counter of sh_task.cpp is the number of tasks that wait
\* in the queue: the proxy of do_dlopen notifies the monitor exactly if something waits,
\* whoever hooked, unhooked or finished in the meantime.
THEOREM CountCorrect == Spec => []CountIsRight
BY Invariance, IInvCount, PTL

\* Nobody works on a destroyed task, and a stub in the queue is hooked exactly if it
\* finished without error, for any threads, libraries and calls, whatever fails.
THEOREM TasksCorrect == Spec => []TasksAreSound
BY Invariance, IInvSound, PTL
=============================================================================
