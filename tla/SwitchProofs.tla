---------------------------- MODULE SwitchProofs ----------------------------
(***************************************************************************)
(* Proofs about Switch, for every number of threads, proxies and hubs, for *)
(* all delays and every set of faults.                                     *)
(*                                                                         *)
(* None of the invariants is inductive: they speak of the tree, the head   *)
(* of the function and the hubs at rest, and hold because a thread that is *)
(* between two of its steps has its hub for itself.  The invariant below   *)
(* says what that is at each point: who holds the lock, whose hub is in    *)
(* the tree, which hubs nobody has used, and what the head of the function *)
(* is while it is being changed.                                           *)
(***************************************************************************)
EXTENDS Switch, TLAPS

Holding == {"rewrite", "patch", "add", "restore"}
Detached == {"insert", "destroy", "destroy later"}

\* The write lock is held by the thread in its section, which works on the tree.
Locked == \A t \in Hookers :
    /\ writer = t <=> pc[t] \in Holding
    /\ pc[t] \in Holding => self[t] = tree /\ tree # None /\ hub[tree].enabled = {}

\* A thread outside the section has a hub for itself, which is nowhere else.
Owned(t) == pc[t] \in Detached =>
    /\ self[t] \in Hubs \ delayed
    /\ self[t] # tree
    /\ hub[self[t]].mem = "live"
    /\ pc[t] = "insert" =>
         /\ hub[self[t]].switch = "live"
         /\ hub[self[t]].trampoFreed = Never
         /\ hub[self[t]].enabled = {}
Owns == \A t \in Hookers : Owned(t)

Apart == \A t, u \in Hookers :
    pc[t] \in Detached /\ pc[u] \in Detached /\ self[t] = self[u] => t = u

\* The hub in the tree is alive, with its switch and its trampoline.
InTree == tree # None =>
    /\ tree \notin delayed
    /\ hub[tree].mem = "live" /\ hub[tree].switch = "live" /\ hub[tree].trampoFreed = Never

Unused == \A h \in Hubs :
    /\ hub[h].enabled \subseteq hub[h].known
    /\ hub[h].mem = "unused" => hub[h].enabled = {} /\ hub[h].trampoFreed = Never

Waiting == \A h \in delayed : hub[h].mem = "live" /\ hub[h].switch = "freed"

\* Every live hub has one who will destroy it.
Kept == \A h \in Hubs : hub[h].mem = "live" =>
    h = tree \/ h \in delayed \/ \E t \in Hookers : pc[t] \in Detached /\ self[t] = h

NotStuck == \A h \in Hubs : ~hub[h].stuck

Head == NotStuck =>
    /\ code # None => code = tree /\ hub[tree].orig
    /\ writer = Nobody => code = tree /\ (tree # None => hub[tree].enabled # {})
    /\ \A t \in Hookers :
        /\ pc[t] \in {"rewrite", "patch"} => code = None
        /\ pc[t] = "patch" => hub[tree].orig
        /\ pc[t] \in {"add", "restore"} => code = tree

\* What the caller of hook or unhook asked for, and has been answered.
Served == \A t \in Hookers :
    /\ pc[t] = "idle" => request[t] = Idle /\ result[t] = Unknown
    /\ pc[t] \in {"hook", "create", "insert", "rewrite", "patch", "add", "abort"} =>
         request[t].op = "hook" /\ result[t] = Unknown /\ request[t].func \in Funcs
    /\ pc[t] = "unhook" => request[t].op = "unhook" /\ result[t] = Unknown
    /\ pc[t] = "restore" => request[t].op = "unhook" /\ result[t] = "ok"
    /\ pc[t] \in {"read len", "destroy", "destroy later", "return"} => result[t] # Unknown

IInv == /\ TypeOK /\ Locked /\ Owns /\ Apart /\ InTree /\ Unused /\ Waiting /\ Kept
        /\ Head /\ Served

USE HubsAssumption, HookersAssumption, DelayAssumption
USE DEF None, Nobody, Never, Unknown

LEMMA InitIInv == Init => IInv
<1> SUFFICES ASSUME Init PROVE IInv
  OBVIOUS
<1>1. NewHub \in HubStates /\ Idle \in Requests /\ AtRest \in CallStates
  BY DEF NewHub, HubStates, Idle, Requests, AtRest, CallStates
<1>2. TypeOK
  BY <1>1 DEF Init, TypeOK, Points, Results
<1>3. Locked /\ Owns /\ Apart /\ InTree /\ Unused /\ Waiting /\ Kept
  BY DEF Init, Locked, Owns, Owned, Apart, InTree, Unused, Waiting, Kept, NewHub, Holding, Detached
<1>4. Head /\ Served
  BY DEF Init, Head, Served
<1> QED
  BY <1>2, <1>3, <1>4 DEF IInv
-----------------------------------------------------------------------------
(* What a step does to the record of one hub *)

\* The hub h has changed to r, and the other ones have not.
Becomes(h, r) == hub' \in [Hubs -> HubStates] /\ hub'[h] = r /\ \A g \in Hubs : g # h => hub'[g] = hub[g]

LEMMA UpdateHub ==
    ASSUME TypeOK, NEW h \in Hubs, NEW r \in HubStates, hub' = [hub EXCEPT ![h] = r]
    PROVE  Becomes(h, r)
BY DEF TypeOK, Becomes

LEMMA HubType == ASSUME TypeOK, NEW h \in Hubs PROVE hub[h] \in HubStates
BY DEF TypeOK

SameLife(r, s) == r.mem = s.mem /\ r.switch = s.switch /\ r.trampoFreed = s.trampoFreed
SameProxies(r, s) == r.enabled = s.enabled /\ r.known = s.known

LEMMA ProxiesField ==
    ASSUME NEW r \in HubStates, NEW E \in SUBSET Funcs, NEW K \in SUBSET Funcs
    PROVE  LET s == [r EXCEPT !.enabled = E, !.known = K]
           IN  /\ s \in HubStates /\ s.enabled = E /\ s.known = K
               /\ SameLife(s, r) /\ s.orig = r.orig /\ s.stuck = r.stuck
BY DEF HubStates, SameLife

LEMMA EnabledField ==
    ASSUME NEW r \in HubStates, NEW E \in SUBSET Funcs
    PROVE  LET s == [r EXCEPT !.enabled = E]
           IN  /\ s \in HubStates /\ s.enabled = E /\ s.known = r.known
               /\ SameLife(s, r) /\ s.orig = r.orig /\ s.stuck = r.stuck
BY DEF HubStates, SameLife

LEMMA LiveFields ==
    ASSUME NEW r \in HubStates
    PROVE  LET s == [r EXCEPT !.mem = "live", !.switch = "live"]
           IN  /\ s \in HubStates /\ s.mem = "live" /\ s.switch = "live"
               /\ s.trampoFreed = r.trampoFreed /\ s.stuck = r.stuck
               /\ s.orig = r.orig /\ SameProxies(s, r)
BY DEF HubStates, SameProxies

LEMMA OrigField ==
    ASSUME NEW r \in HubStates
    PROVE  LET s == [r EXCEPT !.orig = TRUE]
           IN  /\ s \in HubStates /\ s.orig /\ s.stuck = r.stuck
               /\ SameLife(s, r) /\ SameProxies(s, r)
BY DEF HubStates, SameLife, SameProxies

LEMMA FailedFields ==
    ASSUME NEW r \in HubStates, NEW n \in Nat
    PROVE  LET s == [r EXCEPT !.orig = FALSE, !.enterFreed = n]
           IN  s \in HubStates /\ s.stuck = r.stuck /\ SameLife(s, r) /\ SameProxies(s, r)
BY DEF HubStates, SameLife, SameProxies

LEMMA EnterField ==
    ASSUME NEW r \in HubStates, NEW n \in Nat
    PROVE  LET s == [r EXCEPT !.enterFreed = n]
           IN  s \in HubStates /\ s.stuck = r.stuck /\ SameLife(s, r) /\ SameProxies(s, r)
BY DEF HubStates, SameLife, SameProxies

LEMMA StuckField ==
    ASSUME NEW r \in HubStates
    PROVE  LET s == [r EXCEPT !.stuck = TRUE]
           IN  s \in HubStates /\ s.stuck /\ SameLife(s, r) /\ SameProxies(s, r)
BY DEF HubStates, SameLife, SameProxies

LEMMA FreedFields ==
    ASSUME NEW r \in HubStates, NEW n \in Nat
    PROVE  /\ LET s == [r EXCEPT !.mem = "freed"]
              IN  /\ s \in HubStates /\ s.mem = "freed" /\ s.stuck = r.stuck /\ s.orig = r.orig
                  /\ s.switch = r.switch /\ s.trampoFreed = r.trampoFreed /\ SameProxies(s, r)
           /\ LET s == [r EXCEPT !.mem = "freed", !.switch = "freed", !.trampoFreed = n]
              IN  /\ s \in HubStates /\ s.mem = "freed" /\ s.stuck = r.stuck
                  /\ SameProxies(s, r)
           /\ LET s == [r EXCEPT !.ts = n, !.switch = "freed", !.trampoFreed = n]
              IN  /\ s \in HubStates /\ s.mem = r.mem /\ s.switch = "freed" /\ s.stuck = r.stuck
                  /\ SameProxies(s, r)
<1> USE DEF HubStates, SameProxies
<1>1. LET s == [r EXCEPT !.mem = "freed"]
      IN  /\ s \in HubStates /\ s.mem = "freed" /\ s.stuck = r.stuck /\ s.orig = r.orig
          /\ s.switch = r.switch /\ s.trampoFreed = r.trampoFreed /\ SameProxies(s, r)
  OBVIOUS
<1>2. LET s == [r EXCEPT !.mem = "freed", !.switch = "freed", !.trampoFreed = n]
      IN  /\ s \in HubStates /\ s.mem = "freed" /\ s.stuck = r.stuck
          /\ SameProxies(s, r)
  OBVIOUS
<1>3. LET s == [r EXCEPT !.ts = n, !.switch = "freed", !.trampoFreed = n]
      IN  /\ s \in HubStates /\ s.mem = r.mem /\ s.switch = "freed" /\ s.stuck = r.stuck
          /\ SameProxies(s, r)
  OBVIOUS
<1> QED
  BY <1>1, <1>2, <1>3
-----------------------------------------------------------------------------
(* Steps that several actions share *)

\* A thread that does not step keeps its hub, if the others do not touch it.
Undisturbed(u) == pc[u] \in Detached =>
    self[u] \notin delayed' /\ self[u] # tree' /\ hub'[self[u]] = hub[self[u]]

LEMMA OthersOwn ==
    ASSUME Owns, NEW t \in Hookers,
           \A u \in Hookers : u # t => pc'[u] = pc[u] /\ self'[u] = self[u] /\ Undisturbed(u),
           Owned(t)'
    PROVE  Owns'
BY DEF Owns, Owned, Undisturbed

\* t moves to where.
Moves(t, where) == pc' \in [Hookers -> Points] /\ pc'[t] = where /\ \A u \in Hookers : u # t => pc'[u] = pc[u]

LEMMA GotoMoves ==
    ASSUME TypeOK, NEW t \in Hookers, NEW where \in Points, Goto(t, where)
    PROVE  Moves(t, where)
BY DEF Goto, Moves, TypeOK

\* Only t's local hub changes.
SelfOf(t) == self' \in [Hookers -> Hubs \union {None}] /\ \A u \in Hookers : u # t => self'[u] = self[u]

\* Only t's result changes, to r.
Answers(t, r) == result' \in [Hookers -> Results] /\ result'[t] = r /\ \A u \in Hookers : u # t => result'[u] = result[u]

LEMMA AnswerAnswers ==
    ASSUME TypeOK, NEW t \in Hookers, NEW r \in Results, Answer(t, r)
    PROVE  Answers(t, r)
BY DEF Answer, Answers, TypeOK

\* A step of t that neither takes nor leaves a hub.
LEMMA QuietStep ==
    ASSUME IInv, NEW t \in Hookers, NEW where \in Points \ (Holding \union Detached),
           Moves(t, where), pc[t] \notin Holding \union Detached, SelfOf(t),
           UNCHANGED <<tree, code, writer, hub, delayed>>, TypeOK', Served'
    PROVE  IInv'
<1> USE DEF IInv, Moves, SelfOf
<1>1. Locked'
  BY DEF Locked, Holding
<1>2. Owns'
  BY ZenonT(40) DEF Owns, Owned, Detached
<1>3. Apart'
  BY DEF Apart
<1>4. InTree' /\ Unused' /\ Waiting'
  BY DEF InTree, Unused, Waiting
<1>5. Kept'
  BY DEF Kept
<1>6. Head'
  BY DEF Head, NotStuck, Holding
<1> QED
  BY <1>1, <1>2, <1>3, <1>4, <1>5, <1>6

\* sh_hub_add_proxy on the hub in the tree.
LEMMA AddProxyEffect ==
    ASSUME TypeOK, NEW t \in Hookers, NEW h \in Hubs, NEW f \in Funcs, AddProxy(t, h, f)
    PROVE  /\ Answers(t, result'[t]) /\ Becomes(h, hub'[h])
           /\ SameLife(hub'[h], hub[h]) /\ hub'[h].orig = hub[h].orig /\ hub'[h].stuck = hub[h].stuck
           /\ \/ f \in hub[h].enabled /\ hub'[h] = hub[h] /\ result'[t] = "dup"
              \/ /\ f \notin hub[h].enabled /\ result'[t] = "ok"
                 /\ hub'[h].enabled = hub[h].enabled \union {f}
                 /\ hub'[h].known = hub[h].known \union {f}
              \/ hub'[h] = hub[h] /\ result'[t] = "error"
<1> DEFINE E == hub[h].enabled \union {f}
<1> DEFINE K == hub[h].known \union {f}
<1> DEFINE r == [hub[h] EXCEPT !.enabled = E, !.known = K]
<1>1. hub[h] \in HubStates /\ E \in SUBSET Funcs /\ K \in SUBSET Funcs
  BY DEF TypeOK, HubStates
<1>2. /\ r \in HubStates /\ r.enabled = E /\ r.known = K
      /\ SameLife(r, hub[h]) /\ r.orig = hub[h].orig /\ r.stuck = hub[h].stuck
  <2>1. LET s == [hub[h] EXCEPT !.enabled = E, !.known = K]
        IN  /\ s \in HubStates /\ s.enabled = E /\ s.known = K
            /\ SameLife(s, hub[h]) /\ s.orig = hub[h].orig /\ s.stuck = hub[h].stuck
    <3> DEFINE x == hub[h]
    <3>1. x \in HubStates
      BY <1>1
    <3> HIDE DEF E, K, x
    <3>2. LET s == [x EXCEPT !.enabled = E, !.known = K]
          IN  /\ s \in HubStates /\ s.enabled = E /\ s.known = K
              /\ SameLife(s, x) /\ s.orig = x.orig /\ s.stuck = x.stuck
      BY <1>1, <3>1 DEF HubStates, SameLife
    <3> QED
      BY <3>2 DEF x
  <2> QED
    BY <2>1
<1>3. CASE f \in hub[h].enabled /\ Answer(t, "dup") /\ UNCHANGED hub
  BY <1>3 DEF Answer, Answers, TypeOK, Results, Becomes, SameLife
<1>4. CASE /\ f \notin hub[h].enabled /\ Answer(t, "ok")
           /\ hub' = [hub EXCEPT ![h].enabled = @ \union {f}, ![h].known = @ \union {f}]
  <2>1. hub' = [hub EXCEPT ![h] = r] /\ Answers(t, "ok")
    BY <1>4, AnswerAnswers DEF Results
  <2>2. Becomes(h, r)
    BY <1>2, <2>1, UpdateHub
  <2> HIDE DEF r
  <2> QED
    BY <1>2, <1>4, <2>1, <2>2 DEF Answers, Becomes
<1>5. CASE Answer(t, "error") /\ UNCHANGED hub
  BY <1>5 DEF Answer, Answers, TypeOK, Results, Becomes, SameLife
<1> QED
  BY <1>3, <1>4, <1>5 DEF AddProxy

\* A proxy is added to the hub in the tree while nobody holds the write lock.
LEMMA JoinStep ==
    ASSUME IInv, NEW t \in Hookers, NEW where \in {"read len", "destroy"}, Moves(t, where),
           SelfOf(t), writer = Nobody, tree # None,
           AddProxy(t, tree, request[t].func), request[t].func \in Funcs,
           where = "destroy" => pc[t] = "insert" /\ self'[t] = self[t],
           where = "read len" => pc[t] = "hook",
           UNCHANGED <<clock, tree, code, writer, delayed, request, caller, ops>>
    PROVE  IInv'
<1> USE DEF IInv, Moves, SelfOf
<1>0. tree \in Hubs /\ tree \notin delayed /\ delayed \subseteq Hubs
  BY DEF InTree, TypeOK
<1>1. /\ Answers(t, result'[t]) /\ Becomes(tree, hub'[tree]) /\ result'[t] # Unknown
      /\ SameLife(hub'[tree], hub[tree])
      /\ hub'[tree].orig = hub[tree].orig /\ hub'[tree].stuck = hub[tree].stuck
      /\ hub[tree].enabled \subseteq hub'[tree].enabled
  BY ZenonT(40), <1>0, AddProxyEffect
<1>2. hub[tree].enabled \subseteq hub[tree].known => hub'[tree].enabled \subseteq hub'[tree].known
  <2>1. \/ hub'[tree] = hub[tree]
        \/ /\ hub'[tree].enabled = hub[tree].enabled \union {request[t].func}
           /\ hub'[tree].known = hub[tree].known \union {request[t].func}
    BY ZenonT(40), <1>0, AddProxyEffect
  <2> QED
    BY <2>1
<1>3. TypeOK'
  BY <1>1 DEF TypeOK, Answers, Becomes
<1>4. Locked'
  BY DEF Locked, Holding
<1>5. Owns'
  <2>1. \A u \in Hookers : Undisturbed(u)
    BY <1>0, <1>1 DEF Owns, Owned, Undisturbed, Becomes
  <2>2. CASE where = "destroy"
    <3>1. pc[t] = "insert" /\ pc[t] \in Detached /\ pc'[t] = "destroy"
      BY <2>2 DEF Detached
    <3>2. self[t] \in Hubs \ delayed /\ self[t] # tree /\ hub[self[t]].mem = "live"
      BY <3>1 DEF Owns, Owned
    <3>3. hub'[self[t]] = hub[self[t]] /\ self'[t] = self[t]
      BY <2>1, <2>2, <3>1 DEF Undisturbed
    <3>4. Owned(t)'
      BY <3>1, <3>2, <3>3 DEF Owned
    <3> QED
      BY <2>1, <3>4, OthersOwn
  <2>3. CASE where = "read len"
    <3>1. Owned(t)'
      BY <2>3 DEF Owned, Detached
    <3> QED
      BY <2>1, <3>1, OthersOwn
  <2> QED
    BY <2>2, <2>3
<1>6. Apart'
  BY ZenonT(40) DEF Apart, Detached
<1>7. InTree' /\ Waiting'
  BY ZenonT(40), <1>0, <1>1 DEF InTree, Waiting, Becomes, SameLife
<1>8. Unused'
  BY ZenonT(40), <1>0, <1>1, <1>2 DEF InTree, Unused, Becomes, SameLife
<1>9. Kept'
  <2>1. \A u \in Hookers : pc[u] \in Detached => pc'[u] \in Detached /\ self'[u] = self[u]
    BY DEF Detached
  <2>2. \A h \in Hubs : hub'[h].mem = hub[h].mem
    BY <1>0, <1>1 DEF Becomes, SameLife
  <2>3. ASSUME NEW h \in Hubs, hub'[h].mem = "live"
        PROVE  h = tree' \/ h \in delayed' \/ \E u \in Hookers : pc'[u] \in Detached /\ self'[u] = h
    <3>1. hub[h].mem = "live"
      BY <2>2, <2>3
    <3>2. h = tree \/ h \in delayed \/ \E u \in Hookers : pc[u] \in Detached /\ self[u] = h
      BY <3>1 DEF Kept
    <3> QED
      BY <2>1, <3>2
  <2> QED
    BY <2>3 DEF Kept
<1>10. Head'
  BY <1>0, <1>1 DEF Head, NotStuck, Becomes
<1>11. Served'
  BY ZenonT(40), <1>1 DEF Served, Answers
<1> QED
  BY <1>3, <1>4, <1>5, <1>6, <1>7, <1>8, <1>9, <1>10, <1>11

\* The switch leaves the tree, with the function restored or never patched, or
\* with a jump that could not be taken back.
LEMMA ReleaseStep ==
    ASSUME IInv, NEW t \in Hookers, NEW where \in {"destroy", "destroy later"}, Moves(t, where),
           pc[t] \in Holding, tree' = None, writer' = Nobody,
           UNCHANGED <<clock, delayed, request, self, caller, ops>>,
           NEW s \in HubStates, Becomes(tree, s), SameLife(s, hub[tree]), SameProxies(s, hub[tree]),
           hub[tree].stuck => s.stuck,
           code' \in Hubs \union {None}, NotStuck /\ ~s.stuck => code' = None,
           Answers(t, result'[t]), result'[t] # Unknown
    PROVE  IInv'
<1> USE DEF IInv, Moves
<1>0. /\ tree \in Hubs /\ tree \notin delayed /\ delayed \subseteq Hubs
      /\ self[t] = tree /\ writer = t /\ hub[tree].mem = "live"
      /\ \A u \in Hookers : u # t => pc[u] \notin Holding
  BY DEF InTree, TypeOK, Locked
<1>1. TypeOK'
  BY DEF TypeOK, Answers, Becomes
<1>2. Locked'
  BY <1>0 DEF Locked, Holding
<1>3. Owns'
  <2>1. \A u \in Hookers : Undisturbed(u)
    BY <1>0 DEF Owns, Owned, Undisturbed, Becomes
  <2>2. Owned(t)'
    BY <1>0 DEF Owned, Becomes, SameLife
  <2> QED
    BY <2>1, <2>2, OthersOwn
<1>4. Apart'
  BY ZenonT(40), <1>0 DEF Apart, Owns, Owned, Detached
<1>10. \A h \in Hubs : SameLife(hub'[h], hub[h]) /\ SameProxies(hub'[h], hub[h])
  BY <1>0 DEF Becomes, SameLife, SameProxies
<1>5. InTree' /\ Waiting'
  <2>1. InTree'
    BY DEF InTree
  <2>2. Waiting'
    <3>1. ASSUME NEW h \in delayed' PROVE hub'[h].mem = "live" /\ hub'[h].switch = "freed"
      BY ZenonT(40), <1>0, <1>10 DEF Waiting, SameLife
    <3> QED
      BY <3>1 DEF Waiting
  <2> QED
    BY <2>1, <2>2
<1>6. Unused'
  <2>1. ASSUME NEW h \in Hubs
        PROVE  /\ hub'[h].enabled \subseteq hub'[h].known
               /\ hub'[h].mem = "unused" => hub'[h].enabled = {} /\ hub'[h].trampoFreed = Never
    BY <1>10 DEF Unused, SameLife, SameProxies
  <2> QED
    BY <2>1 DEF Unused
<1>7. Kept'
  <2>1. \A u \in Hookers : pc[u] \in Detached => pc'[u] \in Detached /\ self'[u] = self[u]
    BY DEF Detached
  <2>2. pc'[t] \in Detached /\ self'[t] = tree
    BY <1>0 DEF Detached
  <2>3. ASSUME NEW h \in Hubs, hub'[h].mem = "live"
        PROVE  h \in delayed' \/ \E u \in Hookers : pc'[u] \in Detached /\ self'[u] = h
    <3>1. hub[h].mem = "live"
      BY <1>10, <2>3 DEF SameLife
    <3>2. h = tree \/ h \in delayed \/ \E u \in Hookers : pc[u] \in Detached /\ self[u] = h
      BY <3>1 DEF Kept
    <3> QED
      BY <2>1, <2>2, <3>2
  <2> QED
    BY <2>3 DEF Kept
<1>8. Head'
  <2>1. NotStuck' => NotStuck /\ ~s.stuck
    BY <1>0 DEF NotStuck, Becomes
  <2> QED
    BY <1>0, <2>1 DEF Head, Holding
<1>9. Served'
  BY ZenonT(40) DEF Served, Answers
<1> QED
  BY <1>1, <1>2, <1>3, <1>4, <1>5, <1>6, <1>7, <1>8, <1>9
-----------------------------------------------------------------------------
(* The actions of the hookers *)

LEMMA HookFindIInv ==
    ASSUME IInv, NEW t \in Hookers, HookFind(t) PROVE IInv'
<1>1. CASE tree = None
  <2>1. /\ pc[t] = "hook" /\ Goto(t, "create")
        /\ UNCHANGED <<hub, result, self, clock, tree, code, writer, delayed, request, caller, ops>>
    BY <1>1 DEF HookFind
  <2>2. Moves(t, "create") /\ "create" \in Points \ (Holding \union Detached)
    BY <2>1, GotoMoves DEF IInv, Points, Holding, Detached
  <2>3. TypeOK' /\ SelfOf(t)
    BY <2>1, <2>2 DEF IInv, TypeOK, Moves, SelfOf
  <2>4. Served'
    BY <2>1, <2>2 DEF IInv, Served, Moves
  <2> QED
    BY <2>1, <2>2, <2>3, <2>4, QuietStep DEF Holding, Detached
<1>2. CASE tree # None
  <2>1. /\ pc[t] = "hook" /\ writer = Nobody /\ Goto(t, "read len") /\ SetSelf(t, tree)
        /\ AddProxy(t, tree, request[t].func) /\ request[t].func \in Funcs
        /\ UNCHANGED <<clock, tree, code, writer, delayed, request, caller, ops>>
    BY <1>2 DEF HookFind, IInv, Served
  <2>2. Moves(t, "read len")
    BY <2>1, GotoMoves DEF IInv, Points
  <2>3. SelfOf(t)
    BY <2>1 DEF SetSelf, SelfOf, IInv, TypeOK
  <2> QED
    BY <1>2, <2>1, <2>2, <2>3, JoinStep
<1> QED
  BY <1>1, <1>2

LEMMA HookReadLenIInv ==
    ASSUME IInv, NEW t \in Hookers, HookReadLen(t) PROVE IInv'
<1>1. /\ pc[t] = "read len" /\ Goto(t, "return") /\ SetSelf(t, None)
      /\ UNCHANGED <<clock, tree, code, writer, hub, delayed, request, result, caller, ops>>
  BY DEF HookReadLen
<1>2. Moves(t, "return") /\ "return" \in Points \ (Holding \union Detached)
  BY <1>1, GotoMoves DEF IInv, Points, Holding, Detached
<1>3. TypeOK' /\ SelfOf(t)
  BY <1>1, <1>2 DEF IInv, TypeOK, Moves, SelfOf, SetSelf
<1>4. Served'
  BY <1>1, <1>2 DEF IInv, Served, Moves
<1> QED
  BY <1>1, <1>2, <1>3, <1>4, QuietStep DEF Holding, Detached

LEMMA UnhookMissingIInv ==
    ASSUME IInv, NEW t \in Hookers, UnhookMissing(t) PROVE IInv'
<1>1. /\ pc[t] = "unhook" /\ Goto(t, "return") /\ Answer(t, "not found")
      /\ UNCHANGED <<clock, tree, code, writer, hub, delayed, request, self, caller, ops>>
  BY DEF UnhookMissing
<1>2. Moves(t, "return") /\ "return" \in Points \ (Holding \union Detached)
  BY <1>1, GotoMoves DEF IInv, Points, Holding, Detached
<1>3. Answers(t, "not found")
  BY <1>1, AnswerAnswers DEF IInv, Results
<1>4. TypeOK' /\ SelfOf(t)
  BY <1>1, <1>2, <1>3 DEF IInv, TypeOK, Moves, SelfOf, Answers
<1>5. Served'
  BY <1>1, <1>2, <1>3 DEF IInv, Served, Moves, Answers
<1> QED
  BY <1>1, <1>2, <1>4, <1>5, QuietStep DEF Holding, Detached

LEMMA ReturnIInv ==
    ASSUME IInv, NEW t \in Hookers, Return(t) PROVE IInv'
<1>1. /\ pc[t] = "return" /\ Goto(t, "idle") /\ Answer(t, Unknown)
      /\ request' = [request EXCEPT ![t] = Idle]
      /\ UNCHANGED <<clock, tree, code, writer, hub, delayed, self, caller, ops>>
  BY DEF Return
<1>2. Moves(t, "idle") /\ "idle" \in Points \ (Holding \union Detached)
  BY <1>1, GotoMoves DEF IInv, Points, Holding, Detached
<1>3. Answers(t, Unknown)
  BY <1>1, AnswerAnswers DEF IInv, Results
<1>4. request' \in [Hookers -> Requests] /\ request'[t] = Idle /\ \A u \in Hookers : u # t => request'[u] = request[u]
  <2>1. Idle \in Requests
    BY DEF Idle, Requests
  <2> QED
    BY <1>1, <2>1 DEF IInv, TypeOK
<1>5. TypeOK' /\ SelfOf(t)
  BY <1>1, <1>2, <1>3, <1>4 DEF IInv, TypeOK, Moves, SelfOf, Answers
<1>6. Served'
  BY ZenonT(40), <1>2, <1>3, <1>4 DEF IInv, Served, Moves, Answers
<1> QED
  BY <1>1, <1>2, <1>5, <1>6, QuietStep DEF Holding, Detached

LEMMA BeginIInv ==
    ASSUME IInv, NEW t \in Hookers, NEW op \in {"hook", "unhook"}, NEW f \in Funcs, Begin(t, op, f)
    PROVE  IInv'
<1>1. /\ pc[t] = "idle" /\ Goto(t, op) /\ ops' \in 0..MaxOps
      /\ request' = [request EXCEPT ![t] = [op |-> op, func |-> f]]
      /\ UNCHANGED <<clock, tree, code, writer, hub, delayed, result, self, caller>>
  BY DEF Begin, IInv, TypeOK
<1>2. Moves(t, op) /\ op \in Points \ (Holding \union Detached)
  BY <1>1, GotoMoves DEF IInv, Points, Holding, Detached
<1>3. /\ request' \in [Hookers -> Requests] /\ request'[t].op = op /\ request'[t].func = f
      /\ \A u \in Hookers : u # t => request'[u] = request[u]
  <2>1. [op |-> op, func |-> f] \in Requests
    BY DEF Requests
  <2> QED
    BY <1>1, <2>1 DEF IInv, TypeOK
<1>4. TypeOK' /\ SelfOf(t)
  BY <1>1, <1>2, <1>3 DEF IInv, TypeOK, Moves, SelfOf
<1>5. Served'
  BY ZenonT(40), <1>1, <1>2, <1>3 DEF IInv, Served, Moves
<1> QED
  BY <1>1, <1>2, <1>4, <1>5, QuietStep DEF Holding, Detached

LEMMA InstFailsIInv ==
    ASSUME IInv, NEW t \in Hookers, pc[t] \in {"rewrite", "patch"}, InstFails(t),
           UNCHANGED <<clock, code, delayed, request, self, caller, ops>>
    PROVE  IInv'
<1> DEFINE r == [hub[tree] EXCEPT !.orig = FALSE, !.enterFreed = clock]
<1>1. /\ hub' = [hub EXCEPT ![self[t]].orig = FALSE, ![self[t]].enterFreed = clock]
      /\ tree' = None /\ writer' = Nobody /\ Answer(t, "error") /\ Goto(t, "destroy")
  BY DEF InstFails
<1>2. /\ pc[t] \in Holding /\ self[t] = tree /\ tree \in Hubs /\ hub[tree] \in HubStates
      /\ clock \in Nat /\ code \in Hubs \union {None} /\ (NotStuck => code = None)
  <2>1. pc[t] \in Holding
    BY DEF Holding
  <2>2. self[t] = tree /\ tree # None
    BY <2>1 DEF IInv, Locked
  <2>3. tree \in Hubs /\ hub[tree] \in HubStates /\ clock \in Nat /\ code \in Hubs \union {None}
    BY <2>2 DEF IInv, TypeOK
  <2>4. NotStuck => code = None
    BY DEF IInv, Head
  <2> QED
    BY <2>1, <2>2, <2>3, <2>4
<1>3. Moves(t, "destroy") /\ Answers(t, "error")
  BY <1>1, GotoMoves, AnswerAnswers DEF IInv, Points, Results
<1>4. /\ r \in HubStates /\ r.stuck = hub[tree].stuck
      /\ SameLife(r, hub[tree]) /\ SameProxies(r, hub[tree])
  BY <1>2, FailedFields
<1>5. Becomes(tree, r)
  <2>1. hub' = [hub EXCEPT ![tree] = r]
    BY <1>1, <1>2
  <2> QED
    BY <1>2, <1>4, <2>1, UpdateHub DEF IInv
<1> HIDE DEF r
<1> QED
  BY <1>1, <1>2, <1>3, <1>4, <1>5, ReleaseStep DEF Answers

LEMMA HookRewriteIInv ==
    ASSUME IInv, NEW t \in Hookers, HookRewrite(t) PROVE IInv'
<1>1. CASE /\ hub' = [hub EXCEPT ![self[t]].orig = TRUE]
           /\ Goto(t, "patch") /\ UNCHANGED <<tree, writer, result>>
  <2> DEFINE r == [hub[tree] EXCEPT !.orig = TRUE]
  <2>0. /\ pc[t] = "rewrite" /\ self[t] = tree /\ tree \in Hubs /\ hub[tree] \in HubStates
        /\ writer = t /\ hub[tree].enabled = {}
        /\ UNCHANGED <<clock, tree, code, writer, delayed, request, result, self, caller, ops>>
    BY <1>1 DEF HookRewrite, IInv, TypeOK, Locked, Holding
  <2>1. Moves(t, "patch")
    BY <1>1, GotoMoves DEF IInv, Points
  <2>2. /\ r \in HubStates /\ r.orig /\ r.stuck = hub[tree].stuck
        /\ SameLife(r, hub[tree]) /\ SameProxies(r, hub[tree])
    BY <2>0, OrigField
  <2>3. Becomes(tree, r)
    BY <1>1, <2>0, <2>2, UpdateHub DEF IInv
  <2> HIDE DEF r
  <2>4. /\ hub' \in [Hubs -> HubStates] /\ hub'[tree].orig
        /\ \A h \in Hubs : /\ SameLife(hub'[h], hub[h]) /\ SameProxies(hub'[h], hub[h])
                           /\ hub'[h].stuck = hub[h].stuck
    BY <2>2, <2>3 DEF Becomes, SameLife, SameProxies
  <2>5. TypeOK'
    BY <2>0, <2>1, <2>4 DEF IInv, TypeOK, Moves
  <2>6. Locked'
    BY <2>0, <2>1, <2>4 DEF IInv, Locked, Moves, Holding, SameProxies
  <2>7. Owns'
    <3>1. Owned(t)'
      BY <2>1 DEF Owned, Moves, Detached
    <3>2. \A u \in Hookers : Undisturbed(u)
      BY <2>0, <2>3 DEF IInv, Owns, Owned, Undisturbed, Becomes
    <3> QED
      BY <2>0, <2>1, <3>1, <3>2, OthersOwn DEF IInv, Moves
  <2>8. Apart'
    BY <2>0, <2>1 DEF IInv, Apart, Moves, Detached
  <2>9. InTree' /\ Waiting'
    BY <2>0, <2>4 DEF IInv, TypeOK, InTree, Waiting, SameLife
  <2>10. Unused'
    BY ZenonT(40), <2>4 DEF IInv, Unused, SameLife, SameProxies
  <2>11. Kept'
    BY ZenonT(40), <2>0, <2>1, <2>4 DEF IInv, Kept, Moves, Detached, SameLife
  <2>12. Head'
    BY <2>0, <2>1, <2>4 DEF IInv, Head, NotStuck, Locked, Holding, Moves
  <2>13. Served'
    BY <2>0, <2>1 DEF IInv, Served, Moves
  <2> QED
    BY <2>5, <2>6, <2>7, <2>8, <2>9, <2>10, <2>11, <2>12, <2>13 DEF IInv
<1>2. CASE InstFails(t)
  BY <1>2, InstFailsIInv DEF HookRewrite
<1> QED
  BY <1>1, <1>2 DEF HookRewrite

LEMMA HookPatchIInv ==
    ASSUME IInv, NEW t \in Hookers, HookPatch(t) PROVE IInv'
<1>1. CASE code' = self[t] /\ Goto(t, "add") /\ UNCHANGED <<tree, writer, hub, result>>
  <2>0. /\ pc[t] = "patch" /\ self[t] = tree /\ tree \in Hubs /\ writer = t /\ code' = tree
        /\ (NotStuck => hub[tree].orig)
        /\ UNCHANGED <<clock, tree, writer, hub, delayed, request, result, self, caller, ops>>
    BY <1>1 DEF HookPatch, IInv, TypeOK, Locked, Head, Holding
  <2>1. Moves(t, "add")
    BY <1>1, GotoMoves DEF IInv, Points
  <2>2. TypeOK'
    BY <2>0, <2>1 DEF IInv, TypeOK, Moves
  <2>3. Locked'
    BY <2>0, <2>1 DEF IInv, Locked, Moves, Holding
  <2>4. Owns' /\ Apart'
    BY ZenonT(40), <2>0, <2>1 DEF IInv, Owns, Owned, Apart, Moves, Detached
  <2>5. InTree' /\ Unused' /\ Waiting'
    BY <2>0 DEF IInv, InTree, Unused, Waiting
  <2>6. Kept'
    BY <2>0, <2>1 DEF IInv, Kept, Moves, Detached
  <2>7. Head'
    BY <2>0, <2>1 DEF IInv, Head, NotStuck, Locked, Holding, Moves
  <2>8. Served'
    BY ZenonT(40), <2>0, <2>1 DEF IInv, Served, Moves
  <2> QED
    BY <2>2, <2>3, <2>4, <2>5, <2>6, <2>7, <2>8 DEF IInv
<1>2. CASE InstFails(t) /\ UNCHANGED code
  BY <1>2, InstFailsIInv DEF HookPatch
<1> QED
  BY <1>1, <1>2 DEF HookPatch

\* The function is restored, or its jump is stuck.
LEMMA UnpatchEffect ==
    ASSUME IInv, NEW h \in Hubs, Restored(h) \/ Mismatch(h)
    PROVE  /\ Becomes(h, hub'[h]) /\ hub'[h] \in HubStates
           /\ SameLife(hub'[h], hub[h]) /\ SameProxies(hub'[h], hub[h])
           /\ hub[h].stuck => hub'[h].stuck
           /\ code' \in Hubs \union {None} /\ (~hub'[h].stuck => code' = None)
<1>1. CASE Restored(h)
  <2> DEFINE r == [hub[h] EXCEPT !.enterFreed = clock]
  <2>1. hub[h] \in HubStates /\ clock \in Nat
    BY DEF IInv, TypeOK
  <2>2. r \in HubStates /\ r.stuck = hub[h].stuck /\ SameLife(r, hub[h]) /\ SameProxies(r, hub[h])
    BY <2>1, EnterField
  <2>3. hub' = [hub EXCEPT ![h] = r] /\ code' = None
    BY <1>1 DEF Restored
  <2>4. Becomes(h, r)
    BY <2>2, <2>3, UpdateHub DEF IInv
  <2> HIDE DEF r
  <2> QED
    BY <2>2, <2>3, <2>4 DEF Becomes
<1>2. CASE Mismatch(h)
  <2> DEFINE r == [hub[h] EXCEPT !.stuck = TRUE]
  <2>1. hub[h] \in HubStates /\ code \in Hubs \union {None}
    BY DEF IInv, TypeOK
  <2>2. r \in HubStates /\ r.stuck /\ SameLife(r, hub[h]) /\ SameProxies(r, hub[h])
    BY <2>1, StuckField
  <2>3. hub' = [hub EXCEPT ![h] = r] /\ code' = code
    BY <1>2 DEF Mismatch
  <2>4. Becomes(h, r)
    BY <2>2, <2>3, UpdateHub DEF IInv
  <2> HIDE DEF r
  <2> QED
    BY <2>1, <2>2, <2>3, <2>4 DEF Becomes
<1> QED
  BY <1>1, <1>2

LEMMA HookAddIInv ==
    ASSUME IInv, NEW t \in Hookers, HookAdd(t) PROVE IInv'
<1>0. /\ pc[t] = "add" /\ pc[t] \in Holding /\ self[t] = tree /\ tree \in Hubs /\ writer = t
      /\ hub[tree] \in HubStates /\ request[t].func \in Funcs /\ (NotStuck => code = tree)
      /\ \A u \in Hookers : u # t => pc[u] \notin Holding
  BY DEF HookAdd, IInv, TypeOK, Locked, Served, Head, Holding
<1>1. CASE /\ hub' = [hub EXCEPT ![self[t]].enabled = {request[t].func},
                                 ![self[t]].known = {request[t].func}]
           /\ Answer(t, "ok") /\ SetSelf(t, None) /\ Goto(t, "return")
           /\ UNCHANGED <<tree, code>>
  <2> DEFINE F == {request[t].func}
  <2> DEFINE r == [hub[tree] EXCEPT !.enabled = F, !.known = F]
  <2>1. /\ Moves(t, "return") /\ Answers(t, "ok") /\ SelfOf(t) /\ writer' = Nobody
        /\ UNCHANGED <<clock, tree, code, delayed, request, caller, ops>>
    BY <1>1, GotoMoves, AnswerAnswers DEF HookAdd, IInv, TypeOK, Points, Results, SelfOf, SetSelf
  <2>2. F \in SUBSET Funcs /\ F # {}
    BY <1>0
  <2>3. /\ r \in HubStates /\ r.enabled = F /\ r.known = F
        /\ SameLife(r, hub[tree]) /\ r.orig = hub[tree].orig /\ r.stuck = hub[tree].stuck
    <3> HIDE DEF F
    <3> QED
      BY <1>0, <2>2 DEF HubStates, SameLife
  <2>4. Becomes(tree, r)
    <3>1. hub' = [hub EXCEPT ![tree] = r]
      BY <1>0, <1>1
    <3> QED
      BY <1>0, <2>3, <3>1, UpdateHub DEF IInv
  <2> HIDE DEF r, F
  <2>5. /\ hub' \in [Hubs -> HubStates] /\ hub'[tree].enabled # {}
        /\ hub'[tree].enabled \subseteq hub'[tree].known
        /\ \A h \in Hubs : /\ SameLife(hub'[h], hub[h]) /\ hub'[h].orig = hub[h].orig
                           /\ hub'[h].stuck = hub[h].stuck
        /\ \A h \in Hubs \ {tree} : hub'[h] = hub[h]
    BY <1>0, <2>2, <2>3, <2>4 DEF Becomes, SameLife
  <2>6. TypeOK'
    BY <2>1, <2>5 DEF IInv, TypeOK, Moves, Answers, SelfOf
  <2>7. Locked'
    BY <1>0, <2>1 DEF Locked, Moves, Holding
  <2>8. Owns'
    <3>1. Owned(t)'
      BY <2>1 DEF Owned, Moves, Detached
    <3>2. \A u \in Hookers : Undisturbed(u)
      BY <2>1, <2>5 DEF IInv, Owns, Owned, Undisturbed
    <3> QED
      BY <2>1, <3>1, <3>2, OthersOwn DEF IInv, Moves, SelfOf
  <2>9. Apart'
    BY ZenonT(40), <2>1 DEF IInv, Apart, Moves, SelfOf, Detached
  <2>10. InTree' /\ Waiting'
    BY <2>1, <2>5 DEF IInv, TypeOK, InTree, Waiting, SameLife
  <2>11. Unused'
    <3>1. hub[tree].mem = "live"
      BY <1>0 DEF IInv, InTree
    <3> QED
      BY ZenonT(40), <3>1, <2>5 DEF IInv, Unused, SameLife
  <2>12. Kept'
    <3>1. \A u \in Hookers : pc[u] \in Detached => pc'[u] \in Detached /\ self'[u] = self[u]
      BY <1>0, <2>1 DEF Moves, SelfOf, Detached
    <3> QED
      BY ZenonT(40), <2>1, <2>5, <3>1 DEF IInv, Kept, SameLife
  <2>13. Head'
    BY <1>0, <2>1, <2>5 DEF IInv, Head, NotStuck, Holding, Moves
  <2>14. Served'
    BY ZenonT(40), <2>1 DEF IInv, Served, Moves, Answers
  <2> QED
    BY <2>6, <2>7, <2>8, <2>9, <2>10, <2>11, <2>12, <2>13, <2>14 DEF IInv
<1>2. CASE /\ Restored(self[t]) \/ Mismatch(self[t])
           /\ tree' = None /\ Answer(t, "error") /\ Goto(t, "destroy") /\ UNCHANGED self
  <2>1. /\ Becomes(tree, hub'[tree]) /\ hub'[tree] \in HubStates
        /\ SameLife(hub'[tree], hub[tree]) /\ SameProxies(hub'[tree], hub[tree])
        /\ hub[tree].stuck => hub'[tree].stuck
        /\ code' \in Hubs \union {None} /\ (~hub'[tree].stuck => code' = None)
    BY <1>0, <1>2, UnpatchEffect
  <2>2. Moves(t, "destroy") /\ Answers(t, "error")
    BY <1>2, GotoMoves, AnswerAnswers DEF IInv, Points, Results
  <2>3. writer' = Nobody /\ UNCHANGED <<clock, delayed, request, self, caller, ops>>
    BY <1>2 DEF HookAdd
  <2> QED
    BY <1>0, <1>2, <2>1, <2>2, <2>3, ReleaseStep DEF Answers
<1> QED
  BY <1>1, <1>2 DEF HookAdd

LEMMA UnhookRestoreIInv ==
    ASSUME IInv, NEW t \in Hookers, UnhookRestore(t) PROVE IInv'
<1>0. /\ pc[t] = "restore" /\ pc[t] \in Holding /\ self[t] = tree /\ tree \in Hubs
      /\ result[t] = "ok" /\ Goto(t, "destroy later") /\ tree' = None /\ writer' = Nobody
      /\ UNCHANGED <<clock, delayed, request, self, caller, ops>>
  BY DEF UnhookRestore, IInv, TypeOK, Locked, Served, Holding
<1>1. Restored(tree) \/ Mismatch(tree)
  BY <1>0 DEF UnhookRestore
<1>2. /\ Becomes(tree, hub'[tree]) /\ hub'[tree] \in HubStates
      /\ SameLife(hub'[tree], hub[tree]) /\ SameProxies(hub'[tree], hub[tree])
      /\ hub[tree].stuck => hub'[tree].stuck
      /\ code' \in Hubs \union {None} /\ (~hub'[tree].stuck => code' = None)
  BY <1>0, <1>1, UnpatchEffect
<1>3. Moves(t, "destroy later")
  BY <1>0, GotoMoves DEF IInv, Points
<1>4. Answers(t, result'[t]) /\ result'[t] # Unknown
  <2>1. CASE UNCHANGED result
    BY <2>1, <1>0 DEF IInv, TypeOK, Answers
  <2>2. CASE Answer(t, "error")
    BY <2>2, AnswerAnswers DEF IInv, Results, Answers
  <2> QED
    BY <2>1, <2>2 DEF UnhookRestore
<1> QED
  BY <1>0, <1>2, <1>3, <1>4, ReleaseStep

LEMMA HookCreateIInv ==
    ASSUME IInv, NEW t \in Hookers, HookCreate(t) PROVE IInv'
<1>0. /\ pc[t] = "create" /\ pc[t] \notin Holding \union Detached
      /\ UNCHANGED <<clock, tree, code, writer, delayed, request, caller, ops>>
  BY DEF HookCreate, Holding, Detached
<1>1. ASSUME NEW h \in Hubs, hub[h].mem = "unused",
             hub' = [hub EXCEPT ![h].mem = "live", ![h].switch = "live"],
             SetSelf(t, h), Goto(t, "insert"), UNCHANGED result
      PROVE  IInv'
  <2> DEFINE r == [hub[h] EXCEPT !.mem = "live", !.switch = "live"]
  <2>0. /\ hub[h] \in HubStates /\ h # tree /\ h \notin delayed
        /\ hub[h].enabled = {} /\ hub[h].trampoFreed = Never
        /\ \A u \in Hookers : pc[u] \in Detached => self[u] # h
    BY <1>1 DEF IInv, TypeOK, InTree, Waiting, Unused, Owns, Owned
  <2>1. Moves(t, "insert")
    BY <1>1, GotoMoves DEF IInv, Points
  <2>2. SelfOf(t) /\ self'[t] = h
    BY <1>1 DEF IInv, TypeOK, SelfOf, SetSelf
  <2>3. /\ r \in HubStates /\ r.mem = "live" /\ r.switch = "live"
        /\ r.trampoFreed = hub[h].trampoFreed /\ r.stuck = hub[h].stuck
        /\ r.orig = hub[h].orig /\ SameProxies(r, hub[h])
    BY <2>0, LiveFields
  <2>4. Becomes(h, r)
    <3>1. hub' = [hub EXCEPT ![h] = r]
      BY <1>1
    <3> QED
      BY <2>3, <3>1, UpdateHub DEF IInv
  <2> HIDE DEF r
  <2>5. /\ hub' \in [Hubs -> HubStates] /\ hub'[h].mem = "live" /\ hub'[h].switch = "live"
        /\ hub'[h].trampoFreed = Never /\ hub'[h].enabled = {}
        /\ \A g \in Hubs \ {h} : hub'[g] = hub[g]
        /\ \A g \in Hubs : hub'[g].stuck = hub[g].stuck
    BY <2>0, <2>3, <2>4 DEF Becomes, SameProxies
  <2>6. TypeOK'
    BY <1>0, <1>1, <2>1, <2>2, <2>5 DEF IInv, TypeOK, Moves, SelfOf
  <2>7. Locked'
    <3>1. tree # None => hub'[tree] = hub[tree]
      BY <2>0, <2>5 DEF IInv, TypeOK
    <3> QED
      BY <1>0, <2>1, <2>2, <3>1 DEF IInv, Locked, Moves, SelfOf, Holding
  <2>8. Owns'
    <3>1. Owned(t)'
      BY <1>0, <2>0, <2>1, <2>2, <2>5 DEF Owned, Moves
    <3>2. \A u \in Hookers : Undisturbed(u)
      BY <1>0, <2>0, <2>5 DEF IInv, Owns, Owned, Undisturbed
    <3> QED
      BY <2>1, <2>2, <3>1, <3>2, OthersOwn DEF IInv, Moves, SelfOf
  <2>9. Apart'
    BY <2>0, <2>1, <2>2 DEF IInv, Apart, Moves, SelfOf
  <2>10. InTree' /\ Waiting'
    <3>1. delayed \subseteq Hubs \ {h} /\ (tree # None => tree \in Hubs \ {h})
      BY <2>0 DEF IInv, TypeOK
    <3> QED
      BY <1>0, <2>5, <3>1 DEF IInv, InTree, Waiting
  <2>11. Unused'
    BY <2>5 DEF IInv, Unused
  <2>12. Kept'
    <3>1. \A u \in Hookers : pc[u] \in Detached => pc'[u] \in Detached /\ self'[u] = self[u]
      BY <1>0, <2>1, <2>2 DEF Moves, SelfOf, Detached
    <3>2. pc'[t] \in Detached /\ self'[t] = h
      BY <2>1, <2>2 DEF Moves, Detached
    <3>3. ASSUME NEW g \in Hubs \ {h}, hub'[g].mem = "live"
          PROVE  g = tree' \/ g \in delayed' \/ \E u \in Hookers : pc'[u] \in Detached /\ self'[u] = g
      <4>1. g = tree \/ g \in delayed \/ \E u \in Hookers : pc[u] \in Detached /\ self[u] = g
        BY <2>5, <3>3 DEF IInv, Kept
      <4> QED
        BY <1>0, <3>1, <4>1
    <3> QED
      BY <3>2, <3>3 DEF Kept
  <2>13. Head'
    <3>1. tree # None => hub'[tree] = hub[tree]
      BY <2>0, <2>5 DEF IInv, TypeOK
    <3>2. NotStuck' => NotStuck
      BY <2>5 DEF NotStuck
    <3>3. /\ tree' = tree /\ code' = code /\ writer' = writer
          /\ \A u \in Hookers : pc'[u] = pc[u] \/ pc'[u] = "insert"
      BY <1>0, <2>1 DEF Moves
    <3>4. NotStuck' =>
            /\ code' # None => code' = tree' /\ hub'[tree'].orig
            /\ writer' = Nobody => code' = tree' /\ (tree' # None => hub'[tree'].enabled # {})
      BY <3>1, <3>2, <3>3 DEF IInv, Head
    <3>5. NotStuck' => \A u \in Hookers :
            /\ pc'[u] \in {"rewrite", "patch"} => code' = None
            /\ pc'[u] = "patch" => hub'[tree'].orig
            /\ pc'[u] \in {"add", "restore"} => code' = tree'
      <4>1. \A u \in Hookers : pc[u] = "patch" => tree # None
        BY DEF IInv, Locked, Holding
      <4> QED
        BY <3>1, <3>2, <3>3, <4>1 DEF IInv, Head
    <3> QED
      BY <3>4, <3>5 DEF Head
  <2>14. Served'
    BY <1>0, <1>1, <2>1 DEF IInv, Served, Moves
  <2> QED
    BY <2>6, <2>7, <2>8, <2>9, <2>10, <2>11, <2>12, <2>13, <2>14 DEF IInv
<1>2. CASE Answer(t, "error") /\ Goto(t, "return") /\ UNCHANGED <<hub, self>>
  <2>1. /\ Moves(t, "return") /\ "return" \in Points \ (Holding \union Detached)
        /\ Answers(t, "error")
    BY <1>2, GotoMoves, AnswerAnswers DEF IInv, Points, Results, Holding, Detached
  <2>2. TypeOK' /\ SelfOf(t)
    BY <1>0, <1>2, <2>1 DEF IInv, TypeOK, Moves, SelfOf, Answers
  <2>3. Served'
    BY <1>0, <2>1 DEF IInv, Served, Moves, Answers
  <2> QED
    BY <1>0, <1>2, <2>1, <2>2, <2>3, QuietStep
<1>3. CASE Goto(t, "abort") /\ UNCHANGED <<hub, self, result>>
  <2>1. Moves(t, "abort") /\ "abort" \in Points \ (Holding \union Detached)
    BY <1>3, GotoMoves DEF IInv, Points, Holding, Detached
  <2>2. TypeOK' /\ SelfOf(t)
    BY <1>0, <1>3, <2>1 DEF IInv, TypeOK, Moves, SelfOf
  <2>3. Served'
    BY <1>0, <1>3, <2>1 DEF IInv, Served, Moves
  <2> QED
    BY <1>0, <1>3, <2>1, <2>2, <2>3, QuietStep
<1> QED
  BY <1>1, <1>2, <1>3 DEF HookCreate

LEMMA HookInsertIInv ==
    ASSUME IInv, NEW t \in Hookers, HookInsert(t) PROVE IInv'
<1>0. /\ pc[t] = "insert" /\ pc[t] \in Detached /\ pc[t] \notin Holding /\ writer = Nobody
      /\ request[t].func \in Funcs
      /\ UNCHANGED <<clock, code, delayed, request, self, caller, ops>>
      /\ \A u \in Hookers : pc[u] \notin Holding
  BY DEF HookInsert, IInv, Served, Locked, Holding, Detached
<1>1. CASE /\ tree # None /\ AddProxy(t, tree, request[t].func)
           /\ Goto(t, "destroy") /\ UNCHANGED <<tree, writer>>
  <2>1. Moves(t, "destroy") /\ SelfOf(t) /\ self'[t] = self[t]
    BY <1>0, <1>1, GotoMoves DEF IInv, Points, TypeOK, SelfOf
  <2> QED
    BY <1>0, <1>1, <2>1, JoinStep
<1>2. CASE /\ tree = None /\ tree' = self[t] /\ writer' = t
           /\ Goto(t, "rewrite") /\ UNCHANGED <<hub, result>>
  <2>1. Moves(t, "rewrite") /\ SelfOf(t) /\ self'[t] = self[t]
    BY <1>0, <1>2, GotoMoves DEF IInv, Points, TypeOK, SelfOf
  <2>2. /\ self[t] \in Hubs \ delayed /\ self[t] # None /\ hub[self[t]].mem = "live"
        /\ hub[self[t]].switch = "live" /\ hub[self[t]].trampoFreed = Never
        /\ hub[self[t]].enabled = {}
    BY <1>0 DEF IInv, Owns, Owned
  <2>3. \A u \in Hookers : u # t /\ pc[u] \in Detached => self[u] # self[t]
    BY <1>0 DEF IInv, Apart
  <2>4. TypeOK'
    BY <1>0, <1>2, <2>1, <2>2 DEF IInv, TypeOK, Moves
  <2>5. Locked'
    BY <1>0, <1>2, <2>1, <2>2 DEF Locked, Moves, Holding
  <2>6. Owns'
    BY <1>0, <1>2, <2>1, <2>3 DEF IInv, Owns, Owned, Moves, Detached
  <2>7. Apart'
    BY <1>0, <2>1 DEF IInv, Apart, Moves, Detached
  <2>8. InTree' /\ Waiting' /\ Unused'
    BY <1>0, <1>2, <2>2 DEF IInv, InTree, Waiting, Unused
  <2>9. Kept'
    BY <1>0, <1>2, <2>1 DEF IInv, Kept, Moves
  <2>10. Head'
    BY <1>0, <1>2, <2>1 DEF IInv, Head, NotStuck, Moves, Holding
  <2>11. Served'
    BY <1>0, <1>2, <2>1 DEF IInv, Served, Moves
  <2> QED
    BY <2>4, <2>5, <2>6, <2>7, <2>8, <2>9, <2>10, <2>11 DEF IInv
<1> QED
  BY <1>1, <1>2 DEF HookInsert

\* The enabled proxies of the hub in the tree shrink.
LEMMA DisableEffect ==
    ASSUME IInv, tree \in Hubs, NEW E \in SUBSET hub[tree].enabled,
           hub' = [hub EXCEPT ![tree].enabled = E]
    PROVE  /\ hub' \in [Hubs -> HubStates]
           /\ hub'[tree].enabled = E /\ hub'[tree].enabled \subseteq hub'[tree].known
           /\ \A h \in Hubs : /\ SameLife(hub'[h], hub[h]) /\ hub'[h].orig = hub[h].orig
                              /\ hub'[h].stuck = hub[h].stuck
           /\ \A h \in Hubs \ {tree} : hub'[h] = hub[h]
<1> DEFINE r == [hub[tree] EXCEPT !.enabled = E]
<1>1. hub[tree] \in HubStates /\ hub[tree].enabled \subseteq Funcs /\ hub[tree].enabled \subseteq hub[tree].known
  BY DEF IInv, TypeOK, HubStates, Unused
<1>2. E \in SUBSET Funcs
  BY <1>1
<1>3. /\ r \in HubStates /\ r.enabled = E /\ r.known = hub[tree].known
      /\ SameLife(r, hub[tree]) /\ r.orig = hub[tree].orig /\ r.stuck = hub[tree].stuck
  BY <1>1, <1>2, EnabledField
<1>4. Becomes(tree, r)
  BY <1>3, UpdateHub DEF IInv
<1> HIDE DEF r
<1> QED
  BY <1>1, <1>3, <1>4 DEF Becomes, SameLife

LEMMA UnhookProxyIInv ==
    ASSUME IInv, NEW t \in Hookers, UnhookProxy(t) PROVE IInv'
<1> DEFINE E == hub[tree].enabled \ {request[t].func}
<1>0. /\ pc[t] = "unhook" /\ pc[t] \notin Holding \union Detached /\ writer = Nobody
      /\ tree \in Hubs /\ tree # None /\ E # {} /\ Answer(t, "ok") /\ Goto(t, "return")
      /\ hub' = [hub EXCEPT ![tree].enabled = E]
      /\ UNCHANGED <<clock, tree, code, writer, delayed, request, self, caller, ops>>
      /\ \A u \in Hookers : pc[u] \notin Holding
  BY DEF UnhookProxy, UnhookFinds, IInv, TypeOK, Locked, Holding, Detached
<1>1. E \in SUBSET hub[tree].enabled
  OBVIOUS
<1> HIDE DEF E
<1>2. /\ hub' \in [Hubs -> HubStates]
      /\ hub'[tree].enabled = E /\ hub'[tree].enabled \subseteq hub'[tree].known
      /\ \A h \in Hubs : /\ SameLife(hub'[h], hub[h]) /\ hub'[h].orig = hub[h].orig
                         /\ hub'[h].stuck = hub[h].stuck
      /\ \A h \in Hubs \ {tree} : hub'[h] = hub[h]
  BY <1>0, <1>1, DisableEffect
<1>3. Moves(t, "return") /\ Answers(t, "ok") /\ SelfOf(t) /\ self'[t] = self[t]
  BY <1>0, GotoMoves, AnswerAnswers DEF IInv, TypeOK, Points, Results, SelfOf
<1>4. TypeOK'
  BY <1>0, <1>2, <1>3 DEF IInv, TypeOK, Moves, Answers
<1>5. Locked'
  BY <1>0, <1>3 DEF IInv, Locked, Moves, Holding
<1>6. Owns'
  <2>1. Owned(t)'
    BY <1>3 DEF Owned, Moves, Detached
  <2>2. \A u \in Hookers : Undisturbed(u)
    BY <1>0, <1>2 DEF IInv, Owns, Owned, Undisturbed
  <2> QED
    BY <1>3, <2>1, <2>2, OthersOwn DEF IInv, Moves, SelfOf
<1>7. Apart'
  BY <1>0, <1>3 DEF IInv, Apart, Moves, Detached
<1>8. InTree' /\ Waiting'
  BY <1>0, <1>2 DEF IInv, TypeOK, InTree, Waiting, SameLife
<1>9. Unused'
  <2>1. hub[tree].mem = "live"
    BY <1>0 DEF IInv, InTree
  <2> QED
    BY <2>1, <1>2 DEF IInv, Unused, SameLife
<1>10. Kept'
  <2>1. \A u \in Hookers : pc[u] \in Detached => pc'[u] \in Detached /\ self'[u] = self[u]
    BY <1>0, <1>3 DEF Moves, SelfOf, Detached
  <2>2. ASSUME NEW h \in Hubs, hub'[h].mem = "live"
        PROVE  h = tree' \/ h \in delayed' \/ \E u \in Hookers : pc'[u] \in Detached /\ self'[u] = h
    <3>1. hub[h].mem = "live"
      BY <1>2, <2>2 DEF SameLife
    <3>2. h = tree \/ h \in delayed \/ \E u \in Hookers : pc[u] \in Detached /\ self[u] = h
      BY <3>1 DEF IInv, Kept
    <3> QED
      BY <1>0, <2>1, <3>2
  <2> QED
    BY <2>2 DEF Kept
<1>11. Head'
  BY <1>0, <1>2, <1>3 DEF IInv, Head, NotStuck, Holding, Moves
<1>12. Served'
  BY <1>0, <1>3 DEF IInv, Served, Moves, Answers
<1> QED
  BY <1>4, <1>5, <1>6, <1>7, <1>8, <1>9, <1>10, <1>11, <1>12 DEF IInv

LEMMA UnhookLastIInv ==
    ASSUME IInv, NEW t \in Hookers, UnhookLast(t) PROVE IInv'
<1>0. /\ pc[t] = "unhook" /\ pc[t] \notin Holding \union Detached /\ writer = Nobody
      /\ tree \in Hubs /\ tree # None /\ Answer(t, "ok") /\ Goto(t, "restore")
      /\ writer' = t /\ SetSelf(t, tree)
      /\ hub' = [hub EXCEPT ![tree].enabled = {}]
      /\ UNCHANGED <<clock, tree, code, delayed, request, caller, ops>>
      /\ request[t].op = "unhook"
      /\ \A u \in Hookers : pc[u] \notin Holding
  BY DEF UnhookLast, UnhookFinds, IInv, TypeOK, Locked, Served, Holding, Detached
<1>1. {} \in SUBSET hub[tree].enabled
  OBVIOUS
<1>2. /\ hub' \in [Hubs -> HubStates]
      /\ hub'[tree].enabled = {} /\ hub'[tree].enabled \subseteq hub'[tree].known
      /\ \A h \in Hubs : /\ SameLife(hub'[h], hub[h]) /\ hub'[h].orig = hub[h].orig
                         /\ hub'[h].stuck = hub[h].stuck
      /\ \A h \in Hubs \ {tree} : hub'[h] = hub[h]
  BY <1>0, <1>1, DisableEffect
<1>3. Moves(t, "restore") /\ Answers(t, "ok") /\ SelfOf(t) /\ self'[t] = tree
  BY <1>0, GotoMoves, AnswerAnswers DEF IInv, TypeOK, Points, Results, SelfOf, SetSelf
<1>4. TypeOK'
  BY <1>0, <1>2, <1>3 DEF IInv, TypeOK, Moves, Answers, SelfOf
<1>5. Locked'
  BY <1>0, <1>2, <1>3 DEF Locked, Moves, Holding
<1>6. Owns'
  <2>1. Owned(t)'
    BY <1>3 DEF Owned, Moves, Detached
  <2>2. \A u \in Hookers : Undisturbed(u)
    BY <1>0, <1>2 DEF IInv, Owns, Owned, Undisturbed
  <2> QED
    BY <1>3, <2>1, <2>2, OthersOwn DEF IInv, Moves, SelfOf
<1>7. Apart'
  <2>1. \A u \in Hookers : pc'[u] \in Detached => pc[u] \in Detached /\ self'[u] = self[u]
    BY <1>3 DEF Moves, SelfOf, Detached
  <2> QED
    BY <2>1 DEF IInv, Apart
<1>8. InTree' /\ Waiting'
  BY <1>0, <1>2 DEF IInv, TypeOK, InTree, Waiting, SameLife
<1>9. Unused'
  <2>1. hub[tree].mem = "live"
    BY <1>0 DEF IInv, InTree
  <2> QED
    BY <2>1, <1>2 DEF IInv, Unused, SameLife
<1>10. Kept'
  <2>1. \A u \in Hookers : pc[u] \in Detached => pc'[u] \in Detached /\ self'[u] = self[u]
    BY <1>0, <1>3 DEF Moves, SelfOf, Detached
  <2>2. ASSUME NEW h \in Hubs, hub'[h].mem = "live"
        PROVE  h = tree' \/ h \in delayed' \/ \E u \in Hookers : pc'[u] \in Detached /\ self'[u] = h
    <3>1. hub[h].mem = "live"
      BY <1>2, <2>2 DEF SameLife
    <3>2. h = tree \/ h \in delayed \/ \E u \in Hookers : pc[u] \in Detached /\ self[u] = h
      BY <3>1 DEF IInv, Kept
    <3> QED
      BY <1>0, <2>1, <3>2
  <2> QED
    BY <2>2 DEF Kept
<1>11. Head'
  BY <1>0, <1>2, <1>3 DEF IInv, Head, NotStuck, Holding, Moves
<1>12. Served'
  BY <1>0, <1>3 DEF IInv, Served, Moves, Answers
<1> QED
  BY <1>4, <1>5, <1>6, <1>7, <1>8, <1>9, <1>10, <1>11, <1>12 DEF IInv

\* The hubs whose time has come are freed.
LEMMA ExpiredEffect ==
    ASSUME IInv, NEW h \in Hubs, NEW r \in HubStates, h \notin delayed, r.stuck = hub[h].stuck,
           SameProxies(r, hub[h]),
           hub' = [g \in Hubs |-> IF g = h THEN r ELSE IF g \in Expired THEN Freed(g) ELSE hub[g]]
    PROVE  /\ hub' \in [Hubs -> HubStates] /\ hub'[h] = r
           /\ \A g \in Hubs \ Expired : g # h => hub'[g] = hub[g]
           /\ \A g \in Expired : g # h /\ hub'[g].mem = "freed"
           /\ \A g \in Hubs : hub'[g].stuck = hub[g].stuck /\ SameProxies(hub'[g], hub[g])
           /\ Expired \subseteq delayed
<1>1. Expired \subseteq delayed /\ delayed \subseteq Hubs
  BY DEF Expired, IInv, TypeOK
<1>2. \A g \in Hubs : /\ Freed(g) \in HubStates /\ Freed(g).mem = "freed"
                      /\ Freed(g).stuck = hub[g].stuck /\ SameProxies(Freed(g), hub[g])
  <2>1. ASSUME NEW g \in Hubs
        PROVE  LET s == [hub[g] EXCEPT !.mem = "freed"]
               IN  s \in HubStates /\ s.mem = "freed" /\ s.stuck = hub[g].stuck /\ SameProxies(s, hub[g])
    <3>1. hub[g] \in HubStates
      BY HubType DEF IInv
    <3> QED
      BY <3>1 DEF HubStates, SameProxies
  <2> QED
    BY <2>1 DEF Freed
<1>3. \A g \in Hubs : hub'[g] \in HubStates
  <2>1. \A g \in Hubs : hub[g] \in HubStates
    BY HubType DEF IInv
  <2> QED
    BY <1>2, <2>1
<1>4. hub' \in [Hubs -> HubStates]
  BY <1>3
<1>5. hub'[h] = r
  OBVIOUS
<1>6. \A g \in Hubs \ Expired : g # h => hub'[g] = hub[g]
  OBVIOUS
<1>7. \A g \in Expired : g # h /\ hub'[g].mem = "freed"
  BY <1>1, <1>2
<1>8. \A g \in Hubs : hub'[g].stuck = hub[g].stuck /\ SameProxies(hub'[g], hub[g])
  <2>1. \A g \in Hubs : SameProxies(hub[g], hub[g])
    BY DEF SameProxies
  <2> QED
    BY <1>2, <2>1
<1> QED
  BY <1>1, <1>4, <1>5, <1>6, <1>7, <1>8

\* A thread has destroyed its hub, or handed it over.
LEMMA DestroyStep ==
    ASSUME IInv, NEW t \in Hookers, pc[t] \in {"destroy", "destroy later"}, Moves(t, "return"),
           SelfOf(t), UNCHANGED <<clock, tree, code, writer, request, result, caller, ops>>,
           NEW r \in HubStates, r.stuck = hub[self[t]].stuck, SameProxies(r, hub[self[t]]),
           hub' = [g \in Hubs |-> IF g = self[t] THEN r ELSE IF g \in Expired THEN Freed(g) ELSE hub[g]],
           \/ r.mem = "freed" /\ delayed' = delayed \ Expired
           \/ r.mem = "live" /\ r.switch = "freed" /\ delayed' = (delayed \ Expired) \union {self[t]}
    PROVE  IInv'
<1> DEFINE h == self[t]
<1>0. /\ pc[t] \in Detached /\ pc[t] \notin Holding /\ h \in Hubs /\ h \notin delayed /\ h # tree
      /\ \A u \in Hookers : u # t /\ pc[u] \in Detached => self[u] # h
  BY DEF IInv, Owns, Owned, Apart, Detached, Holding
<1>1. /\ hub' \in [Hubs -> HubStates] /\ hub'[h] = r
      /\ \A g \in Hubs \ Expired : g # h => hub'[g] = hub[g]
      /\ \A g \in Expired : g # h /\ hub'[g].mem = "freed"
      /\ \A g \in Hubs : hub'[g].stuck = hub[g].stuck /\ SameProxies(hub'[g], hub[g])
      /\ Expired \subseteq delayed
  BY <1>0, ExpiredEffect
<1> HIDE DEF h
<1>2. tree # None => tree \in Hubs /\ tree \notin delayed /\ tree # h /\ hub'[tree] = hub[tree]
  BY <1>0, <1>1 DEF IInv, InTree, TypeOK
<1>3. delayed' \subseteq Hubs /\ (delayed \ Expired) \subseteq delayed' /\ tree \notin delayed'
  BY <1>0, <1>2 DEF h, IInv, TypeOK
<1>4. TypeOK'
  BY <1>1, <1>3 DEF IInv, TypeOK, Moves, SelfOf, Points
<1>5. Locked'
  BY <1>0, <1>2 DEF IInv, Locked, Moves, SelfOf, Holding
<1>6. Owns'
  <2>1. ASSUME NEW u \in Hookers, u # t PROVE Undisturbed(u)
    <3>1. ASSUME pc[u] \in Detached PROVE self[u] \in Hubs \ delayed /\ self[u] # h /\ self[u] # tree
      BY <1>0, <2>1, <3>1 DEF IInv, Owns, Owned
    <3>2. ASSUME pc[u] \in Detached PROVE self[u] \notin delayed' /\ hub'[self[u]] = hub[self[u]]
      BY <1>1, <3>1, <3>2 DEF h
    <3> QED
      BY <3>1, <3>2 DEF Undisturbed
  <2>2. Owned(t)'
    BY DEF Owned, Moves, Detached
  <2> QED
    BY <2>1, <2>2, OthersOwn DEF IInv, Moves, SelfOf
<1>7. Apart'
  <2>1. \A u \in Hookers : pc'[u] \in Detached => pc[u] \in Detached /\ self'[u] = self[u]
    BY DEF Moves, SelfOf, Detached
  <2> QED
    BY <2>1 DEF IInv, Apart
<1>8. InTree'
  BY <1>2, <1>3 DEF IInv, InTree
<1>9. Waiting'
  <2>1. ASSUME NEW g \in delayed \ Expired PROVE hub'[g].mem = "live" /\ hub'[g].switch = "freed"
    BY ZenonT(40), <1>0, <1>1, <2>1 DEF IInv, Waiting, TypeOK
  <2>2. delayed' \subseteq (delayed \ Expired) \union {h}
    BY DEF h
  <2>3. h \in delayed' => r.mem = "live" /\ r.switch = "freed"
    BY <1>0
  <2> QED
    BY ZenonT(40), <1>1, <2>1, <2>2, <2>3 DEF Waiting
<1>10. Unused'
  <2>1. ASSUME NEW g \in Hubs
        PROVE  /\ hub'[g].enabled \subseteq hub'[g].known
               /\ hub'[g].mem = "unused" => hub'[g].enabled = {} /\ hub'[g].trampoFreed = Never
    <3>1. hub'[g].enabled = hub[g].enabled /\ hub'[g].known = hub[g].known
      BY <1>1 DEF SameProxies
    <3>2. hub'[g].mem = "unused" => hub'[g] = hub[g]
      <4>1. g = h \/ g \in Expired => hub'[g].mem # "unused"
        BY <1>1
      <4> QED
        BY <1>1, <4>1
    <3> QED
      BY <3>1, <3>2 DEF IInv, Unused
  <2> QED
    BY <2>1 DEF Unused
<1>11. Kept'
  <2>1. \A u \in Hookers : u # t /\ pc[u] \in Detached => pc'[u] \in Detached /\ self'[u] = self[u]
    BY DEF Moves, SelfOf
  <2>2. ASSUME NEW g \in Hubs, hub'[g].mem = "live"
        PROVE  g = tree' \/ g \in delayed' \/ \E u \in Hookers : pc'[u] \in Detached /\ self'[u] = g
    <3>1. CASE g = h
      BY <1>1, <2>2, <3>1 DEF h
    <3>2. CASE g # h
      <4>1. g \notin Expired /\ hub[g].mem = "live"
        BY <1>1, <2>2, <3>2
      <4>2. g = tree \/ g \in delayed \/ \E u \in Hookers : u # t /\ pc[u] \in Detached /\ self[u] = g
        BY <3>2, <4>1 DEF IInv, Kept, h
      <4> QED
        BY <1>3, <2>1, <4>1, <4>2
    <3> QED
      BY <3>1, <3>2
  <2> QED
    BY <2>2 DEF Kept
<1>12. Head'
  <2>1. NotStuck' => NotStuck
    BY <1>1 DEF NotStuck
  <2>2. \A u \in Hookers : pc'[u] \in Holding => pc[u] = pc'[u] /\ tree # None
    BY DEF Moves, Holding, IInv, Locked
  <2>3. NotStuck' =>
          /\ code' # None => code' = tree' /\ hub'[tree'].orig
          /\ writer' = Nobody => code' = tree' /\ (tree' # None => hub'[tree'].enabled # {})
    BY <1>2, <2>1 DEF IInv, Head
  <2>4. NotStuck' => \A u \in Hookers :
          /\ pc'[u] \in {"rewrite", "patch"} => code' = None
          /\ pc'[u] = "patch" => hub'[tree'].orig
          /\ pc'[u] \in {"add", "restore"} => code' = tree'
    BY <1>2, <2>1, <2>2 DEF IInv, Head, Holding
  <2> QED
    BY <2>3, <2>4 DEF Head
<1>13. Served'
  <2>1. result[t] # Unknown
    BY DEF IInv, Served
  <2> QED
    BY ZenonT(40), <2>1 DEF IInv, Served, Moves
<1> QED
  BY <1>4, <1>5, <1>6, <1>7, <1>8, <1>9, <1>10, <1>11, <1>12, <1>13 DEF IInv

LEMMA DestroyIInv ==
    ASSUME IInv, NEW t \in Hookers, Destroy(t) \/ DestroyLater(t) PROVE IInv'
<1> DEFINE x == hub[self[t]]
<1>4. /\ pc[t] \in {"destroy", "destroy later"}
      /\ Goto(t, "return") /\ SetSelf(t, None)
      /\ UNCHANGED <<clock, tree, code, writer, request, result, caller, ops>>
  BY DEF Destroy, DestroyLater
<1>0. /\ pc[t] \in {"destroy", "destroy later"} /\ x \in HubStates /\ clock \in Nat
      /\ self[t] \in Hubs /\ x.mem = "live"
      /\ Goto(t, "return") /\ SetSelf(t, None)
      /\ UNCHANGED <<clock, tree, code, writer, request, result, caller, ops>>
  <2>1. pc[t] \in Detached
    BY <1>4 DEF Detached
  <2>2. self[t] \in Hubs /\ x.mem = "live"
    BY <2>1 DEF IInv, Owns, Owned
  <2>3. x \in HubStates /\ clock \in Nat
    <3>1. hub[self[t]] \in HubStates
      BY <2>2, HubType DEF IInv
    <3> QED
      BY <3>1 DEF IInv, TypeOK
  <2> QED
    BY <1>4, <2>2, <2>3
<1>1. Moves(t, "return") /\ SelfOf(t)
  BY <1>0, GotoMoves DEF IInv, TypeOK, Points, SelfOf, SetSelf
<1>2. CASE Destroy(t)
  <2> DEFINE r == [x EXCEPT !.mem = "freed", !.switch = "freed", !.trampoFreed = clock]
  <2>1. r \in HubStates /\ r.mem = "freed" /\ r.stuck = x.stuck /\ SameProxies(r, x)
    <3> HIDE DEF x
    <3> QED
      BY <1>0 DEF HubStates, SameProxies
  <2>2. /\ hub' = [g \in Hubs |-> IF g = self[t] THEN r ELSE IF g \in Expired THEN Freed(g) ELSE hub[g]]
        /\ delayed' = delayed \ Expired
    BY <1>2 DEF Destroy
  <2> HIDE DEF r
  <2> QED
    BY <1>0, <1>1, <2>1, <2>2, DestroyStep
<1>3. CASE DestroyLater(t)
  <2> DEFINE r == [x EXCEPT !.ts = clock, !.switch = "freed", !.trampoFreed = clock]
  <2>1. r \in HubStates /\ r.mem = "live" /\ r.switch = "freed" /\ r.stuck = x.stuck /\ SameProxies(r, x)
    <3> HIDE DEF x
    <3> QED
      BY <1>0 DEF HubStates, SameProxies
  <2>2. /\ hub' = [g \in Hubs |-> IF g = self[t] THEN r ELSE IF g \in Expired THEN Freed(g) ELSE hub[g]]
        /\ delayed' = (delayed \ Expired) \union {self[t]}
    BY <1>3 DEF DestroyLater
  <2> HIDE DEF r
  <2> QED
    BY <1>0, <1>1, <2>1, <2>2, DestroyStep
<1> QED
  BY <1>2, <1>3
-----------------------------------------------------------------------------
(* Callers and the clock change nothing that the hookers share. *)

LEMMA OutsideIInv ==
    ASSUME IInv, TypeOK', UNCHANGED <<tree, code, writer, hub, delayed, pc, request, result, self>>
    PROVE  IInv'
<1>1. Locked' /\ Owns' /\ Apart'
  BY DEF IInv, Locked, Owns, Owned, Apart
<1>2. InTree' /\ Unused' /\ Waiting' /\ Kept'
  BY DEF IInv, InTree, Unused, Waiting, Kept
<1>3. Head' /\ Served'
  BY DEF IInv, Head, NotStuck, Served
<1> QED
  BY <1>1, <1>2, <1>3 DEF IInv

LEMMA CallerIInv ==
    ASSUME IInv, NEW c \in Callers, Fetch(c) \/ PushStack(c) \/ Prev(c) \/ Leave(c) PROVE IInv'
<1>1. UNCHANGED <<clock, tree, code, writer, hub, delayed, pc, request, result, self, ops>>
  BY DEF Fetch, PushStack, Prev, Leave, CallerOnly
<1>2. caller' \in [Callers -> CallStates]
  <2>1. caller[c] \in CallStates /\ code \in Hubs \union {None} /\ clock \in Nat
    BY DEF IInv, TypeOK
  <2>2. AtRest \in CallStates /\ [at |-> "trampo", hub |-> code, since |-> clock] \in CallStates
    BY <2>1 DEF AtRest, CallStates
  <2>3. \A where \in {"proxy", "enter"} : [caller[c] EXCEPT !.at = where] \in CallStates
    <3> DEFINE x == caller[c]
    <3>1. x \in CallStates
      BY <2>1
    <3> HIDE DEF x
    <3>2. \A where \in {"proxy", "enter"} : [x EXCEPT !.at = where] \in CallStates
      BY <3>1 DEF CallStates
    <3> QED
      BY <3>2 DEF x
  <2>4. CASE Fetch(c)
    BY <2>2, <2>4 DEF Fetch, IInv, TypeOK
  <2>5. CASE Leave(c)
    BY <2>2, <2>5 DEF Leave, IInv, TypeOK
  <2>6. ASSUME NEW where \in {"proxy", "enter"}, Move(c, where) PROVE caller' \in [Callers -> CallStates]
    <3>1. caller' = [caller EXCEPT ![c] = [caller[c] EXCEPT !.at = where]]
      BY <2>6 DEF Move
    <3> QED
      BY <2>3, <3>1 DEF IInv, TypeOK
  <2> QED
    BY <2>4, <2>5, <2>6 DEF PushStack, Prev
<1>3. TypeOK'
  BY <1>1, <1>2 DEF IInv, TypeOK
<1> QED
  BY <1>1, <1>3, OutsideIInv

LEMMA TickIInv == ASSUME IInv, Tick PROVE IInv'
<1>1. TypeOK'
  BY DEF Tick, IInv, TypeOK
<1> QED
  BY <1>1, OutsideIInv DEF Tick

LEMMA StutterIInv == ASSUME IInv, UNCHANGED vars PROVE IInv'
<1>1. TypeOK'
  BY DEF vars, IInv, TypeOK
<1> QED
  BY <1>1, OutsideIInv DEF vars

LEMMA NextIInv == IInv /\ [Next]_vars => IInv'
<1> SUFFICES ASSUME IInv, [Next]_vars PROVE IInv'
  OBVIOUS
<1>1. ASSUME NEW t \in Hookers, NEW op \in {"hook", "unhook"}, NEW f \in Funcs, Begin(t, op, f)
      PROVE  IInv'
  BY <1>1, BeginIInv
<1>2. ASSUME NEW t \in Hookers, Hooker(t) PROVE IInv'
  BY <1>2, HookFindIInv, HookReadLenIInv, HookCreateIInv, HookInsertIInv, HookRewriteIInv,
     HookPatchIInv, HookAddIInv, UnhookMissingIInv, UnhookProxyIInv, UnhookLastIInv,
     UnhookRestoreIInv, DestroyIInv, ReturnIInv DEF Hooker
<1>3. ASSUME NEW c \in Callers, Fetch(c) \/ PushStack(c) \/ Prev(c) \/ Leave(c) PROVE IInv'
  BY <1>3, CallerIInv
<1> QED
  BY <1>1, <1>2, <1>3, TickIInv, StutterIInv DEF Next

LEMMA Invariant == Spec => []IInv
BY InitIInv, NextIInv, PTL DEF Spec

\* Types, with the clock and the number of calls within their bounds: no step of
\* hook, unhook or a caller leaves them.
THEOREM TypeCorrect == Spec => []TypeOK
<1>1. IInv => TypeOK
  BY DEF IInv
<1> QED
  BY <1>1, Invariant, PTL

\* The function is patched exactly if a proxy is enabled, and then its switch
\* is in the tree with a hub that is alive (sh_switch_hook_shared, _unhook_shared).
THEOREM PatchMatchesHooks == Spec => []PatchedIffHooked
<1>1. IInv => PatchedIffHooked
  <2> SUFFICES ASSUME IInv, NotStuck PROVE PatchedIffHooked
    BY DEF PatchedIffHooked, NotStuck
  <2>1. code # None => /\ code = tree /\ hub[tree].orig /\ hub[tree].mem = "live"
                       /\ hub[tree].switch = "live" /\ hub[tree].trampoFreed = Never
    BY DEF IInv, Head, InTree
  <2>2. writer = Nobody => code = tree /\ (tree # None => hub[tree].enabled # {})
    BY DEF IInv, Head
  <2> QED
    BY <2>1, <2>2 DEF PatchedIffHooked
<1> QED
  BY <1>1, Invariant, PTL

\* On every path of hook and unhook, failures included, a hub that exists is in
\* the tree, waits for its destruction, or is in the hands of a thread.
THEOREM HubsAreKept == Spec => []NoHubIsLost
<1>1. IInv => NoHubIsLost
  <2> SUFFICES ASSUME IInv, NEW h \in Hubs, hub[h].mem = "live"
               PROVE  \/ h = tree /\ hub[h].switch = "live"
                      \/ h \in delayed /\ hub[h].switch = "freed"
                      \/ \E t \in Hookers : self[t] = h /\ pc[t] # "read len"
    BY DEF NoHubIsLost
  <2>1. h = tree => hub[h].switch = "live"
    BY DEF IInv, InTree
  <2>2. h \in delayed => hub[h].switch = "freed"
    BY DEF IInv, Waiting
  <2>3. h = tree \/ h \in delayed \/ \E t \in Hookers : pc[t] \in Detached /\ self[t] = h
    BY DEF IInv, Kept
  <2> QED
    BY <2>1, <2>2, <2>3 DEF Detached
<1> QED
  BY <1>1, Invariant, PTL
-----------------------------------------------------------------------------
(***************************************************************************)
(* The refinement: every step of Switch is a step of the registry or none. *)
(***************************************************************************)
hooks == IF tree = None THEN {} ELSE hub[tree].enabled

\* A step of t that serves no call leaves the registry as it is.
LEMMA NoRegistryStep ==
    ASSUME UNCHANGED <<request, result>>, hooks' = hooks
    PROVE  [Registry!Next]_(Registry!regVars)
BY DEF hooks, Registry!regVars

LEMMA RegistryInit == Init => Registry!Init
BY DEF Init, Registry!Init, Registry!Idle, Registry!Unknown, Idle, hooks

\* The answer r to a hook.
LEMMA RegistryHook ==
    ASSUME IInv, NEW t \in Hookers,
           pc[t] \in {"hook", "create", "insert", "rewrite", "patch", "add"},
           NEW r, result' = [result EXCEPT ![t] = r], UNCHANGED request,
           LET f == request[t].func
           IN  \/ r = "ok" /\ f \notin hooks /\ hooks' = hooks \union {f}
               \/ r = "dup" /\ f \in hooks /\ hooks' = hooks
               \/ r = "error" /\ hooks' = hooks
    PROVE  Registry!Next
<1>1. request[t].op = "hook" /\ result[t] = Unknown
  BY DEF IInv, Served
<1>2. Registry!Hook(t)
  BY <1>1 DEF hooks, Registry!Hook, Registry!Pending, Registry!Answer, Registry!Unknown
<1> QED
  BY <1>2 DEF Registry!Next

LEMMA AddProxyRegistry ==
    ASSUME IInv, NEW t \in Hookers, pc[t] \in {"hook", "insert"}, tree # None, UNCHANGED <<tree, request>>,
           AddProxy(t, tree, request[t].func)
    PROVE  Registry!Next
<1> DEFINE f == request[t].func
<1>1. tree \in Hubs /\ f \in Funcs
  BY DEF IInv, TypeOK, Served
<1>2. \/ f \in hub[tree].enabled /\ hub'[tree] = hub[tree] /\ result'[t] = "dup"
      \/ /\ f \notin hub[tree].enabled /\ result'[t] = "ok"
         /\ hub'[tree].enabled = hub[tree].enabled \union {f}
      \/ hub'[tree] = hub[tree] /\ result'[t] = "error"
  BY <1>1, AddProxyEffect DEF IInv
<1>3. result' = [result EXCEPT ![t] = result'[t]]
  <2>1. PICK r \in {"ok", "dup", "error"} : result' = [result EXCEPT ![t] = r]
    BY DEF AddProxy, Answer
  <2> QED
    BY <2>1 DEF IInv, TypeOK
<1>4. hooks = hub[tree].enabled /\ hooks' = hub'[tree].enabled
  BY DEF hooks
<1> QED
  BY <1>2, <1>3, <1>4, RegistryHook

\* A thread in its section has a hub with no proxy enabled.
LEMMA HoldingIsEmpty ==
    ASSUME IInv, NEW t \in Hookers, pc[t] \in Holding
    PROVE  hooks = {} /\ self[t] = tree /\ tree \in Hubs /\ tree # None
BY DEF IInv, TypeOK, Locked, hooks

LEMMA InstFailsRegistry ==
    ASSUME IInv, NEW t \in Hookers, pc[t] \in {"rewrite", "patch"}, InstFails(t), UNCHANGED request
    PROVE  Registry!Next
<1>1. hooks = {} /\ hooks' = {}
  BY HoldingIsEmpty DEF InstFails, hooks, Holding
<1>2. result' = [result EXCEPT ![t] = "error"]
  BY DEF InstFails, Answer
<1> QED
  BY <1>1, <1>2, RegistryHook

LEMMA UnhookRegistry ==
    ASSUME IInv, NEW t \in Hookers, pc[t] = "unhook",
           NEW r, result' = [result EXCEPT ![t] = r], UNCHANGED request,
           \/ r = "ok" /\ hooks' = hooks \ {request[t].func}
           \/ r = "not found" /\ request[t].func \notin hooks /\ hooks' = hooks
    PROVE  Registry!Next
<1>1. request[t].op = "unhook" /\ result[t] = Unknown
  BY DEF IInv, Served
<1>2. Registry!Unhook(t)
  BY <1>1 DEF hooks, Registry!Unhook, Registry!Pending, Registry!Answer, Registry!Unknown
<1> QED
  BY <1>2 DEF Registry!Next

LEMMA HookStepsRegistry ==
    ASSUME IInv, NEW t \in Hookers,
           \/ HookFind(t) \/ HookReadLen(t) \/ HookCreate(t) \/ HookInsert(t)
           \/ HookRewrite(t) \/ HookPatch(t) \/ HookAdd(t)
    PROVE  [Registry!Next]_(Registry!regVars)
<1>1. CASE HookFind(t)
  <2>1. CASE tree = None
    BY <1>1, <2>1, NoRegistryStep DEF HookFind, hooks
  <2>2. CASE tree # None
    BY <1>1, <2>2, AddProxyRegistry DEF HookFind
  <2> QED
    BY <2>1, <2>2
<1>2. CASE HookReadLen(t)
  BY <1>2, NoRegistryStep DEF HookReadLen, hooks
<1>3. CASE HookCreate(t)
  <2>1. ASSUME NEW h \in Hubs, hub[h].mem = "unused",
               hub' = [hub EXCEPT ![h].mem = "live", ![h].switch = "live"], UNCHANGED result
        PROVE  UNCHANGED <<request, result>> /\ hooks' = hooks
    <3>1. tree # h /\ UNCHANGED <<tree, request>>
      BY <1>3, <2>1 DEF HookCreate, IInv, InTree
    <3>2. hooks' = hooks
      BY <2>1, <3>1 DEF hooks, IInv, TypeOK
    <3> QED
      BY <2>1, <3>1, <3>2
  <2>2. CASE Answer(t, "error") /\ UNCHANGED hub
    <3>1. hooks' = hooks /\ result' = [result EXCEPT ![t] = "error"] /\ UNCHANGED request /\ pc[t] = "create"
      BY <1>3, <2>2 DEF HookCreate, Answer, hooks
    <3> QED
      BY <3>1, RegistryHook
  <2>3. CASE UNCHANGED <<hub, result>>
    BY <1>3, <2>3, NoRegistryStep DEF HookCreate, hooks
  <2> QED
    BY <1>3, <2>1, <2>2, <2>3, NoRegistryStep DEF HookCreate
<1>4. CASE HookInsert(t)
  <2>1. CASE tree # None
    BY <1>4, <2>1, AddProxyRegistry DEF HookInsert
  <2>2. CASE tree = None
    <3>1. /\ pc[t] = "insert" /\ tree' = self[t] /\ UNCHANGED <<hub, request, result>>
      BY <1>4, <2>2 DEF HookInsert
    <3>2. hub[self[t]].enabled = {}
      BY <3>1 DEF IInv, Owns, Owned, Detached
    <3>3. hooks' = hooks
      BY <2>2, <3>1, <3>2 DEF hooks
    <3> QED
      BY <3>1, <3>3, NoRegistryStep
  <2> QED
    BY <2>1, <2>2
<1>5. CASE HookRewrite(t)
  <2>1. pc[t] = "rewrite" /\ pc[t] \in Holding /\ UNCHANGED request
    BY <1>5 DEF HookRewrite, Holding
  <2>2. CASE hub' = [hub EXCEPT ![self[t]].orig = TRUE] /\ UNCHANGED <<tree, result>>
    <3>1. hooks = {} /\ self[t] = tree /\ tree \in Hubs
      BY <2>1, HoldingIsEmpty
    <3>2. hub[tree] \in HubStates
      BY <3>1, HubType DEF IInv
    <3>3. [hub[tree] EXCEPT !.orig = TRUE].enabled = hub[tree].enabled
      BY <3>2, OrigField DEF SameProxies
    <3>4. hub'[tree].enabled = hub[tree].enabled
      BY <2>2, <3>1, <3>3 DEF IInv, TypeOK
    <3> QED
      BY <2>1, <2>2, <3>4, NoRegistryStep DEF hooks
  <2>3. CASE InstFails(t)
    BY <2>1, <2>3, InstFailsRegistry
  <2> QED
    BY <1>5, <2>2, <2>3 DEF HookRewrite
<1>6. CASE HookPatch(t)
  <2>1. pc[t] = "patch" /\ UNCHANGED request
    BY <1>6 DEF HookPatch
  <2>2. CASE UNCHANGED <<tree, hub, result>>
    BY <2>1, <2>2, NoRegistryStep DEF hooks
  <2>3. CASE InstFails(t)
    BY <2>1, <2>3, InstFailsRegistry
  <2> QED
    BY <1>6, <2>2, <2>3 DEF HookPatch
<1>7. CASE HookAdd(t)
  <2>1. pc[t] = "add" /\ pc[t] \in Holding /\ UNCHANGED request
    BY <1>7 DEF HookAdd, Holding
  <2>2. hooks = {} /\ self[t] = tree /\ tree \in Hubs /\ tree # None
    BY <2>1, HoldingIsEmpty
  <2>3. CASE /\ hub' = [hub EXCEPT ![self[t]].enabled = {request[t].func},
                                   ![self[t]].known = {request[t].func}]
             /\ Answer(t, "ok") /\ UNCHANGED tree
    <3> DEFINE F == {request[t].func}
    <3>1. hub[tree] \in HubStates /\ request[t].func \in Funcs
      BY <2>1, <2>2, HubType DEF IInv, Served
    <3>2. [hub[tree] EXCEPT !.enabled = F, !.known = F].enabled = F
      BY <3>1 DEF HubStates
    <3>3. hub'[tree].enabled = F
      BY <2>2, <2>3, <3>2 DEF IInv, TypeOK
    <3>4. hooks' = hooks \union {request[t].func} /\ request[t].func \notin hooks
      BY <2>2, <2>3, <3>3 DEF hooks
    <3> QED
      BY <2>1, <2>3, <3>4, RegistryHook DEF Answer
  <2>4. CASE tree' = None /\ Answer(t, "error")
    BY <2>1, <2>2, <2>4, RegistryHook DEF Answer, hooks
  <2> QED
    BY <1>7, <2>3, <2>4 DEF HookAdd
<1> QED
  BY <1>1, <1>2, <1>3, <1>4, <1>5, <1>6, <1>7

LEMMA UnhookStepsRegistry ==
    ASSUME IInv, NEW t \in Hookers,
           UnhookMissing(t) \/ UnhookProxy(t) \/ UnhookLast(t) \/ UnhookRestore(t)
    PROVE  [Registry!Next]_(Registry!regVars)
<1>1. CASE UnhookMissing(t)
  <2>1. /\ pc[t] = "unhook" /\ ~UnhookFinds(t) /\ result' = [result EXCEPT ![t] = "not found"]
        /\ UNCHANGED <<tree, hub, request>>
    BY <1>1 DEF UnhookMissing, Answer
  <2>2. request[t].func \notin hooks
    BY <2>1 DEF UnhookFinds, hooks, IInv, TypeOK, Unused
  <2>3. hooks' = hooks
    BY <2>1 DEF hooks
  <2> QED
    BY <2>1, <2>2, <2>3, UnhookRegistry
<1>2. CASE UnhookProxy(t) \/ UnhookLast(t)
  <2> DEFINE E == hub[tree].enabled \ {request[t].func}
  <2>1. /\ pc[t] = "unhook" /\ tree # None /\ result' = [result EXCEPT ![t] = "ok"]
        /\ hub' = [hub EXCEPT ![tree].enabled = E] /\ UNCHANGED <<tree, request>>
    BY <1>2 DEF UnhookProxy, UnhookLast, UnhookFinds, Answer
  <2>2. tree \in Hubs /\ E \in SUBSET hub[tree].enabled
    BY <2>1 DEF IInv, TypeOK
  <2>3. hub'[tree].enabled = E
    <3> HIDE DEF E
    <3> QED
      BY <2>1, <2>2, DisableEffect
  <2>4. hooks' = hooks \ {request[t].func}
    BY <2>1, <2>3 DEF hooks
  <2> QED
    BY <2>1, <2>4, UnhookRegistry
<1>3. CASE UnhookRestore(t)
  <2>1. pc[t] = "restore" /\ pc[t] \in Holding /\ tree' = None /\ UNCHANGED request
    BY <1>3 DEF UnhookRestore, Holding
  <2>2. hooks = {} /\ hooks' = {}
    BY <2>1, HoldingIsEmpty DEF hooks
  <2>3. CASE UNCHANGED result
    BY <2>1, <2>2, <2>3, NoRegistryStep
  <2>4. CASE Answer(t, "error")
    <3>1. request[t].op = "unhook" /\ result[t] = "ok"
      BY <2>1 DEF IInv, Served
    <3>2. Registry!NotRestored(t)
      BY <2>1, <2>2, <2>4, <3>1 DEF hooks, Answer, Registry!NotRestored, Registry!Answer
    <3> QED
      BY <3>2 DEF Registry!Next
  <2> QED
    BY <1>3, <2>3, <2>4 DEF UnhookRestore
<1> QED
  BY <1>1, <1>2, <1>3

LEMMA DestroyRegistry ==
    ASSUME IInv, NEW t \in Hookers, Destroy(t) \/ DestroyLater(t)
    PROVE  [Registry!Next]_(Registry!regVars)
<1>1. /\ pc[t] \in Detached /\ UNCHANGED <<tree, request, result>>
  BY DEF Destroy, DestroyLater, Detached
<1>2. tree # None => tree \in Hubs /\ tree # self[t] /\ tree \notin Expired
  BY <1>1 DEF IInv, TypeOK, InTree, Owns, Owned, Expired
<1>3. tree # None => hub'[tree] = hub[tree]
  BY <1>2 DEF Destroy, DestroyLater
<1> QED
  BY <1>1, <1>3, NoRegistryStep DEF hooks

LEMMA BeginRegistry ==
    ASSUME IInv, NEW t \in Hookers, NEW op \in {"hook", "unhook"}, NEW f \in Funcs, Begin(t, op, f)
    PROVE  Registry!Next
<1>1. request[t] = Idle /\ UNCHANGED <<tree, hub, result>>
  BY DEF Begin, IInv, Served
<1>2. Registry!Begin(t, op, f)
  BY <1>1 DEF Begin, Registry!Begin, Registry!Idle, Idle
<1> QED
  BY <1>2 DEF Registry!Next

LEMMA ReturnRegistry ==
    ASSUME IInv, NEW t \in Hookers, Return(t) PROVE Registry!Next
<1>1. result[t] # Unknown /\ UNCHANGED <<tree, hub>>
  BY DEF Return, IInv, Served
<1>2. Registry!Return(t)
  BY <1>1 DEF Return, Answer, Registry!Return, Registry!Idle, Registry!Unknown, Idle
<1> QED
  BY <1>2 DEF Registry!Next

LEMMA NextRegistry == IInv /\ [Next]_vars => [Registry!Next]_(Registry!regVars)
<1> SUFFICES ASSUME IInv, [Next]_vars PROVE [Registry!Next]_(Registry!regVars)
  OBVIOUS
<1>1. ASSUME NEW t \in Hookers, NEW op \in {"hook", "unhook"}, NEW f \in Funcs, Begin(t, op, f)
      PROVE  Registry!Next
  BY <1>1, BeginRegistry
<1>2. ASSUME NEW t \in Hookers, Hooker(t) PROVE [Registry!Next]_(Registry!regVars)
  BY <1>2, HookStepsRegistry, UnhookStepsRegistry, DestroyRegistry, ReturnRegistry DEF Hooker
<1>3. ASSUME NEW c \in Callers, Fetch(c) \/ PushStack(c) \/ Prev(c) \/ Leave(c)
      PROVE  UNCHANGED <<tree, hub, request, result>>
  BY <1>3 DEF Fetch, PushStack, Prev, Leave, CallerOnly
<1>4. CASE UNCHANGED <<tree, hub, request, result>>
  BY <1>4, NoRegistryStep DEF hooks
<1> QED
  BY <1>1, <1>2, <1>3, <1>4 DEF Next, Tick, vars

\* The switches implement the registry: however the threads and the failures
\* interleave, each hook and each unhook takes effect at one moment between its
\* call and its return (sh_switch_hook_shared, sh_switch_unhook_shared).
THEOREM SwitchImplementsRegistry == Spec => RegistrySpec
BY RegistryInit, Invariant, NextRegistry, PTL DEF Spec, RegistrySpec, Registry!Spec
-----------------------------------------------------------------------------
(***************************************************************************)
(* Callers take no lock: only the delays keep what they run through.  The  *)
(* theorem assumes that a caller is quicker than each of the delays, and   *)
(* that no failure takes a hub away without a delay (Faults).              *)
(***************************************************************************)
Patient ==
    /\ TrampoPatience <= TrampoDelay /\ TrampoPatience <= ProxyPatience
    /\ ProxyPatience <= EnterDelay /\ ProxyPatience <= HubDelay
NoLoss == "proxy" \notin Faults /\ "mismatch" \notin Faults

\* While the hub was not yet in anybody's way.
Early == {"insert", "rewrite", "patch", "destroy"}

\* What a call in hub h, since s, relies on: whatever was released was released
\* after it came, and nobody is about to destroy h at once.
Relies(h, s) ==
    /\ h \in Hubs /\ s <= clock
    /\ hub[h].mem = "live" /\ hub[h].orig
    /\ hub[h].enterFreed = Never \/ s <= hub[h].enterFreed
    /\ hub[h].trampoFreed = Never \/ s <= hub[h].trampoFreed
    /\ h \in delayed => s <= hub[h].ts
    /\ \A t \in Hookers : pc[t] \in Early => self[t] # h

Calling(c) ==
    /\ caller[c].at # "idle" => Relies(caller[c].hub, caller[c].since)
    /\ caller[c].at = "trampo" => clock - caller[c].since <= TrampoPatience
    /\ caller[c].at \in {"proxy", "enter"} => clock - caller[c].since <= ProxyPatience

\* Where the enter trampoline was not released.
Entered ==
    /\ code # None => hub[code].enterFreed = Never
    /\ \A t \in Hookers : pc[t] \in {"insert", "rewrite", "patch", "add"} => hub[self[t]].enterFreed = Never
    /\ \A h \in Hubs : hub[h].mem = "unused" => hub[h].enterFreed = Never

CInv == IInv /\ NotStuck /\ Entered /\ \A c \in Callers : Calling(c)

\* A hub that a call may be in: its time has not come, and nobody is about to
\* take it away at once.
InUse(h) ==
    /\ hub[h].mem = "live" /\ hub[h].orig /\ h \notin Expired
    /\ \A t \in Hookers : pc[t] \in Early => self[t] # h

\* The step keeps the hub h for its calls, and what it releases of it, it
\* releases now.
KeepsFor(h) ==
    /\ hub'[h].mem = "live" /\ hub'[h].orig
    /\ hub'[h].enterFreed = hub[h].enterFreed \/ hub'[h].enterFreed = clock
    /\ hub'[h].trampoFreed = hub[h].trampoFreed \/ hub'[h].trampoFreed = clock
    /\ h \in delayed' => (h \in delayed /\ hub'[h].ts = hub[h].ts) \/ hub'[h].ts = clock
    /\ \A t \in Hookers : pc'[t] \in Early => self'[t] # h
KeepsAll == \A h \in Hubs : InUse(h) => KeepsFor(h)

\* Only the proxies differ.
SameHub(r, s) ==
    /\ SameLife(r, s) /\ r.orig = s.orig /\ r.stuck = s.stuck
    /\ r.ts = s.ts /\ r.enterFreed = s.enterFreed

SameOthers == \A h \in Hubs : SameHub(hub'[h], hub[h])

LEMMA SameHubs ==
    ASSUME IInv, NotStuck, Entered, NEW t \in Hookers, NEW where \in Points, Moves(t, where), SelfOf(t),
           SameOthers,
           where \in Early => pc[t] \in Early /\ self'[t] = self[t],
           where \in {"insert", "rewrite", "patch", "add"} =>
                pc[t] \in {"insert", "rewrite", "patch"} /\ self'[t] = self[t],
           UNCHANGED delayed, code' = code \/ (code' = self[t] /\ where = "add")
    PROVE  NotStuck' /\ Entered' /\ KeepsAll
<1> USE DEF Moves, SelfOf, SameOthers, SameHub, SameLife
<1>1. NotStuck'
  BY DEF NotStuck
<1>2. Entered'
  <2>0. \A u \in Hookers : pc[u] \in {"insert", "rewrite", "patch", "add"} => self[u] \in Hubs
    BY ZenonT(40) DEF IInv, TypeOK, Owns, Owned, Locked, Detached, Holding
  <2>1. code' # None => code' \in Hubs /\ hub[code'].enterFreed = Never
    BY <2>0 DEF Entered, IInv, TypeOK
  <2>2. ASSUME NEW u \in Hookers, pc'[u] \in {"insert", "rewrite", "patch", "add"}
        PROVE  hub'[self'[u]].enterFreed = Never
    <3>1. pc[u] \in {"insert", "rewrite", "patch", "add"} /\ self'[u] = self[u]
      BY <2>2
    <3>2. self[u] \in Hubs /\ hub[self[u]].enterFreed = Never
      BY <2>0, <3>1 DEF Entered
    <3> QED
      BY <3>1, <3>2
  <2>3. ASSUME NEW h \in Hubs, hub'[h].mem = "unused" PROVE hub'[h].enterFreed = Never
    BY <2>3 DEF Entered
  <2> QED
    BY <2>1, <2>2, <2>3 DEF Entered
<1>3. KeepsAll
  BY DEF KeepsAll, KeepsFor, InUse, Early
<1> QED
  BY <1>1, <1>2, <1>3

\* The proxies of one hub change.
LEMMA ProxiesChange ==
    ASSUME TypeOK, NEW h \in Hubs, NEW E, NEW K,
           \/ hub' = hub
           \/ hub' = [hub EXCEPT ![h].enabled = E, ![h].known = K]
           \/ hub' = [hub EXCEPT ![h].enabled = E]
    PROVE  SameOthers
<1>1. ASSUME NEW g \in Hubs PROVE SameHub(hub'[g], hub[g])
  <2> DEFINE x == hub[g]
  <2>1. x \in HubStates
    BY DEF TypeOK
  <2>2. \/ hub'[g] = x \/ hub'[g] = [x EXCEPT !.enabled = E, !.known = K]
        \/ hub'[g] = [x EXCEPT !.enabled = E]
    BY DEF TypeOK
  <2> DEFINE y == hub'[g]
  <2> HIDE DEF x, y
  <2>3. SameHub(y, x)
    <3>1. y = x \/ y = [x EXCEPT !.enabled = E, !.known = K] \/ y = [x EXCEPT !.enabled = E]
      BY <2>2 DEF x, y
    <3> QED
      BY <2>1, <3>1 DEF SameHub, SameLife, HubStates
  <2> QED
    BY <2>3 DEF x, y
<1> QED
  BY <1>1 DEF SameOthers

LEMMA AddProxyKeeps ==
    ASSUME TypeOK, NEW t \in Hookers, NEW h \in Hubs, NEW f, AddProxy(t, h, f)
    PROVE  SameOthers
BY ProxiesChange DEF AddProxy

LEMMA UnchangedHubs == hub' = hub => SameOthers
BY DEF SameOthers, SameHub, SameLife

LEMMA ReadersKeep ==
    ASSUME IInv, NotStuck, Entered, NEW t \in Hookers,
           \/ HookFind(t) \/ HookReadLen(t) \/ HookInsert(t)
           \/ UnhookMissing(t) \/ UnhookProxy(t) \/ UnhookLast(t) \/ Return(t)
    PROVE  NotStuck' /\ Entered' /\ KeepsAll
<1>0. TypeOK
  BY DEF IInv
<1>1. CASE HookFind(t)
  <2>1. SelfOf(t) /\ UNCHANGED <<code, delayed>>
    BY <1>0, <1>1 DEF HookFind, SelfOf, SetSelf, TypeOK
  <2>2. SameOthers
    BY <1>0, <1>1, AddProxyKeeps, UnchangedHubs DEF HookFind, TypeOK
  <2>3. PICK where \in {"create", "read len"} : Goto(t, where)
    BY <1>1 DEF HookFind
  <2>4. Moves(t, where) /\ where \in Points
    BY <1>0, <2>3, GotoMoves DEF Points
  <2>5. where \notin Early \union {"add"}
    BY <2>3 DEF Early
  <2> QED
    BY <2>1, <2>2, <2>4, <2>5, SameHubs DEF Early
<1>2. CASE HookReadLen(t)
  <2>1. SelfOf(t) /\ UNCHANGED <<code, delayed, hub>> /\ Goto(t, "return")
    BY <1>0, <1>2 DEF HookReadLen, SelfOf, SetSelf, TypeOK
  <2>2. Moves(t, "return") /\ "return" \in Points
    BY <1>0, <2>1, GotoMoves DEF Points
  <2> QED
    BY <2>1, <2>2, UnchangedHubs, SameHubs DEF Early
<1>3. CASE HookInsert(t)
  <2>1. SelfOf(t) /\ UNCHANGED <<code, delayed, self>> /\ pc[t] = "insert"
    BY <1>0, <1>3 DEF HookInsert, SelfOf, TypeOK
  <2>2. SameOthers
    BY <1>0, <1>3, AddProxyKeeps, UnchangedHubs DEF HookInsert, TypeOK
  <2>3. PICK where \in {"destroy", "rewrite"} : Goto(t, where)
    BY <1>3 DEF HookInsert
  <2>4. Moves(t, where) /\ where \in Points
    BY <1>0, <2>3, GotoMoves DEF Points
  <2> QED
    BY <2>1, <2>2, <2>4, SameHubs DEF Early
<1>4. CASE UnhookMissing(t) \/ Return(t)
  <2>1. SelfOf(t) /\ UNCHANGED <<code, delayed, hub>>
    BY <1>0, <1>4 DEF UnhookMissing, Return, SelfOf, TypeOK
  <2>2. PICK where \in {"return", "idle"} : Goto(t, where)
    BY <1>4 DEF UnhookMissing, Return
  <2>3. Moves(t, where) /\ where \in Points
    BY <1>0, <2>2, GotoMoves DEF Points
  <2> QED
    BY <2>1, <2>3, UnchangedHubs, SameHubs DEF Early
<1>5. CASE UnhookProxy(t) \/ UnhookLast(t)
  <2>1. SelfOf(t) /\ UNCHANGED <<code, delayed>>
    BY <1>0, <1>5 DEF UnhookProxy, UnhookLast, SetSelf, SelfOf, TypeOK
  <2>2. PICK where \in {"return", "restore"} : Goto(t, where)
    BY <1>5 DEF UnhookProxy, UnhookLast
  <2>3. Moves(t, where) /\ where \in Points
    BY <1>0, <2>2, GotoMoves DEF Points
  <2>4. tree \in Hubs
    BY <1>0, <1>5 DEF UnhookProxy, UnhookLast, UnhookFinds, TypeOK
  <2>5. \E E : hub' = [hub EXCEPT ![tree].enabled = E]
    BY <1>5 DEF UnhookProxy, UnhookLast
  <2>6. SameOthers
    BY <1>0, <2>4, <2>5, ProxiesChange
  <2> QED
    BY <2>1, <2>3, <2>6, SameHubs DEF Early
<1> QED
  BY <1>1, <1>2, <1>3, <1>4, <1>5

\* The fields of a hub, after each of the other changes.
LEMMA ServiceFields ==
    ASSUME NEW r \in HubStates, NEW n \in Nat
    PROVE  /\ LET s == [r EXCEPT !.mem = "live", !.switch = "live"]
              IN  s.enterFreed = r.enterFreed /\ s.stuck = r.stuck
           /\ LET s == [r EXCEPT !.orig = TRUE]
              IN  /\ s.mem = r.mem /\ s.orig /\ s.enterFreed = r.enterFreed /\ s.ts = r.ts
                  /\ s.trampoFreed = r.trampoFreed /\ s.stuck = r.stuck
           /\ LET s == [r EXCEPT !.enterFreed = n]
              IN  /\ s.mem = r.mem /\ s.orig = r.orig /\ s.enterFreed = n /\ s.ts = r.ts
                  /\ s.trampoFreed = r.trampoFreed /\ s.stuck = r.stuck
           /\ LET s == [r EXCEPT !.orig = FALSE, !.enterFreed = n]
              IN  s.mem = r.mem /\ s.stuck = r.stuck
           /\ LET s == [r EXCEPT !.mem = "freed"]
              IN  s.mem = "freed" /\ s.enterFreed = r.enterFreed /\ s.stuck = r.stuck
           /\ LET s == [r EXCEPT !.mem = "freed", !.switch = "freed", !.trampoFreed = n]
              IN  s.mem = "freed" /\ s.enterFreed = r.enterFreed /\ s.stuck = r.stuck
           /\ LET s == [r EXCEPT !.ts = n, !.switch = "freed", !.trampoFreed = n]
              IN  /\ s.mem = r.mem /\ s.orig = r.orig /\ s.enterFreed = r.enterFreed /\ s.ts = n
                  /\ s.trampoFreed = n /\ s.stuck = r.stuck
BY DEF HubStates

\* A step that changes the hub of the thread t, self[t], and no other.
Private(t) == UNCHANGED <<delayed, self>> /\ \A h \in Hubs : h # self[t] => hub'[h] = hub[h]

LEMMA InstFailsKeeps ==
    ASSUME IInv, NotStuck, Entered, NEW t \in Hookers, pc[t] \in {"rewrite", "patch"},
           InstFails(t), UNCHANGED <<code, delayed, self>>
    PROVE  NotStuck' /\ Entered' /\ KeepsAll
<1> DEFINE r == hub[self[t]]
<1>1. /\ self[t] = tree /\ tree \in Hubs /\ r \in HubStates /\ r.mem = "live" /\ ~r.stuck
      /\ code = None /\ clock \in Nat
      /\ \A u \in Hookers : u # t => pc[u] \notin Holding
  BY DEF IInv, TypeOK, Locked, Head, InTree, Holding, NotStuck
<1>2. Moves(t, "destroy")
  BY GotoMoves DEF InstFails, IInv, Points
<1>3. hub'[tree] = [r EXCEPT !.orig = FALSE, !.enterFreed = clock] /\ \A h \in Hubs : h # tree => hub'[h] = hub[h]
  BY <1>1 DEF InstFails, IInv, TypeOK
<1>4. hub'[tree].mem = "live" /\ ~hub'[tree].stuck
  <2> HIDE DEF r
  <2> QED
    BY <1>1, <1>3, ServiceFields
<1>5. NotStuck'
  BY <1>3, <1>4 DEF NotStuck
<1>6. Entered'
  <2>1. ASSUME NEW u \in Hookers, pc'[u] \in {"insert", "rewrite", "patch", "add"}
        PROVE  hub'[self'[u]].enterFreed = Never
    <3>1. u # t /\ pc[u] = "insert"
      BY <1>1, <1>2, <2>1 DEF Moves, Holding
    <3>2. self[u] \in Hubs /\ self[u] # tree
      BY <3>1 DEF IInv, Owns, Owned, Detached
    <3> QED
      BY <1>3, <3>1, <3>2 DEF Entered
  <2> QED
    BY ZenonT(40), <1>1, <1>3, <1>4, <2>1 DEF Entered
<1>7. KeepsAll
  <2>1. ASSUME NEW h \in Hubs, InUse(h) PROVE KeepsFor(h)
    <3>1. h # tree
      BY <1>1, <2>1 DEF InUse, Early
    <3> QED
      BY <1>1, <1>2, <1>3, <2>1, <3>1 DEF InUse, KeepsFor, Moves, Early
  <2> QED
    BY <2>1 DEF KeepsAll
<1> QED
  BY <1>5, <1>6, <1>7

LEMMA HookCreateKeeps ==
    ASSUME IInv, NotStuck, Entered, NEW t \in Hookers, HookCreate(t)
    PROVE  NotStuck' /\ Entered' /\ KeepsAll
<1>0. TypeOK /\ UNCHANGED <<code, delayed>> /\ pc[t] = "create"
  BY DEF IInv, HookCreate
<1>1. ASSUME NEW h \in Hubs, hub[h].mem = "unused",
             hub' = [hub EXCEPT ![h].mem = "live", ![h].switch = "live"],
             SetSelf(t, h), Goto(t, "insert")
      PROVE  NotStuck' /\ Entered' /\ KeepsAll
  <2> DEFINE r == hub[h]
  <2>1. r \in HubStates /\ r.enterFreed = Never /\ ~r.stuck /\ h # code
    BY <1>0, <1>1 DEF TypeOK, Entered, NotStuck, IInv, Head, InTree
  <2>2. Moves(t, "insert") /\ SelfOf(t) /\ self'[t] = h
    BY <1>0, <1>1, GotoMoves DEF Points, SetSelf, SelfOf, TypeOK
  <2>3. hub'[h] = [r EXCEPT !.mem = "live", !.switch = "live"] /\ \A g \in Hubs : g # h => hub'[g] = hub[g]
    BY <1>0, <1>1 DEF TypeOK
  <2>4. hub'[h].enterFreed = Never /\ ~hub'[h].stuck
    <3> HIDE DEF r
    <3>1. 0 \in Nat
      OBVIOUS
    <3> QED
      BY <2>1, <2>3, <3>1, ServiceFields
  <2>5. NotStuck'
    BY <2>3, <2>4 DEF NotStuck
  <2>6. Entered'
    <3>1. ASSUME NEW u \in Hookers, pc'[u] \in {"insert", "rewrite", "patch", "add"}, u # t
          PROVE  hub'[self'[u]].enterFreed = Never
      <4>1. pc[u] \in {"insert", "rewrite", "patch", "add"} /\ self'[u] = self[u]
        BY <2>2, <3>1 DEF Moves, SelfOf
      <4>2. self[u] \in Hubs /\ hub[self[u]].mem = "live"
        BY <4>1 DEF IInv, TypeOK, Owns, Owned, Locked, InTree, Detached, Holding
      <4>3. self[u] # h /\ hub[self[u]].enterFreed = Never
        BY <1>1, <4>1, <4>2 DEF Entered
      <4> QED
        BY <2>3, <4>1, <4>2, <4>3
    <3>2. \A u \in Hookers : pc'[u] \in {"insert", "rewrite", "patch", "add"} => hub'[self'[u]].enterFreed = Never
      BY <2>2, <2>4, <3>1
    <3>3. code' # None => hub'[code'].enterFreed = Never
      BY <1>0, <2>1, <2>3 DEF Entered, TypeOK
    <3> QED
      BY <2>3, <2>4, <3>2, <3>3 DEF Entered
  <2>7. KeepsAll
    <3>1. ASSUME NEW g \in Hubs, InUse(g) PROVE KeepsFor(g)
      <4>1. g # h
        BY <1>1, <3>1 DEF InUse
      <4> QED
        BY <1>0, <2>2, <2>3, <3>1, <4>1 DEF InUse, KeepsFor, Moves, SelfOf
    <3> QED
      BY <3>1 DEF KeepsAll
  <2> QED
    BY <2>5, <2>6, <2>7
<1>2. ASSUME NEW where \in {"return", "abort"}, Goto(t, where), UNCHANGED <<hub, self>>
      PROVE  NotStuck' /\ Entered' /\ KeepsAll
  <2>1. Moves(t, where) /\ SelfOf(t) /\ where \in Points
    BY <1>0, <1>2, GotoMoves DEF Points, SelfOf, TypeOK
  <2> QED
    BY <1>0, <1>2, <2>1, UnchangedHubs, SameHubs DEF Early
<1> QED
  BY <1>1, <1>2 DEF HookCreate

LEMMA PatchKeeps ==
    ASSUME IInv, NotStuck, Entered, NEW t \in Hookers, HookRewrite(t) \/ HookPatch(t)
    PROVE  NotStuck' /\ Entered' /\ KeepsAll
<1>0. TypeOK /\ UNCHANGED <<delayed, self>> /\ SelfOf(t)
  BY DEF IInv, HookRewrite, HookPatch, SelfOf, TypeOK
<1>1. CASE pc[t] \in {"rewrite", "patch"} /\ InstFails(t) /\ UNCHANGED code
  BY <1>0, <1>1, InstFailsKeeps
<1>2. CASE HookPatch(t) /\ code' = self[t] /\ Goto(t, "add") /\ UNCHANGED <<tree, writer, hub, result>>
  <2>1. Moves(t, "add") /\ "add" \in Points /\ pc[t] = "patch"
    BY <1>0, <1>2, GotoMoves DEF Points, HookPatch
  <2>2. "add" \notin Early /\ SameOthers
    BY <1>2, UnchangedHubs DEF Early
  <2> QED
    BY <1>0, <1>2, <2>1, <2>2, SameHubs
<1>3. CASE /\ HookRewrite(t) /\ hub' = [hub EXCEPT ![self[t]].orig = TRUE]
           /\ Goto(t, "patch") /\ UNCHANGED <<tree, writer, result>>
  <2> DEFINE r == hub[self[t]]
  <2>1. /\ pc[t] = "rewrite" /\ self[t] = tree /\ tree \in Hubs /\ r \in HubStates
        /\ r.mem = "live" /\ ~r.stuck /\ r.enterFreed = Never /\ code' = code /\ code = None
    BY <1>0, <1>3 DEF HookRewrite, IInv, TypeOK, Locked, InTree, Head, Holding, NotStuck, Entered
  <2>2. Moves(t, "patch")
    BY <1>0, <1>3, GotoMoves DEF Points
  <2>3. hub'[tree] = [r EXCEPT !.orig = TRUE] /\ \A h \in Hubs : h # tree => hub'[h] = hub[h]
    BY <1>0, <1>3, <2>1 DEF TypeOK
  <2>4. hub'[tree].mem = "live" /\ ~hub'[tree].stuck /\ hub'[tree].enterFreed = Never
    <3> HIDE DEF r
    <3>1. 0 \in Nat
      OBVIOUS
    <3> QED
      BY <2>1, <2>3, <3>1, ServiceFields
  <2>5. NotStuck'
    BY <2>3, <2>4 DEF NotStuck
  <2>6. Entered'
    <3>1. ASSUME NEW u \in Hookers, pc'[u] \in {"insert", "rewrite", "patch", "add"}
          PROVE  hub'[self'[u]].enterFreed = Never
      <4>1. pc[u] \in {"insert", "rewrite", "patch", "add"} /\ self'[u] = self[u] /\ self[u] \in Hubs
        BY <1>0, <2>1, <2>2, <3>1 DEF Moves, IInv, TypeOK, Owns, Owned, Locked, Detached, Holding
      <4>2. hub[self[u]].enterFreed = Never
        BY <4>1 DEF Entered
      <4> QED
        BY <2>3, <2>4, <4>1, <4>2
    <3> QED
      BY <2>1, <2>3, <2>4, <3>1 DEF Entered
  <2>7. KeepsAll
    <3>1. ASSUME NEW g \in Hubs, InUse(g) PROVE KeepsFor(g)
      <4>1. g # tree
        BY <2>1, <3>1 DEF InUse, Early
      <4>2. self[t] # g
        BY <2>1, <4>1
      <4> QED
        BY <1>0, <2>2, <2>3, <3>1, <4>1, <4>2 DEF InUse, KeepsFor, Moves
    <3> QED
      BY <3>1 DEF KeepsAll
  <2> QED
    BY <2>5, <2>6, <2>7
<1> QED
  BY <1>1, <1>2, <1>3 DEF HookRewrite, HookPatch

LEMMA RestoreKeeps ==
    ASSUME IInv, NotStuck, Entered, NoLoss, NEW t \in Hookers, UnhookRestore(t)
    PROVE  NotStuck' /\ Entered' /\ KeepsAll
<1> DEFINE r == hub[tree]
<1>a. TypeOK /\ pc[t] = "restore" /\ writer = t /\ self[t] = tree /\ tree # None
  BY DEF UnhookRestore, IInv, Locked, Holding
<1>0. /\ pc[t] = "restore" /\ self[t] = tree /\ tree \in Hubs /\ r \in HubStates
      /\ r.mem = "live" /\ ~r.stuck /\ clock \in Nat
      /\ \A u \in Hookers : u # t => pc[u] \notin Holding
  BY <1>a DEF IInv, TypeOK, Locked, InTree, NotStuck
<1>1. /\ UNCHANGED <<delayed, self>> /\ code' = None
      /\ hub' = [hub EXCEPT ![tree].enterFreed = clock]
  BY <1>0 DEF UnhookRestore, Restored, Mismatch, Fault, NoLoss
<1>2. Moves(t, "destroy later")
  BY GotoMoves DEF UnhookRestore, IInv, Points
<1>3. hub'[tree] = [r EXCEPT !.enterFreed = clock] /\ \A h \in Hubs : h # tree => hub'[h] = hub[h]
  BY <1>0, <1>1 DEF IInv, TypeOK
<1>4. /\ hub'[tree].mem = "live" /\ ~hub'[tree].stuck /\ hub'[tree].orig = hub[tree].orig
      /\ hub'[tree].enterFreed = clock /\ hub'[tree].ts = hub[tree].ts
      /\ hub'[tree].trampoFreed = hub[tree].trampoFreed
  <2>1. r.mem = "live" /\ r.orig = hub[tree].orig /\ r.ts = hub[tree].ts /\ r.trampoFreed = hub[tree].trampoFreed
    BY <1>0
  <2> HIDE DEF r
  <2>2. /\ hub'[tree].mem = r.mem /\ hub'[tree].orig = r.orig /\ hub'[tree].enterFreed = clock
        /\ hub'[tree].ts = r.ts /\ hub'[tree].trampoFreed = r.trampoFreed
        /\ hub'[tree].stuck = r.stuck
    BY <1>0, <1>3, ServiceFields
  <2> QED
    BY <1>0, <2>1, <2>2
<1>5. NotStuck'
  BY <1>3, <1>4 DEF NotStuck
<1>6. Entered'
  <2>1. ASSUME NEW u \in Hookers, pc'[u] \in {"insert", "rewrite", "patch", "add"}
        PROVE  hub'[self'[u]].enterFreed = Never
    <3>1. u # t /\ pc[u] = "insert"
      BY <1>0, <1>2, <2>1 DEF Moves, Holding
    <3>2. self[u] \in Hubs /\ self[u] # tree
      BY <3>1 DEF IInv, Owns, Owned, Detached
    <3> QED
      BY <1>1, <1>3, <3>1, <3>2 DEF Entered
  <2> QED
    BY <1>1, <1>3, <1>4, <2>1 DEF Entered
<1>7. KeepsAll
  <2>1. ASSUME NEW h \in Hubs, InUse(h) PROVE KeepsFor(h)
    BY <1>0, <1>1, <1>2, <1>3, <1>4, <2>1 DEF InUse, KeepsFor, Moves, Early
  <2> QED
    BY <2>1 DEF KeepsAll
<1> QED
  BY <1>5, <1>6, <1>7

LEMMA HookAddKeeps ==
    ASSUME IInv, NotStuck, Entered, NoLoss, NEW t \in Hookers, HookAdd(t)
    PROVE  NotStuck' /\ Entered' /\ KeepsAll
<1>1. /\ TypeOK /\ UNCHANGED <<code, delayed>> /\ Goto(t, "return") /\ SetSelf(t, None)
      /\ hub' = [hub EXCEPT ![self[t]].enabled = {request[t].func},
                            ![self[t]].known = {request[t].func}]
  BY DEF HookAdd, Fault, NoLoss, IInv
<1>2. Moves(t, "return") /\ "return" \in Points /\ SelfOf(t) /\ self[t] \in Hubs
  BY <1>1, GotoMoves DEF HookAdd, Points, SelfOf, SetSelf, TypeOK, IInv, Locked, Holding
<1>3. SameOthers
  BY <1>1, <1>2, ProxiesChange
<1> QED
  BY <1>1, <1>2, <1>3, SameHubs DEF Early

LEMMA DestroyKeeps ==
    ASSUME IInv, NotStuck, Entered, NEW t \in Hookers, Destroy(t) \/ DestroyLater(t)
    PROVE  NotStuck' /\ Entered' /\ KeepsAll
<1>0. /\ UNCHANGED <<code, clock>> /\ SetSelf(t, None) /\ Goto(t, "return")
      /\ pc[t] \in Detached
  BY DEF Destroy, DestroyLater, Detached
<1>1. /\ UNCHANGED <<code, clock>> /\ SetSelf(t, None) /\ Goto(t, "return") /\ clock \in Nat
      /\ self[t] \in Hubs /\ self[t] # tree /\ code \in Hubs \union {None}
      /\ code # None => code = tree
  BY <1>0 DEF IInv, TypeOK, Owns, Owned, Head
<1>2. Moves(t, "return") /\ SelfOf(t)
  BY <1>1, GotoMoves DEF IInv, TypeOK, Points, SetSelf, SelfOf
<1>3. ASSUME NEW h \in Hubs
      PROVE  /\ hub'[h].enterFreed = hub[h].enterFreed /\ ~hub'[h].stuck
             /\ hub'[h].mem = "unused" => hub[h].mem = "unused"
             /\ InUse(h) => KeepsFor(h)
  <2> DEFINE r == hub[h]
  <2>1. r \in HubStates /\ ~r.stuck
    BY DEF IInv, TypeOK, NotStuck
  <2>2. CASE h # self[t] /\ h \notin Expired
    <3>1. hub'[h] = hub[h] /\ (h \in delayed' => h \in delayed)
      BY <2>2 DEF Destroy, DestroyLater
    <3> QED
      BY <1>1, <1>2, <2>1, <3>1 DEF InUse, KeepsFor, Moves, SelfOf, Early
  <2>3. CASE h # self[t] /\ h \in Expired
    <3>1. hub'[h] = [r EXCEPT !.mem = "freed"]
      BY <2>3 DEF Destroy, DestroyLater, Freed
    <3>2. hub'[h].mem = "freed" /\ hub'[h].enterFreed = r.enterFreed /\ hub'[h].stuck = r.stuck
      <4> HIDE DEF r
      <4> QED
        BY <1>1, <2>1, <3>1, ServiceFields
    <3> QED
      BY <2>1, <2>3, <3>2 DEF InUse
  <2>4. CASE h = self[t] /\ Destroy(t)
    <3>1. hub'[h] = [r EXCEPT !.mem = "freed", !.switch = "freed", !.trampoFreed = clock]
      BY <2>4 DEF Destroy
    <3>2. hub'[h].mem = "freed" /\ hub'[h].enterFreed = r.enterFreed /\ hub'[h].stuck = r.stuck
      <4> HIDE DEF r
      <4> QED
        BY <1>1, <2>1, <3>1, ServiceFields
    <3>3. ~InUse(h)
      BY <2>4 DEF Destroy, InUse, Early
    <3> QED
      BY <2>1, <3>2, <3>3
  <2>5. CASE h = self[t] /\ DestroyLater(t)
    <3>1. hub'[h] = [r EXCEPT !.ts = clock, !.switch = "freed", !.trampoFreed = clock]
      BY <2>5 DEF DestroyLater
    <3>2. /\ hub'[h].mem = r.mem /\ hub'[h].enterFreed = r.enterFreed /\ hub'[h].stuck = r.stuck
          /\ hub'[h].orig = r.orig /\ hub'[h].trampoFreed = clock /\ hub'[h].ts = clock
      <4> HIDE DEF r
      <4> QED
        BY <1>1, <2>1, <3>1, ServiceFields
    <3> QED
      BY <1>1, <1>2, <2>1, <3>2 DEF InUse, KeepsFor, Moves, SelfOf, Early
  <2> QED
    BY <2>2, <2>3, <2>4, <2>5
<1>4. NotStuck' /\ KeepsAll
  BY <1>3 DEF NotStuck, KeepsAll
<1>5. Entered'
  <2>1. ASSUME NEW u \in Hookers, pc'[u] \in {"insert", "rewrite", "patch", "add"}
        PROVE  hub'[self'[u]].enterFreed = Never
    <3>1. u # t /\ pc[u] \in {"insert", "rewrite", "patch", "add"} /\ self'[u] = self[u]
      BY <1>2, <2>1 DEF Moves, SelfOf
    <3>2. self[u] \in Hubs /\ hub[self[u]].enterFreed = Never
      BY <3>1 DEF IInv, TypeOK, Owns, Owned, Locked, Detached, Holding, Entered
    <3> QED
      BY <1>3, <3>1, <3>2
  <2>2. code' # None => hub'[code'].enterFreed = Never
    BY <1>1, <1>3 DEF Entered
  <2> QED
    BY <1>3, <2>1, <2>2 DEF Entered
<1> QED
  BY <1>4, <1>5

LEMMA BeginKeeps ==
    ASSUME IInv, NotStuck, Entered, NEW t \in Hookers, NEW op \in {"hook", "unhook"}, NEW f, Begin(t, op, f)
    PROVE  NotStuck' /\ Entered' /\ KeepsAll
<1>1. Goto(t, op) /\ UNCHANGED <<code, delayed, hub>> /\ SelfOf(t)
  BY DEF Begin, SelfOf, IInv, TypeOK
<1>2. Moves(t, op) /\ op \in Points /\ op \notin Early \union {"add"}
  BY <1>1, GotoMoves DEF IInv, Points, Early
<1> QED
  BY <1>1, <1>2, UnchangedHubs, SameHubs DEF Early

LEMMA HookersKeep ==
    ASSUME IInv, NotStuck, Entered, NoLoss, NEW t \in Hookers,
           Hooker(t) \/ \E op \in {"hook", "unhook"}, f \in Funcs : Begin(t, op, f)
    PROVE  NotStuck' /\ Entered' /\ KeepsAll /\ UNCHANGED <<clock, caller>>
<1>1. NotStuck' /\ Entered' /\ KeepsAll
  <2>1. CASE Hooker(t)
    BY <2>1, ReadersKeep, HookCreateKeeps, PatchKeeps, HookAddKeeps, RestoreKeeps, DestroyKeeps DEF Hooker
  <2>2. ASSUME NEW op \in {"hook", "unhook"}, NEW f \in Funcs, Begin(t, op, f)
        PROVE  NotStuck' /\ Entered' /\ KeepsAll
    BY <2>2, BeginKeeps
  <2> QED
    BY <2>1, <2>2
<1>2. UNCHANGED <<clock, caller>>
  BY DEF Hooker, Begin, HookFind, HookReadLen, HookCreate, HookInsert, HookRewrite, HookPatch,
         HookAdd, UnhookMissing, UnhookProxy, UnhookLast, UnhookRestore, Destroy, DestroyLater, Return
<1> QED
  BY <1>1, <1>2
-----------------------------------------------------------------------------
(* The calls *)

LEMMA HookersLeaveCalls ==
    ASSUME CInv, Patient, TypeOK', KeepsAll, UNCHANGED <<clock, caller>>, NEW c \in Callers
    PROVE  Calling(c)'
<1> DEFINE h == caller[c].hub
<1> DEFINE s == caller[c].since
<1>1. caller[c].at # "idle" => Relies(h, s)'
  <2> SUFFICES ASSUME caller[c].at # "idle" PROVE Relies(h, s)'
    OBVIOUS
  <2>1. caller[c] \in CallStates /\ clock \in Nat /\ Relies(h, s)
    BY DEF CInv, IInv, TypeOK, Calling
  <2>2. h \in Hubs /\ s \in Nat /\ clock - s <= HubDelay
    BY <2>1 DEF CInv, Calling, Patient, CallStates, Relies
  <2>3. h \notin Expired
    <3>1. hub[h] \in HubStates
      BY <2>2 DEF CInv, IInv, TypeOK
    <3>2. hub[h].ts \in Nat
      BY <3>1 DEF HubStates
    <3> QED
      BY <2>1, <2>2, <3>2 DEF Relies, Expired
  <2>4. KeepsFor(h)
    BY <2>1, <2>2, <2>3 DEF Relies, KeepsAll, InUse
  <2> QED
    BY <2>1, <2>2, <2>4 DEF Relies, KeepsFor
<1> QED
  BY <1>1 DEF CInv, Calling

LEMMA CallsOf ==
    ASSUME CInv, NEW c \in Callers
    PROVE  /\ clock \in Nat /\ caller[c].since \in Nat
           /\ caller[c].at \in {"idle", "trampo", "proxy", "enter"}
           /\ caller[c].hub \in Hubs =>
                /\ hub[caller[c].hub].enterFreed \in Nat \union {Never}
                /\ hub[caller[c].hub].trampoFreed \in Nat \union {Never}
<1>1. clock \in Nat /\ caller[c] \in CallStates
  BY DEF CInv, IInv, TypeOK
<1>2. caller[c].hub \in Hubs => hub[caller[c].hub] \in HubStates
  BY DEF CInv, IInv, TypeOK
<1> QED
  BY <1>1, <1>2 DEF CallStates, HubStates

LEMMA FetchRelies == CInv /\ code # None => Relies(code, clock)
<1> SUFFICES ASSUME CInv, code # None PROVE Relies(code, clock)
  OBVIOUS
<1>1. code = tree /\ hub[code].orig /\ code \in Hubs /\ clock \in Nat
  BY DEF CInv, IInv, Head, TypeOK
<1>2. hub[code].mem = "live" /\ hub[code].trampoFreed = Never /\ code \notin delayed
  BY <1>1 DEF CInv, IInv, InTree
<1>3. ASSUME NEW t \in Hookers, pc[t] \in Early PROVE self[t] # code
  <2>1. pc[t] \in Detached
    BY <1>3 DEF CInv, IInv, Head, Early, Detached
  <2> QED
    BY <1>1, <2>1 DEF CInv, IInv, Owns, Owned
<1> QED
  BY <1>1, <1>2, <1>3 DEF CInv, Entered, Relies

\* Where a call may go from where it is.
LEMMA CallersMove ==
    ASSUME CInv, Patient, NEW c \in Callers, Fetch(c) \/ PushStack(c) \/ Prev(c) \/ Leave(c)
    PROVE  \A d \in Callers : Calling(d)'
<1>1. UNCHANGED <<clock, code, hub, delayed, pc, self>> /\ caller \in [Callers -> CallStates]
  BY DEF Fetch, PushStack, Prev, Leave, CallerOnly, CInv, IInv, TypeOK
<1>2. \A h, s : Relies(h, s) => Relies(h, s)'
  BY <1>1 DEF Relies
<1>3. \A d \in Callers : d # c => caller'[d] = caller[d]
  BY <1>1 DEF Fetch, PushStack, Prev, Leave, Move
<1>4. Calling(c)'
  <2>1. CASE Fetch(c)
    <3>1. caller'[c] = [at |-> "trampo", hub |-> code, since |-> clock] /\ code # None
      BY <1>1, <2>1 DEF Fetch
    <3>2. Relies(code, clock)'
      BY <1>1, <1>2, <3>1, FetchRelies DEF Relies
    <3> QED
      BY <1>1, <3>1, <3>2, CallsOf DEF Calling, Patient
  <2>2. CASE PushStack(c) \/ Prev(c)
    <3>1. /\ caller'[c].at \in {"proxy", "enter"} /\ caller[c].at \in {"trampo", "proxy"}
          /\ caller'[c].hub = caller[c].hub /\ caller'[c].since = caller[c].since
      BY <1>1, <2>2 DEF PushStack, Prev, Move, CallStates
    <3> QED
      BY <1>1, <1>2, <3>1, CallsOf DEF CInv, Calling, Patient
  <2>3. CASE Leave(c)
    <3>1. caller'[c].at = "idle"
      BY <1>1, <2>3 DEF Leave, AtRest
    <3> QED
      BY <3>1 DEF Calling
  <2> QED
    BY <2>1, <2>2, <2>3
<1>5. ASSUME NEW d \in Callers, d # c PROVE Calling(d)'
  BY <1>1, <1>2, <1>3, <1>5 DEF CInv, Calling
<1> QED
  BY <1>4, <1>5

LEMMA TickKeeps == ASSUME CInv, Patient, Tick PROVE \A c \in Callers : Calling(c)'
<1>1. ASSUME NEW c \in Callers PROVE Calling(c)'
  <2>1. clock' = clock + 1 /\ UNCHANGED <<hub, delayed, pc, self, caller>>
    BY DEF Tick
  <2>2. Relies(caller[c].hub, caller[c].since) => Relies(caller[c].hub, caller[c].since)'
    BY <2>1, CallsOf DEF Relies
  <2>3. /\ caller[c].at = "trampo" => clock - caller[c].since < TrampoPatience
        /\ caller[c].at \in {"proxy", "enter"} => clock - caller[c].since < ProxyPatience
    BY DEF Tick
  <2> QED
    BY <2>1, <2>2, <2>3, CallsOf DEF CInv, Calling
<1> QED
  BY <1>1

LEMMA InitCInv == Init => CInv
<1> SUFFICES ASSUME Init PROVE CInv
  OBVIOUS
<1>1. NotStuck /\ Entered
  BY DEF Init, NotStuck, Entered, NewHub
<1>2. \A c \in Callers : Calling(c)
  BY DEF Init, Calling, AtRest
<1> QED
  BY <1>1, <1>2, InitIInv DEF CInv

LEMMA NextCInv == ASSUME Patient, NoLoss, CInv, [Next]_vars PROVE CInv'
<1>1. IInv'
  BY NextIInv DEF CInv
<1>2. CASE \E t \in Hookers : Hooker(t) \/ \E op \in {"hook", "unhook"}, f \in Funcs : Begin(t, op, f)
  <2>1. NotStuck' /\ Entered' /\ KeepsAll /\ UNCHANGED <<clock, caller>>
    BY <1>2, HookersKeep DEF CInv
  <2> QED
    BY <1>1, <2>1, HookersLeaveCalls DEF CInv, IInv
<1>3. CASE \E c \in Callers : Fetch(c) \/ PushStack(c) \/ Prev(c) \/ Leave(c)
  <2>1. NotStuck' /\ Entered'
    BY <1>3 DEF Fetch, PushStack, Prev, Leave, CallerOnly, CInv, NotStuck, Entered
  <2> QED
    BY <1>1, <1>3, <2>1, CallersMove DEF CInv
<1>4. CASE Tick
  <2>1. NotStuck' /\ Entered'
    BY <1>4 DEF Tick, CInv, NotStuck, Entered
  <2> QED
    BY <1>1, <1>4, <2>1, TickKeeps DEF CInv
<1>5. CASE UNCHANGED vars
  BY <1>1, <1>5 DEF vars, CInv, NotStuck, Entered, Calling, Relies
<1> QED
  BY <1>2, <1>3, <1>4, <1>5 DEF Next

LEMMA CallersAreSafeInCInv == ASSUME Patient, CInv PROVE CallersAreSafe
<1>1. ASSUME NEW c \in Callers
      PROVE  LET h == hub[caller[c].hub]
             IN  /\ caller[c].at = "trampo" =>
                      Resting(h.trampoFreed, TrampoDelay) /\ h.mem = "live"
                 /\ caller[c].at = "proxy" => h.mem = "live"
                 /\ caller[c].at = "enter" => h.orig /\ Resting(h.enterFreed, EnterDelay)
  BY CallsOf DEF CInv, Calling, Relies, Resting, Patient
<1> QED
  BY <1>1 DEF CallersAreSafe

(* No call of the function runs into freed memory, however many threads    *)
(* hook and unhook it meanwhile: provided that a call needs less time for  *)
(* each stretch of its way than the delay that protects it, and that no    *)
(* failure of a hook or unhook destroys a hub that was already patched in  *)
(* (sh_switch.cpp:208-224, sh_hub.cpp:176-216, the two trampolines).       *)
THEOREM CallersSafe == ASSUME Patient, NoLoss PROVE Spec => []CallersAreSafe
<1>1. CInv /\ [Next]_vars => CInv'
  BY NextCInv
<1>2. CInv => CallersAreSafe
  BY CallersAreSafeInCInv
<1> QED
  BY InitCInv, <1>1, <1>2, PTL DEF Spec
=============================================================================
