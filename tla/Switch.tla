------------------------------- MODULE Switch -------------------------------
(***************************************************************************)
(* sh_switch.cpp with sh_hub_create/destroy and sh_inst_hook/unhook, in    *)
(* SHARED mode, for one function: threads hook and unhook proxies while    *)
(* others call the function.                                               *)
(*                                                                         *)
(* The first hook creates a switch and its hub outside the lock, inserts   *)
(* it in the tree under the write lock, and patches the function to jump   *)
(* to the hub's trampoline.  The last unhook restores the function, and    *)
(* hands the hub over to a delayed destruction, because callers that       *)
(* fetched the patched code take no lock: only the time they need keeps    *)
(* the trampolines and the hub alive for them.                             *)
(*                                                                         *)
(* A hub, its switch and its two trampolines are named by one identifier,  *)
(* never used twice.  A trampoline stays valid for its delay after it was  *)
(* released: that is what SlotPool, implemented by Trampo, promises.       *)
(***************************************************************************)
EXTENDS Integers, FiniteSets

CONSTANTS
    Hookers,        \* threads that hook and unhook
    Callers,        \* threads that call the function
    Funcs,          \* proxy functions
    Hubs,           \* identifiers for the hubs that get created
    TrampoDelay,    \* SH_HUB_TRAMPO_DELAY_SEC
    EnterDelay,     \* SH_ENTER_DELAY_SEC
    HubDelay,       \* SH_HUB_DELAY_SEC
    TrampoPatience, \* a caller leaves the hub's trampoline within this time,
    ProxyPatience,  \* and has reached the original function within this one
    Faults,         \* the failures that may happen, see Fault
    MaxTime,        \* bound: the clock stops here
    MaxOps          \* bound: calls of hook and unhook

ASSUME DelayAssumption ==
    /\ TrampoDelay \in Nat /\ EnterDelay \in Nat /\ HubDelay \in Nat
    /\ TrampoPatience \in Nat /\ ProxyPatience \in Nat
    /\ MaxTime \in Nat /\ MaxOps \in Nat
ASSUME HubsAssumption == Hubs \subseteq Nat \ {0}

VARIABLES
    clock,
    tree,       \* the switch of the function in sh_switches, or None
    code,       \* the hub whose trampoline the function jumps to, or None
    writer,     \* the holder of sh_switches_lock for writing, or Nobody
    hub,        \* hub[h]: the hub, its switch and its two trampolines
    delayed,    \* sh_hub_delayed_destroy
    pc, request, result, self,  \* per hooker: control point and locals
    caller,     \* caller[c]: where the call is, in whose hub, since when
    ops

vars == <<clock, tree, code, writer, hub, delayed, pc, request, result, self,
          caller, ops>>

None == 0
Nobody == "nobody"
ASSUME HookersAssumption == Nobody \notin Hookers
Never == -1
Idle == [op |-> "none", func |-> "none"]
Unknown == "unknown"
AtRest == [at |-> "idle", hub |-> None, since |-> 0]

NewHub == [mem |-> "unused", switch |-> "unused", known |-> {}, enabled |-> {},
           orig |-> FALSE, ts |-> 0, trampoFreed |-> Never, enterFreed |-> Never,
           stuck |-> FALSE]     \* history: its jump could not be taken back

(***************************************************************************)
(* Failures of the environment: "create", no memory for a switch or a hub; *)
(* "inst", the function cannot be rewritten or patched; "proxy", no memory *)
(* for a proxy; "mismatch", at the unhook the function does not start with *)
(* the jump we wrote, because somebody else patched it since.              *)
(***************************************************************************)
Fault(what) == what \in Faults

Init ==
    /\ clock = 0
    /\ tree = None
    /\ code = None
    /\ writer = Nobody
    /\ hub = [h \in Hubs |-> NewHub]
    /\ delayed = {}
    /\ pc = [t \in Hookers |-> "idle"]
    /\ request = [t \in Hookers |-> Idle]
    /\ result = [t \in Hookers |-> Unknown]
    /\ self = [t \in Hookers |-> None]
    /\ caller = [c \in Callers |-> AtRest]
    /\ ops = 0

Goto(t, where) == pc' = [pc EXCEPT ![t] = where]
Answer(t, r) == result' = [result EXCEPT ![t] = r]
SetSelf(t, h) == self' = [self EXCEPT ![t] = h]
-----------------------------------------------------------------------------
(* Hookers *)

Begin(t, op, f) ==
    /\ pc[t] = "idle"
    /\ ops < MaxOps
    /\ Goto(t, op)
    /\ request' = [request EXCEPT ![t] = [op |-> op, func |-> f]]
    /\ ops' = ops + 1
    /\ UNCHANGED <<clock, tree, code, writer, hub, delayed, result, self, caller>>

\* sh_hub_add_proxy(h, f): enable a known proxy, add a new one or run out of
\* memory, and answer.
AddProxy(t, h, f) ==
    \/ f \in hub[h].enabled /\ Answer(t, "dup") /\ UNCHANGED hub
    \/ /\ f \notin hub[h].enabled /\ Answer(t, "ok")
       /\ hub' = [hub EXCEPT ![h].enabled = @ \union {f}, ![h].known = @ \union {f}]
    \/ /\ Fault("proxy") /\ f \notin hub[h].known
       /\ Answer(t, "error") /\ UNCHANGED hub

\* Lines 163-176: the read section.
HookFind(t) ==
    /\ pc[t] = "hook" /\ writer = Nobody
    /\ \/ /\ tree = None
          /\ Goto(t, "create")
          /\ UNCHANGED <<hub, result, self>>
       \/ /\ tree # None
          /\ AddProxy(t, tree, request[t].func)
          /\ SetSelf(t, tree)
          /\ Goto(t, "read len")
    /\ UNCHANGED <<clock, tree, code, writer, delayed, request, caller, ops>>

\* Line 173: backup_len is read from the switch after the section.
HookReadLen(t) ==
    /\ pc[t] = "read len"
    /\ SetSelf(t, None)
    /\ Goto(t, "return")
    /\ UNCHANGED <<clock, tree, code, writer, hub, delayed, request, result,
                   caller, ops>>

\* sh_switch_create.  When the hub cannot be created, line 95 passes the
\* address of the caller's local variable to free(), which aborts.
HookCreate(t) ==
    /\ pc[t] = "create"
    /\ \/ \E h \in Hubs :
            /\ hub[h].mem = "unused"
            /\ \A g \in Hubs : hub[g].mem = "unused" => h <= g
            /\ hub' = [hub EXCEPT ![h].mem = "live", ![h].switch = "live"]
            /\ SetSelf(t, h)
            /\ Goto(t, "insert")
            /\ UNCHANGED result
       \/ /\ Fault("create")
          /\ Answer(t, "error")
          /\ Goto(t, "return")
          /\ UNCHANGED <<hub, self>>
       \/ /\ Fault("create")
          /\ Goto(t, "abort")
          /\ UNCHANGED <<hub, self, result>>
    /\ UNCHANGED <<clock, tree, code, writer, delayed, request, caller, ops>>

\* Mutant: the result of RB_INSERT is not looked at.
HookInsert_Mutant(t) ==
    /\ pc[t] = "insert" /\ writer = Nobody
    /\ tree' = self[t]
    /\ writer' = t
    /\ Goto(t, "rewrite")
    /\ UNCHANGED <<clock, code, hub, delayed, request, result, self, caller, ops>>

\* Lines 185-194: the write lock, and another thread may have been faster.
HookInsert(t) ==
    /\ pc[t] = "insert" /\ writer = Nobody
    /\ \/ /\ tree # None
          /\ AddProxy(t, tree, request[t].func)
          /\ Goto(t, "destroy")
          /\ UNCHANGED <<tree, writer>>
       \/ /\ tree = None
          /\ tree' = self[t]
          /\ writer' = t
          /\ Goto(t, "rewrite")
          /\ UNCHANGED <<hub, result>>
    /\ UNCHANGED <<clock, code, delayed, request, self, caller, ops>>

\* Mutants: the switch is not marked useless; the lock is not released.
InstFails_Lost(t) ==
    /\ Fault("inst")
    /\ hub' = [hub EXCEPT ![self[t]].orig = FALSE, ![self[t]].enterFreed = clock]
    /\ tree' = None /\ writer' = Nobody
    /\ Answer(t, "error") /\ Goto(t, "return")

InstFails_NoUnlock(t) ==
    /\ Fault("inst")
    /\ hub' = [hub EXCEPT ![self[t]].orig = FALSE, ![self[t]].enterFreed = clock]
    /\ tree' = None /\ UNCHANGED writer
    /\ Answer(t, "error") /\ Goto(t, "destroy")

\* sh_inst_hook failed: orig_addr is cleared, the enter trampoline released.
InstFails(t) ==
    /\ Fault("inst")
    /\ hub' = [hub EXCEPT ![self[t]].orig = FALSE, ![self[t]].enterFreed = clock]
    /\ tree' = None
    /\ writer' = Nobody
    /\ Answer(t, "error")
    /\ Goto(t, "destroy")

\* sh_inst_hook: the enter trampoline is filled in and orig_addr published,
HookRewrite(t) ==
    /\ pc[t] = "rewrite"
    /\ \/ /\ hub' = [hub EXCEPT ![self[t]].orig = TRUE]
          /\ Goto(t, "patch")
          /\ UNCHANGED <<tree, writer, result>>
       \/ InstFails(t)
    /\ UNCHANGED <<clock, code, delayed, request, self, caller, ops>>

\* then the head of the function is overwritten.
HookPatch(t) ==
    /\ pc[t] = "patch"
    /\ \/ /\ code' = self[t]
          /\ Goto(t, "add")
          /\ UNCHANGED <<tree, writer, hub, result>>
       \/ InstFails(t) /\ UNCHANGED code
    /\ UNCHANGED <<clock, delayed, request, self, caller, ops>>

\* sh_inst_unhook restores the function and releases the enter trampoline, or
\* finds that the head of the function is not the jump that was written.
Restored(h) == code' = None /\ hub' = [hub EXCEPT ![h].enterFreed = clock]
Mismatch(h) ==
    Fault("mismatch") /\ hub' = [hub EXCEPT ![h].stuck = TRUE] /\ UNCHANGED code

\* Mutant: the function stays patched when the proxy cannot be added.
HookAdd_Mutant(t) ==
    /\ pc[t] = "add"
    /\ \/ /\ hub' = [hub EXCEPT ![self[t]].enabled = {request[t].func},
                                ![self[t]].known = {request[t].func}]
          /\ Answer(t, "ok") /\ SetSelf(t, None) /\ Goto(t, "return")
          /\ UNCHANGED tree
       \/ /\ Fault("proxy")
          /\ tree' = None
          /\ Answer(t, "error") /\ Goto(t, "destroy")
          /\ UNCHANGED <<hub, self>>
    /\ writer' = Nobody
    /\ UNCHANGED <<clock, code, delayed, request, caller, ops>>

\* Lines 208-221: the first proxy, still under the write lock.
HookAdd(t) ==
    /\ pc[t] = "add"
    /\ \/ /\ hub' = [hub EXCEPT ![self[t]].enabled = {request[t].func},
                                ![self[t]].known = {request[t].func}]
          /\ Answer(t, "ok")
          /\ SetSelf(t, None)
          /\ Goto(t, "return")
          /\ UNCHANGED <<tree, code>>
       \/ /\ Fault("proxy")
          /\ Restored(self[t]) \/ Mismatch(self[t])
          /\ tree' = None
          /\ Answer(t, "error")
          /\ Goto(t, "destroy")
          /\ UNCHANGED self
    /\ writer' = Nobody
    /\ UNCHANGED <<clock, delayed, request, caller, ops>>

\* sh_switch_unhook_shared, lines 296-325.
UnhookFinds(t) == tree # None /\ request[t].func \in hub[tree].known

UnhookMissing(t) ==
    /\ pc[t] = "unhook" /\ writer = Nobody
    /\ ~UnhookFinds(t)
    /\ Answer(t, "not found")
    /\ Goto(t, "return")
    /\ UNCHANGED <<clock, tree, code, writer, hub, delayed, request, self, caller, ops>>

UnhookProxy(t) ==
    /\ pc[t] = "unhook" /\ writer = Nobody
    /\ UnhookFinds(t)
    /\ hub[tree].enabled \ {request[t].func} # {}
    /\ hub' = [hub EXCEPT ![tree].enabled = @ \ {request[t].func}]
    /\ Answer(t, "ok")
    /\ Goto(t, "return")
    /\ UNCHANGED <<clock, tree, code, writer, delayed, request, self, caller, ops>>

\* The last proxy is disabled under the write lock, and callers already skip
\* it while the function is still patched.
UnhookLast(t) ==
    /\ pc[t] = "unhook" /\ writer = Nobody
    /\ UnhookFinds(t)
    /\ hub[tree].enabled \ {request[t].func} = {}
    /\ hub' = [hub EXCEPT ![tree].enabled = {}]
    /\ writer' = t
    /\ SetSelf(t, tree)
    /\ Answer(t, "ok")
    /\ Goto(t, "restore")
    /\ UNCHANGED <<clock, tree, code, delayed, request, caller, ops>>

\* Then the function is restored; the switch leaves the tree in any case.
UnhookRestore(t) ==
    /\ pc[t] = "restore"
    /\ \/ Restored(self[t]) /\ UNCHANGED result
       \/ Mismatch(self[t]) /\ Answer(t, "error")
    /\ tree' = None
    /\ writer' = Nobody
    /\ Goto(t, "destroy later")
    /\ UNCHANGED <<clock, delayed, request, self, caller, ops>>

\* Mutant: >= instead of >.
Expired_Mutant == {h \in delayed : clock - hub[h].ts >= HubDelay}

\* sh_hub_destroy: the delayed hubs whose time has come are freed first.
Expired == {h \in delayed : clock - hub[h].ts > HubDelay}

Freed(h) == [hub[h] EXCEPT !.mem = "freed"]

\* The useless switch of a hook: no delay.
Destroy(t) ==
    /\ pc[t] = "destroy"
    /\ hub' = [h \in Hubs |->
                IF h = self[t]
                THEN [hub[h] EXCEPT !.mem = "freed", !.switch = "freed",
                                    !.trampoFreed = clock]
                ELSE IF h \in Expired THEN Freed(h) ELSE hub[h]]
    /\ delayed' = delayed \ Expired
    /\ SetSelf(t, None)
    /\ Goto(t, "return")
    /\ UNCHANGED <<clock, tree, code, writer, request, result, caller, ops>>

\* The switch of an unhook: its memory and the trampoline are released at
\* once, the hub waits.
DestroyLater(t) ==
    /\ pc[t] = "destroy later"
    /\ hub' = [h \in Hubs |->
                IF h = self[t]
                THEN [hub[h] EXCEPT !.ts = clock, !.switch = "freed",
                                    !.trampoFreed = clock]
                ELSE IF h \in Expired THEN Freed(h) ELSE hub[h]]
    /\ delayed' = (delayed \ Expired) \union {self[t]}
    /\ SetSelf(t, None)
    /\ Goto(t, "return")
    /\ UNCHANGED <<clock, tree, code, writer, request, result, caller, ops>>

Return(t) ==
    /\ pc[t] = "return"
    /\ request' = [request EXCEPT ![t] = Idle]
    /\ Answer(t, Unknown)
    /\ Goto(t, "idle")
    /\ UNCHANGED <<clock, tree, code, writer, hub, delayed, self, caller, ops>>

Hooker(t) ==
    \/ HookFind(t) \/ HookReadLen(t) \/ HookCreate(t) \/ HookInsert(t)
    \/ HookRewrite(t) \/ HookPatch(t) \/ HookAdd(t)
    \/ UnhookMissing(t) \/ UnhookProxy(t) \/ UnhookLast(t) \/ UnhookRestore(t)
    \/ Destroy(t) \/ DestroyLater(t) \/ Return(t)
-----------------------------------------------------------------------------
(* Callers of the function, while it is patched *)

Move(c, where) == caller' = [caller EXCEPT ![c].at = where]
CallerOnly == UNCHANGED <<clock, tree, code, writer, hub, delayed, pc, request,
                          result, self, ops>>

\* The jump at the head of the function is executed.
Fetch(c) ==
    /\ caller[c].at = "idle" /\ code # None
    /\ caller' = [caller EXCEPT ![c] = [at |-> "trampo", hub |-> code, since |-> clock]]
    /\ CallerOnly

\* The trampoline calls sh_hub_push_stack(hub): a proxy if one is enabled, or
\* the original (always, when the call is recursive; see Hub).
PushStack(c) ==
    /\ caller[c].at = "trampo"
    /\ \/ hub[caller[c].hub].enabled # {} /\ Move(c, "proxy")
       \/ Move(c, "enter")
    /\ CallerOnly

\* sh_hub_get_prev_func: the next proxy, or the original.
Prev(c) ==
    /\ caller[c].at = "proxy"
    /\ Move(c, "enter")
    /\ CallerOnly

\* The call leaves the enter trampoline, or its proxy never goes there.
Leave(c) ==
    /\ caller[c].at \in {"proxy", "enter"}
    /\ caller' = [caller EXCEPT ![c] = AtRest]
    /\ CallerOnly

\* Time passes, unless a caller has used up its patience.
Tick ==
    /\ clock < MaxTime
    /\ \A c \in Callers :
        /\ caller[c].at = "trampo" => clock - caller[c].since < TrampoPatience
        /\ caller[c].at \in {"proxy", "enter"} => clock - caller[c].since < ProxyPatience
    /\ clock' = clock + 1
    /\ UNCHANGED <<tree, code, writer, hub, delayed, pc, request, result, self,
                   caller, ops>>

Next ==
    \/ \E t \in Hookers, op \in {"hook", "unhook"}, f \in Funcs : Begin(t, op, f)
    \/ \E t \in Hookers : Hooker(t)
    \/ \E c \in Callers : Fetch(c) \/ PushStack(c) \/ Prev(c) \/ Leave(c)
    \/ Tick

Spec == Init /\ [][Next]_vars
FairSpec == Spec /\ \A t \in Hookers : WF_vars(Hooker(t))
-----------------------------------------------------------------------------
HubStates ==
    [mem : {"unused", "live", "freed"}, switch : {"unused", "live", "freed"},
     known : SUBSET Funcs, enabled : SUBSET Funcs, orig : BOOLEAN, ts : Nat,
     trampoFreed : Nat \union {Never}, enterFreed : Nat \union {Never}, stuck : BOOLEAN]
Points == {"idle", "hook", "read len", "create", "insert", "rewrite", "patch", "add",
           "unhook", "restore", "destroy", "destroy later", "return", "abort"}
Requests == [op : {"none", "hook", "unhook"}, func : Funcs \union {"none"}]
Results == {Unknown, "ok", "dup", "not found", "error"}
CallStates == [at : {"idle", "trampo", "proxy", "enter"},
               hub : Hubs \union {None}, since : Nat]

TypeOK ==
    /\ clock \in 0..MaxTime
    /\ tree \in Hubs \union {None}
    /\ code \in Hubs \union {None}
    /\ writer \in Hookers \union {Nobody}
    /\ hub \in [Hubs -> HubStates]
    /\ delayed \subseteq Hubs
    /\ pc \in [Hookers -> Points]
    /\ request \in [Hookers -> Requests]
    /\ result \in [Hookers -> Results]
    /\ self \in [Hookers -> Hubs \union {None}]
    /\ caller \in [Callers -> CallStates]
    /\ ops \in 0..MaxOps

Resting(freed, delay) == freed = Never \/ clock - freed <= delay

(* No call runs into freed memory: while it is in the hub's trampoline the *)
(* slot has not been given to another hub and the hub exists, a proxy can  *)
(* still walk the list of its hub, and the original function is reached    *)
(* through an enter trampoline that was filled in and is not yet reused.   *)
CallersAreSafe == \A c \in Callers :
    LET h == hub[caller[c].hub]
    IN  /\ caller[c].at = "trampo" =>
            Resting(h.trampoFreed, TrampoDelay) /\ h.mem = "live"
        /\ caller[c].at = "proxy" => h.mem = "live"
        /\ caller[c].at = "enter" => h.orig /\ Resting(h.enterFreed, EnterDelay)

(* The patch and the bookkeeping agree: a patched function has its switch  *)
(* in the tree, with a live hub whose original address is known, and       *)
(* whenever nobody holds the write lock it is patched exactly if one of    *)
(* the proxies is enabled; until somebody else patches the function too.   *)
PatchedIffHooked == (\A h \in Hubs : ~hub[h].stuck) =>
    /\ code # None =>
        /\ tree = code
        /\ hub[code].mem = "live" /\ hub[code].switch = "live" /\ hub[code].orig
        /\ hub[code].trampoFreed = Never
    /\ writer = Nobody =>
        /\ code = tree
        /\ tree # None => hub[tree].enabled # {}

(* A hub is never lost: whatever the order of hooks, unhooks and failures, *)
(* when no thread is working on it, it is in the tree, waiting for its     *)
(* destruction, or freed.                                                  *)
NoHubIsLost == \A h \in Hubs :
    hub[h].mem = "live" =>
        \/ h = tree /\ hub[h].switch = "live"
        \/ h \in delayed /\ hub[h].switch = "freed"
        \/ \E t \in Hookers : self[t] = h /\ pc[t] # "read len"

(* The switch that hook found in the tree is read within the section that  *)
(* the comments of lines 163 and 171 mark as synchronised: nobody has      *)
(* freed it when backup_len is read.                                       *)
SwitchReadIsSafe == \A t \in Hookers :
    pc[t] = "read len" => hub[self[t]].switch = "live"

(* Every hook and unhook returns, on every failing path too: the lock is   *)
(* given back, unless the process has aborted.                             *)
OpsReturn ==
    [](\A t \in Hookers : pc[t] # "abort") =>
        \A t \in Hookers : (pc[t] # "idle") ~> (pc[t] = "idle")

(* The concurrent switches implement the atomic registry of hooks.         *)
Registry == INSTANCE HookRegistry WITH
    hooks <- IF tree = None THEN {} ELSE hub[tree].enabled
RegistrySpec == Registry!Spec
=============================================================================
