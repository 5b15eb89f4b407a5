---------------------------- MODULE DlopenMonitor ----------------------------
(***************************************************************************)
(* How the dlopen monitor is started: sh_task_start_monitor with           *)
(* sh_linker_hook_dlopen, called by every hook that has to wait for its    *)
(* library ("pending"), and, in UNIQUE mode, by every hook of the linker's *)
(* do_dlopen itself ("dlopen"), whose own hook and unhook go through       *)
(* sh_switch_hook_unique and sh_switch_unhook_unique.                      *)
(*                                                                         *)
(* Both initialisations are done once, by the first caller, behind a flag  *)
(* that is also read without the lock.  Android 5.0 or later: do_dlopen is *)
(* hooked with the linker's g_dl_mutex held; the linker holds it while it  *)
(* runs the constructors of a library, and a constructor may hook.         *)
(***************************************************************************)
EXTENDS Naturals, Sequences, SequencesExt

CONSTANTS
    Threads,    \* threads that hook and unhook
    InCtor,     \* those that do it from the constructor of a library
    Modes,      \* the modes of shadowhook_init: "SHARED", "UNIQUE" or both
    Faults,     \* what may fail: "init", "arch", "patch", "eventfd", "thread"
    MaxOps      \* bound: calls

Nobody == "nobody"
Us == "shadowhook"      \* owner of the monitor's own patch

ASSUME ConstantsAssumption ==
    /\ Nobody \notin Threads /\ Us \notin Threads
    /\ InCtor \subseteq Threads
    /\ Modes \subseteq {"SHARED", "UNIQUE"}
    /\ MaxOps \in Nat

VARIABLES
    dlopen_hooked,  \* sh_linker_dlopen_hooked
    result,         \* result of sh_linker_hook_dlopen
    hook_lock,      \* holder of its lock, or Nobody
    dl_mutex,       \* holder of g_dl_mutex, or Nobody
    post_dlopen,    \* the callback was saved
    patches,        \* jumps written over the head of do_dlopen, newest last
    switch,         \* UNIQUE mode: the thread whose switch is in sh_switches
    thread_started, started_result, \* of sh_task_start_monitor
    start_lock,     \* holder of its lock, or Nobody
    monitors,       \* monitor threads created
    pc, op, answer, \* per thread: control point, call and its answer
    ops,
    mode        \* shadowhook_mode, chosen once

vars == <<dlopen_hooked, result, hook_lock, dl_mutex, post_dlopen, patches,
          switch, thread_started, started_result, start_lock, monitors,
          pc, op, answer, ops, mode>>
linkerVars == <<dlopen_hooked, result, hook_lock, post_dlopen>>
threadVars == <<thread_started, started_result, start_lock, monitors>>

Fault(what) == what \in Faults

Init ==
    /\ dlopen_hooked = FALSE /\ result = "monitor dlopen failed"
    /\ hook_lock = Nobody /\ dl_mutex = Nobody
    /\ post_dlopen = FALSE
    /\ patches = <<>>
    /\ switch = Nobody
    /\ thread_started = FALSE /\ started_result = "monitor thread failed"
    /\ start_lock = Nobody
    /\ monitors = 0
    /\ pc = [t \in Threads |-> "idle"]
    /\ op = [t \in Threads |-> "none"]
    /\ answer = [t \in Threads |-> "none"]
    /\ ops = 0
    /\ mode \in Modes

Goto(t, where) == pc' = [pc EXCEPT ![t] = where]
Answer(t, r) == answer' = [answer EXCEPT ![t] = r]
-----------------------------------------------------------------------------
\* A constructor runs with g_dl_mutex held; the call is over before it returns.
Begin(t, what, first) ==
    /\ pc[t] = "idle" /\ ops < MaxOps
    /\ IF t \in InCtor THEN dl_mutex = Nobody /\ dl_mutex' = t ELSE UNCHANGED dl_mutex
    /\ Goto(t, first)
    /\ op' = [op EXCEPT ![t] = what]
    /\ Answer(t, "none")
    /\ ops' = ops + 1
    /\ UNCHANGED <<linkerVars, threadVars, patches, switch, mode>>

\* A hook whose library is not loaded starts the monitor and its thread.
BeginPending(t) == Begin(t, "pending", "hook dlopen")

\* UNIQUE mode: a hook of do_dlopen.  sh_linker_need_to_hook_dlopen reads the
\* flag without its lock.
BeginDlopen(t) ==
    /\ mode = "UNIQUE" /\ switch # t
    /\ Begin(t, "dlopen", IF dlopen_hooked THEN "switch hook" ELSE "hook dlopen")

BeginUnhook(t) ==
    /\ mode = "UNIQUE" /\ switch = t
    /\ Begin(t, "unhook", "switch unhook")

\* What sh_task_hook does with the answer of sh_task_start_monitor.
Started(t, r) ==
    /\ Answer(t, r)
    /\ Goto(t, IF r # "ok" THEN "return"
               ELSE IF op[t] = "pending" THEN "start" ELSE "switch hook")

\* sh_linker_hook_dlopen: the flag without the lock,
HookedAlready(t) ==
    /\ pc[t] = "hook dlopen"
    /\ IF dlopen_hooked THEN Started(t, result) ELSE Goto(t, "lock") /\ UNCHANGED answer
    /\ UNCHANGED <<linkerVars, threadVars, dl_mutex, patches, switch, op, ops, mode>>

\* Mutant: the flag is not read again.
HookLocked_Mutant(t) ==
    /\ pc[t] = "lock" /\ hook_lock = Nobody
    /\ hook_lock' = t /\ dlopen_hooked' = TRUE /\ Goto(t, "init")
    /\ UNCHANGED <<result, post_dlopen, answer>>
    /\ UNCHANGED <<threadVars, dl_mutex, patches, switch, op, ops, mode>>

\* and with it; the flag is set before the hooking.
HookLocked(t) ==
    /\ pc[t] = "lock" /\ hook_lock = Nobody
    /\ IF dlopen_hooked
       THEN Started(t, result) /\ UNCHANGED <<hook_lock, dlopen_hooked>>
       ELSE /\ hook_lock' = t
            /\ dlopen_hooked' = TRUE
            /\ Goto(t, "init")
            /\ UNCHANGED answer
    /\ UNCHANGED <<result, post_dlopen>>
    /\ UNCHANGED <<threadVars, dl_mutex, patches, switch, op, ops, mode>>

\* Mutant: the failing path returns with the lock held.
HookInit_Mutant(t) ==
    /\ pc[t] = "init"
    /\ \/ post_dlopen' = TRUE /\ Goto(t, "patch") /\ UNCHANGED answer
       \/ Fault("init") /\ mode = "SHARED" /\ Started(t, result) /\ UNCHANGED post_dlopen
    /\ UNCHANGED <<dlopen_hooked, result, hook_lock>>
    /\ UNCHANGED <<threadVars, dl_mutex, patches, switch, op, ops, mode>>

\* SHARED mode looks up the linker's symbols now; the callback is saved.
HookInit(t) ==
    /\ pc[t] = "init"
    /\ \/ post_dlopen' = TRUE /\ Goto(t, "patch") /\ UNCHANGED <<hook_lock, answer>>
       \/ /\ Fault("init") /\ mode = "SHARED"
          /\ hook_lock' = Nobody
          /\ Started(t, result)
          /\ UNCHANGED post_dlopen
    /\ UNCHANGED <<dlopen_hooked, result>>
    /\ UNCHANGED <<threadVars, dl_mutex, patches, switch, op, ops, mode>>

\* The hook itself, with g_dl_mutex, which is recursive.
HookPatch(t) ==
    /\ pc[t] = "patch"
    /\ \/ /\ dl_mutex \in {Nobody, t}
          /\ \/ patches' = Append(patches, Us) /\ Goto(t, "hooked")
             \/ Fault("patch") /\ Goto(t, "failed") /\ UNCHANGED patches
          /\ UNCHANGED result
       \/ /\ Fault("arch")
          /\ result' = "linker arch mismatch"
          /\ Goto(t, "failed")
          /\ UNCHANGED patches
    /\ UNCHANGED <<dlopen_hooked, hook_lock, post_dlopen>>
    /\ UNCHANGED <<threadVars, dl_mutex, switch, op, answer, ops, mode>>

\* Mutant: the failure of the hook is not looked at.
HookEnd_Mutant(t) ==
    /\ pc[t] \in {"hooked", "failed"}
    /\ result' = "ok"
    /\ hook_lock' = Nobody
    /\ Started(t, result')
    /\ UNCHANGED <<dlopen_hooked, post_dlopen>>
    /\ UNCHANGED <<threadVars, dl_mutex, patches, switch, op, ops, mode>>

HookEnd(t) ==
    /\ pc[t] \in {"hooked", "failed"}
    /\ result' = IF pc[t] = "hooked" THEN "ok" ELSE result
    /\ hook_lock' = Nobody
    /\ Started(t, result')
    /\ UNCHANGED <<dlopen_hooked, post_dlopen>>
    /\ UNCHANGED <<threadVars, dl_mutex, patches, switch, op, ops, mode>>

\* sh_task_start_monitor: the same for the thread, but its flag is set last.
StartedAlready(t) ==
    /\ pc[t] = "start"
    /\ IF thread_started THEN Answer(t, started_result) /\ Goto(t, "return")
       ELSE Goto(t, "start lock") /\ UNCHANGED answer
    /\ UNCHANGED <<linkerVars, threadVars, dl_mutex, patches, switch, op, ops, mode>>

StartLocked(t) ==
    /\ pc[t] = "start lock" /\ start_lock = Nobody
    /\ start_lock' = t
    /\ Goto(t, IF thread_started THEN "start end" ELSE "create")
    /\ UNCHANGED <<thread_started, started_result, monitors>>
    /\ UNCHANGED <<linkerVars, dl_mutex, patches, switch, op, answer, ops, mode>>

StartCreate(t) ==
    /\ pc[t] = "create"
    /\ \/ monitors' = monitors + 1 /\ started_result' = "ok"
       \/ Fault("eventfd") /\ UNCHANGED <<monitors, started_result>>
       \/ Fault("thread") /\ UNCHANGED <<monitors, started_result>>
    /\ Goto(t, "start end")
    /\ UNCHANGED <<thread_started, start_lock>>
    /\ UNCHANGED <<linkerVars, dl_mutex, patches, switch, op, answer, ops, mode>>

StartEnd(t) ==
    /\ pc[t] = "start end"
    /\ thread_started' = TRUE
    /\ start_lock' = Nobody
    /\ Answer(t, started_result)
    /\ Goto(t, "return")
    /\ UNCHANGED <<started_result, monitors>>
    /\ UNCHANGED <<linkerVars, dl_mutex, patches, switch, op, ops, mode>>

\* sh_switch_hook_unique: one hook per function, not counting the monitor's.
SwitchHook(t) ==
    /\ pc[t] = "switch hook"
    /\ \/ /\ switch # Nobody
          /\ Answer(t, "dup")
          /\ UNCHANGED <<switch, patches>>
       \/ /\ switch = Nobody
          /\ switch' = t
          /\ patches' = Append(patches, t)
          /\ Answer(t, "ok")
       \/ /\ switch = Nobody /\ Fault("patch")
          /\ Answer(t, "hook failed")
          /\ UNCHANGED <<switch, patches>>
    /\ Goto(t, "return")
    /\ UNCHANGED <<linkerVars, threadVars, dl_mutex, op, ops, mode>>

\* sh_switch_unhook_unique: the head must still be the jump that was written;
\* the switch is gone either way.
SwitchUnhook(t) ==
    /\ pc[t] = "switch unhook"
    /\ IF Last(patches) = t
       THEN patches' = Front(patches) /\ Answer(t, "ok")
       ELSE Answer(t, "trampo mismatch") /\ UNCHANGED patches
    /\ switch' = Nobody
    /\ Goto(t, "return")
    /\ UNCHANGED <<linkerVars, threadVars, dl_mutex, op, ops, mode>>

Return(t) ==
    /\ pc[t] = "return"
    /\ dl_mutex' = IF t \in InCtor THEN Nobody ELSE dl_mutex
    /\ Goto(t, "idle")
    /\ UNCHANGED <<linkerVars, threadVars, patches, switch, op, answer, ops, mode>>

Step(t) ==
    \/ HookedAlready(t) \/ HookLocked(t) \/ HookInit(t) \/ HookPatch(t) \/ HookEnd(t)
    \/ StartedAlready(t) \/ StartLocked(t) \/ StartCreate(t) \/ StartEnd(t)
    \/ SwitchHook(t) \/ SwitchUnhook(t) \/ Return(t)

Next == \E t \in Threads :
    BeginPending(t) \/ BeginDlopen(t) \/ BeginUnhook(t) \/ Step(t)

Spec == Init /\ [][Next]_vars
FairSpec == Spec /\ \A t \in Threads : WF_vars(Step(t))
-----------------------------------------------------------------------------
Results == {"none", "ok", "monitor dlopen failed", "linker arch mismatch",
            "monitor thread failed", "dup", "hook failed", "trampo mismatch"}

HookSection == {"init", "patch", "hooked", "failed"}
StartSection == {"create", "start end"}
Points == {"idle", "hook dlopen", "lock", "start", "start lock", "switch hook",
           "switch unhook", "return"} \union HookSection \union StartSection

LockHolders == \A t \in Threads :
    /\ hook_lock = t <=> pc[t] \in HookSection
    /\ start_lock = t <=> pc[t] \in StartSection

LinkerTypeOK ==
    /\ dlopen_hooked \in BOOLEAN /\ post_dlopen \in BOOLEAN
    /\ result \in Results
    /\ hook_lock \in Threads \union {Nobody}

StartTypeOK ==
    /\ thread_started \in BOOLEAN
    /\ started_result \in Results
    /\ start_lock \in Threads \union {Nobody}
    /\ monitors \in Nat

PatchTypeOK ==
    /\ dl_mutex \in Threads \union {Nobody}
    /\ switch \in Threads \union {Nobody}
    /\ patches \in Seq(Threads \union {Us})

CallTypeOK ==
    /\ pc \in [Threads -> Points]
    /\ op \in [Threads -> {"none", "pending", "dlopen", "unhook"}]
    /\ answer \in [Threads -> Results]

Typed ==
    /\ LinkerTypeOK /\ StartTypeOK /\ PatchTypeOK /\ CallTypeOK
    /\ LockHolders
    /\ ops \in 0..MaxOps

TypeOK == Typed /\ mode \in Modes

OursIn(s) == {i \in DOMAIN s : s[i] = Us}

(* However many hooks race to start it, there is at most one monitor:      *)
(* do_dlopen carries at most one patch of ours and one thread listens.     *)
OneMonitor == (\A i, j \in OursIn(patches) : i = j) /\ monitors <= 1

(* A hook that is accepted as pending is monitored: do_dlopen is patched,  *)
(* the thread it wakes up exists and the callback between them is set.     *)
AcceptedIsMonitored == \A t \in Threads :
    pc[t] = "return" /\ op[t] = "pending" /\ answer[t] = "ok" =>
        OursIn(patches) # {} /\ monitors = 1 /\ post_dlopen

(* Every call returns, whoever wins the races, with or without failures,   *)
(* as long as no constructor hooks: one waits for the lock of the thread   *)
(* that waits for its g_dl_mutex.                                          *)
OpsReturn ==
    [](\A t \in InCtor : pc[t] = "idle") =>
        \A t \in Threads : (pc[t] # "idle") ~> (pc[t] = "idle")

=============================================================================
