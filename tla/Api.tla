-------------------------------- MODULE Api --------------------------------
(***************************************************************************)
(* The surface of the library: shadowhook_init and the hooks by address of *)
(* shadowhook.cpp, with the tasks and the records behind them, and on top  *)
(* of it HookUtils.cpp, which hooks with Dobby or with ShadowHook and      *)
(* keeps a list of what it hooked.                                         *)
(*                                                                         *)
(* HookUtils has no lock of its own and one thread uses it, Main; other    *)
(* threads (Java through sh_jni.cpp, or native code) call ShadowHook at    *)
(* the same time.  The switch of a function is the set of its proxies, one *)
(* per thread, which Switch implements; Dobby is the list of the functions *)
(* its Interceptor has.                                                    *)
(***************************************************************************)
EXTENDS Recorder, FiniteSets

CONSTANTS
    Main,           \* the thread that uses HookUtils
    Funcs,          \* functions to hook
    Stubs,          \* addresses of tasks, in the order malloc hands them out
    Budgets         \* bounds: how many calls each thread makes

ASSUME MainAssumption == Main \in Threads
ASSUME BudgetsAssumption == Budgets \subseteq [Threads -> Nat]
ASSUME StubsAssumption == Stubs \subseteq Nat \ {0}
\* What is recorded: the library of a hook, its function, the caller's library.
ASSUME StringsAssumption == {"lib"} \union Funcs \union Threads \subseteq DOMAIN StrSize

VARIABLES
    initErrno,      \* shadowhook_init_errno
    mode,           \* shadowhook_mode
    initLock,       \* the lock in shadowhook_init
    inits,          \* history: how often its body was entered
    switches,       \* switches[a]: the threads whose proxies are hooked on a
    tasks,          \* tasks[s]: the task at s, or NoTask
    model, isInted, \* HOOKUTILS_MODEL, isInted
    hookedList,
    dobby,          \* the functions in Dobby's Interceptor
    mixed,          \* history: unHook met an entry of the other model
    call,           \* call[t]: the call thread t is in
    calls           \* calls[t]: how many it may still make

initVars == <<initErrno, mode, initLock, inits>>
hookVars == <<switches, tasks>>
utilVars == <<model, isInted, hookedList, dobby, mixed>>
vars == <<recorderVars, initVars, hookVars, utilVars, call, calls>>

NULL == 0
NoTask == [by |-> Nobody]
\* arg: what the call is about; stub, ok: its task and its outcome; back: the
\* call of HookUtils that it serves, or "user".
Idle == [at |-> "idle", arg |-> NULL, stub |-> NULL, ok |-> FALSE, back |-> "user"]

Init ==
    /\ RecorderInit
    /\ initErrno = "uninit" /\ mode = "shared" /\ initLock = Nobody /\ inits = 0
    /\ switches = [a \in Funcs |-> {}]
    /\ tasks = [s \in Stubs |-> NoTask]
    /\ model = "dobby" /\ isInted = FALSE /\ hookedList = <<>> /\ dobby = {}
    /\ mixed = FALSE
    /\ call = [t \in Threads |-> Idle]
    /\ calls \in Budgets

At(t, where) == ~crashed /\ call[t].at = where
Goto(t, where) == call' = [call EXCEPT ![t].at = where]

\* t calls an operation that begins at where, with argument x.
Begin(t, where, x) ==
    /\ At(t, "idle") /\ calls[t] > 0
    /\ calls' = [calls EXCEPT ![t] = @ - 1]
    /\ call' = [call EXCEPT ![t].at = where, ![t].arg = x]
    /\ UNCHANGED <<recorderVars, initVars, hookVars, utilVars>>
-----------------------------------------------------------------------------
(* shadowhook_init *)

\* The result goes to the user, or to Hooker, which takes note of a success.
InitReturn(t, r) ==
    IF call[t].back = "Hooker"
    THEN /\ call' = [call EXCEPT ![t].at = "Hooker list"]
         /\ isInted' = (r = "ok")
         /\ UNCHANGED <<model, hookedList, dobby, mixed>>
    ELSE call' = [call EXCEPT ![t] = Idle] /\ UNCHANGED utilVars

InitCheck(t) ==
    /\ At(t, "init")
    /\ IF initErrno = "uninit" THEN Goto(t, "init lock") /\ UNCHANGED utilVars
       ELSE InitReturn(t, initErrno)
    /\ UNCHANGED <<recorderVars, initVars, hookVars, calls>>

\* Mutant: the check is not made again under the lock.
InitBody_Mutant(t) ==
    /\ At(t, "init lock") /\ initLock = Nobody
    /\ initLock' = t
    /\ mode' = IF call[t].back = "Hooker" THEN "unique" ELSE call[t].arg
    /\ inits' = inits + 1
    /\ Goto(t, "init mods")
    /\ UNCHANGED <<initErrno, utilVars, recorderVars, hookVars, calls>>

InitBody(t) ==
    /\ At(t, "init lock") /\ initLock = Nobody
    /\ IF initErrno = "uninit"
       THEN /\ initLock' = t
            /\ mode' = IF call[t].back = "Hooker" THEN "unique" ELSE call[t].arg
            /\ inits' = inits + 1
            /\ Goto(t, "init mods")
            /\ UNCHANGED <<initErrno, utilVars>>
       ELSE InitReturn(t, initErrno) /\ UNCHANGED initVars
    /\ UNCHANGED <<recorderVars, hookVars, calls>>

\* Mutant: the path of a failure forgets the lock.
InitEnd_Mutant(t) ==
    /\ At(t, "init mods")
    /\ \E r \in {"ok", "failed"} :
         /\ initLock' = IF r = "ok" THEN Nobody ELSE initLock
         /\ initErrno' = r /\ InitReturn(t, r)
    /\ UNCHANGED <<recorderVars, mode, inits, hookVars, calls>>

\* The modules are initialised, or one of them fails.
InitEnd(t) ==
    /\ At(t, "init mods")
    /\ initLock' = Nobody
    /\ \E r \in {"ok", "failed"} : initErrno' = r /\ InitReturn(t, r)
    /\ UNCHANGED <<recorderVars, mode, inits, hookVars, calls>>
-----------------------------------------------------------------------------
(* shadowhook_hook_func_addr *)

CallerLib(t) == t
Free(s) == tasks[s] = NoTask

\* The result goes to the user, or to Hooker, which lists a success.
HookReturn(t, ok) ==
    /\ call' = [call EXCEPT ![t] = Idle]
    /\ IF call[t].back = "Hooker" /\ ok
       THEN /\ hookedList' = Append(hookedList, [orig |-> call[t].arg, ret |-> call[t].stub,
                                                 module |-> "shadowhook"])
            /\ UNCHANGED <<model, isInted, dobby, mixed>>
       ELSE UNCHANGED utilVars

\* sh_task_create_by_target_addr, when the library is initialised.
HookCreate(t) ==
    /\ At(t, "hook")
    /\ \/ /\ initErrno = "ok"
          /\ \E s \in Stubs :
               /\ Free(s) /\ \A r \in Stubs : Free(r) => s <= r
               /\ tasks' = [tasks EXCEPT ![s] = [by |-> t, addr |-> call[t].arg]]
               /\ call' = [call EXCEPT ![t].at = "hook switch", ![t].stub = s]
          /\ UNCHANGED utilVars
       \/ HookReturn(t, FALSE) /\ UNCHANGED tasks     \* not initialised, or no memory
    /\ UNCHANGED <<recorderVars, initVars, switches, calls>>

\* sh_task_hook: find the library of the address, hook, and record.
HookSwitch(t) ==
    /\ At(t, "hook switch")
    /\ LET a == call[t].arg
           dup == IF mode = "unique" THEN switches[a] # {} ELSE t \in switches[a]
       IN  \E ok \in BOOLEAN :
             /\ ok => ~dup
             /\ switches' = IF ok THEN [switches EXCEPT ![a] = @ \union {t}] ELSE switches
             /\ call' = [call EXCEPT ![t].at = "hook recorded", ![t].ok = ok]
             /\ Record(t, "hook", ok, call[t].stub, <<"lib", a, CallerLib(t)>>)
    /\ UNCHANGED <<strings, records, stringsLock, recordsLock, recordable, error, crashed,
                   initVars, tasks, utilVars, calls>>

\* A task that could not be hooked is destroyed.
HookEnd(t) ==
    /\ At(t, "hook recorded") /\ rec[t] = Quiet
    /\ tasks' = IF call[t].ok THEN tasks ELSE [tasks EXCEPT ![call[t].stub] = NoTask]
    /\ HookReturn(t, call[t].ok)
    /\ UNCHANGED <<recorderVars, initVars, switches, calls>>
-----------------------------------------------------------------------------
(* shadowhook_unhook *)

Without(list, i) == SubSeq(list, 1, i - 1) \o SubSeq(list, i + 1, Len(list))

\* Mutant: the branch of ShadowHook forgets to take the entry out.
UnhookReturn_Mutant(t) == call' = [call EXCEPT ![t] = Idle] /\ UNCHANGED utilVars

\* unHook takes the entry out of its list, whatever the result.
UnhookReturn(t) ==
    /\ call' = [call EXCEPT ![t] = Idle]
    /\ IF call[t].back = "unHook"
       THEN /\ \E i \in DOMAIN hookedList :
                 /\ hookedList[i].ret = call[t].stub
                 /\ hookedList' = Without(hookedList, i)
            /\ UNCHANGED <<model, isInted, dobby, mixed>>
       ELSE UNCHANGED utilVars

\* Mutant: the task is destroyed before the unhook is recorded.
UnhookSwitch_Mutant(t) ==
    /\ At(t, "unhook")
    /\ LET s == call[t].arg
           a == tasks[s].addr
           left == IF mode = "unique" THEN {} ELSE switches[a] \ {t}
       IN  \E ok \in BOOLEAN :
             /\ ~ok => left = {} /\ a \in dobby
             /\ switches' = [switches EXCEPT ![a] = left]
             /\ tasks' = [tasks EXCEPT ![s] = NoTask]
             /\ call' = [call EXCEPT ![t].at = "unhook recorded", ![t].stub = s, ![t].ok = ok]
             /\ Record(t, "unhook", ok, s, <<CallerLib(t)>>)
    /\ UNCHANGED <<strings, records, stringsLock, recordsLock, recordable, error, crashed,
                   initVars, utilVars, calls>>

\* sh_task_unhook.  In UNIQUE mode the switch goes; in SHARED mode the proxy.  A
\* function that Dobby has patched since cannot be restored.
UnhookSwitch(t) ==
    /\ At(t, "unhook")
    /\ LET s == call[t].arg
           a == tasks[s].addr
           left == IF mode = "unique" THEN {} ELSE switches[a] \ {t}
       IN  \E ok \in BOOLEAN :
             /\ ~ok => left = {} /\ a \in dobby
             /\ switches' = [switches EXCEPT ![a] = left]
             /\ call' = [call EXCEPT ![t].at = "unhook recorded", ![t].stub = s, ![t].ok = ok]
             /\ Record(t, "unhook", ok, s, <<CallerLib(t)>>)
    /\ UNCHANGED <<strings, records, stringsLock, recordsLock, recordable, error, crashed,
                   initVars, tasks, utilVars, calls>>

\* The task is destroyed, whatever the result.
UnhookEnd(t) ==
    /\ At(t, "unhook recorded") /\ rec[t] = Quiet
    /\ tasks' = [tasks EXCEPT ![call[t].stub] = NoTask]
    /\ UnhookReturn(t)
    /\ UNCHANGED <<recorderVars, initVars, switches, calls>>
-----------------------------------------------------------------------------
(* Records *)

GetRecords(t) ==
    /\ At(t, "records")
    /\ Output(t, call[t].arg)
    /\ Goto(t, "records got")
    /\ UNCHANGED <<strings, records, stringsLock, recordsLock, recordable, error, crashed,
                   initVars, hookVars, utilVars, calls>>

GotRecords(t) ==
    /\ At(t, "records got") /\ rec[t].at \in {"quiet", "got"}
    /\ rec' = [rec EXCEPT ![t] = Quiet]
    /\ call' = [call EXCEPT ![t] = Idle]
    /\ UNCHANGED <<strings, records, stringsLock, recordsLock, recordable, error, missed,
                   crashed, initVars, hookVars, utilVars, calls>>

Recording(t) ==
    /\ ~crashed
    /\ RecorderStep(t)
    /\ UNCHANGED <<initVars, hookVars, utilVars, call, calls>>

SetRecordable(t) ==
    /\ At(t, "set recordable")
    /\ recordable' = call[t].arg
    /\ call' = [call EXCEPT ![t] = Idle]
    /\ UNCHANGED <<strings, records, stringsLock, recordsLock, error, rec, missed, crashed,
                   initVars, hookVars, utilVars, calls>>
-----------------------------------------------------------------------------
(* HookUtils *)

\* Mutant: an entry of the other framework does not count.
Listed_Mutant(a) == \E i \in DOMAIN hookedList : hookedList[i].orig = a /\ hookedList[i].module = model

Listed(a) == \E i \in DOMAIN hookedList : hookedList[i].orig = a

\* Lines 113-131.  Dobby needs no initialisation and counts as having made it.
Hooker ==
    /\ At(Main, "Hooker")
    /\ IF ~isInted /\ model = "shadowhook"
       THEN call' = [call EXCEPT ![Main].at = "init", ![Main].back = "Hooker"] /\ UNCHANGED isInted
       ELSE Goto(Main, "Hooker list") /\ isInted' = TRUE
    /\ UNCHANGED <<recorderVars, initVars, hookVars, model, hookedList, dobby, mixed, calls>>

\* Dobby patches a function once; DobbyDestroy restores it if it has it.
DobbyHook(a) == a \notin dobby /\ dobby' = dobby \union {a}
DobbyDestroy(a) == dobby' = dobby \ {a}

\* Lines 133-174.
HookerHook ==
    /\ At(Main, "Hooker list")
    /\ LET a == call[Main].arg
       IN  \/ /\ Listed(a) /\ call' = [call EXCEPT ![Main] = Idle]
              /\ UNCHANGED <<hookedList, dobby>>
           \/ /\ ~Listed(a) /\ model = "shadowhook"
              /\ call' = [call EXCEPT ![Main].at = "hook", ![Main].back = "Hooker"]
              /\ UNCHANGED <<hookedList, dobby>>
           \/ /\ ~Listed(a) /\ model = "dobby" /\ DobbyHook(a)
              /\ hookedList' = Append(hookedList, [orig |-> a, ret |-> NULL, module |-> "dobby"])
              /\ call' = [call EXCEPT ![Main] = Idle]
           \/ /\ ~Listed(a) /\ model = "dobby"      \* it has the function, or cannot patch it
              /\ call' = [call EXCEPT ![Main] = Idle]
              /\ UNCHANGED <<hookedList, dobby>>
    /\ UNCHANGED <<recorderVars, initVars, hookVars, model, isInted, mixed, calls>>

\* An entry is found by the function that Dobby hooked, or by ShadowHook's stub.
Matches(e, x) == IF e.module = "dobby" THEN e.orig = x ELSE e.ret = x
Found(i, x) == Matches(hookedList[i], x) /\ \A j \in 1..i - 1 : ~Matches(hookedList[j], x)

\* The framework that is asked is the one of the moment, not the one of the entry.
UnHook ==
    /\ At(Main, "unHook")
    /\ LET x == call[Main].arg
       IN  \/ /\ \A i \in DOMAIN hookedList : ~Matches(hookedList[i], x)
              /\ call' = [call EXCEPT ![Main] = Idle]
              /\ UNCHANGED <<hookedList, dobby, mixed>>
           \/ \E i \in DOMAIN hookedList :
                /\ Found(i, x)
                /\ mixed' = (mixed \/ hookedList[i].module # model)
                /\ IF model = "shadowhook" /\ hookedList[i].ret # NULL /\ initErrno = "ok"
                   THEN /\ call' = [call EXCEPT ![Main].at = "unhook",
                                                ![Main].arg = hookedList[i].ret, ![Main].back = "unHook"]
                        /\ UNCHANGED <<hookedList, dobby>>
                   ELSE /\ IF model = "dobby" THEN DobbyDestroy(hookedList[i].orig) ELSE UNCHANGED dobby
                        /\ hookedList' = Without(hookedList, i)
                        /\ call' = [call EXCEPT ![Main] = Idle]
    /\ UNCHANGED <<recorderVars, initVars, hookVars, model, isInted, calls>>

SetHookerModle ==
    /\ At(Main, "set model")
    /\ model' = call[Main].arg
    /\ call' = [call EXCEPT ![Main] = Idle]
    /\ UNCHANGED <<recorderVars, initVars, hookVars, isInted, hookedList, dobby, mixed, calls>>
-----------------------------------------------------------------------------
\* Main knows functions, and the stubs of its hooks from the records only.
MainCalls ==
    \/ \E a \in Funcs : Begin(Main, "Hooker", a)
    \/ \E a \in Funcs : Begin(Main, "unHook", a)
    \/ \E s \in Stubs : tasks[s].by = Main /\ Begin(Main, "unHook", s)
    \/ \E m \in {"dobby", "shadowhook"} : Begin(Main, "set model", m)

UserCalls(t) ==
    \/ \E m \in {"shared", "unique"} : Begin(t, "init", m)
    \/ \E a \in Funcs : Begin(t, "hook", a)
    \/ \E s \in Stubs : tasks[s].by = t /\ initErrno = "ok" /\ Begin(t, "unhook", s)
    \/ \E to \in {"string", "fd"} : Begin(t, "records", to)
    \/ \E b \in BOOLEAN : Begin(t, "set recordable", b)

Step(t) ==
    \/ InitCheck(t) \/ InitBody(t) \/ InitEnd(t)
    \/ HookCreate(t) \/ HookSwitch(t) \/ HookEnd(t)
    \/ UnhookSwitch(t) \/ UnhookEnd(t)
    \/ GetRecords(t) \/ GotRecords(t) \/ SetRecordable(t) \/ Recording(t)
    \/ t = Main /\ (Hooker \/ HookerHook \/ UnHook \/ SetHookerModle)

Next ==
    \/ MainCalls
    \/ \E t \in Threads \ {Main} : UserCalls(t)
    \/ \E t \in Threads : Step(t)

Spec == Init /\ [][Next]_vars
FairSpec == Spec /\ \A t \in Threads : WF_vars(Step(t))
-----------------------------------------------------------------------------
(* Properties *)

CallPoints == {"idle", "init", "init lock", "init mods", "hook", "hook switch",
               "hook recorded", "unhook", "unhook recorded", "records", "records got",
               "set recordable", "Hooker", "Hooker list", "unHook", "set model"}

\* Types, and the locks: each is held by the thread that is in its section.
TypeOK ==
    /\ initErrno \in {"uninit", "ok", "failed"} /\ mode \in {"shared", "unique"}
    /\ inits \in Nat /\ isInted \in BOOLEAN /\ mixed \in BOOLEAN
    /\ model \in {"dobby", "shadowhook"} /\ dobby \subseteq Funcs
    /\ switches \in [Funcs -> SUBSET Threads]
    /\ DOMAIN tasks = Stubs /\ \A s \in Stubs : tasks[s].by \in Threads \union {Nobody}
    /\ \A t \in Threads :
         /\ call[t].at \in CallPoints
         /\ initLock = t <=> call[t].at = "init mods"
         /\ recordsLock = t <=> rec[t].at \in {"lock strings", "lines", "unlock"}
         /\ stringsLock = t <=> rec[t].at \in {"lines", "unlock"}
    /\ strings.sz <= strings.cap /\ strings.cap <= StringsMax
    /\ records.sz <= records.cap /\ records.cap <= RecordsMax

\* When nothing was lost, the log replays to the hooks there are: the last record
\* of a task's address says that it is hooked exactly if it is, though addresses
\* are used again and the threads' sections interleave; the state keeps its types.
LogReplays ==
    /\ TypeOK
    /\ LET About(n, s) == records.seq[n].stub = s
           Last(n, s) == About(n, s) /\ \A m \in n + 1..Len(records.seq) : ~About(m, s)
           SaidHooked(s) == \E n \in DOMAIN records.seq :
                               Last(n, s) /\ records.seq[n].op = "hook" /\ records.seq[n].ok
       IN  ~missed /\ ~error =>
             \A s \in Stubs : (\A t \in Threads : call[t].stub # s) =>
               (SaidHooked(s) <=> tasks[s] # NoTask)

\* Between two calls of HookUtils every entry of its list is a hook of its
\* framework that is in force, and, as long as unHook met only entries of the
\* current model, every hook of its thread is in the list.
ListMatchesHooks ==
    call[Main].at = "idle" =>
      /\ \A i \in DOMAIN hookedList :
           LET e == hookedList[i]
           IN  IF e.module = "dobby" THEN e.orig \in dobby
               ELSE tasks[e.ret] = [by |-> Main, addr |-> e.orig] /\ Main \in switches[e.orig]
      /\ ~mixed => \A a \in Funcs : a \in dobby \/ Main \in switches[a] => Listed(a)

\* HookUtils hooks no function with both frameworks ("to prevent a function from
\* being hooked several times", HookUtils.cpp:31), unless unHook asked the wrong one.
OneHookPerFunction ==
    \A a \in Funcs : a \in dobby /\ Main \in switches[a] => mixed

\* The mode is chosen and the modules are initialised once, by one thread, before
\* any hook: no second call of shadowhook_init changes the mode under a hook.
InitIsOnce ==
    [][inits' # inits \/ mode' # mode =>
         inits = 0 /\ initErrno = "uninit" /\ \A s \in Stubs : tasks[s] = NoTask]_vars

\* Every call returns, on every path of the recorder too: no failure keeps a lock.
CallsReturn == \A t \in Threads : call[t].at # "idle" ~> (call[t].at = "idle" \/ crashed)
=============================================================================
