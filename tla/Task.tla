-------------------------------- MODULE Task --------------------------------
(***************************************************************************)
(* sh_task.cpp: hooks by library and symbol name.  If the library is not   *)
(* loaded the hook becomes a pending task in a queue; the proxy of         *)
(* do_dlopen notifies the monitor thread through an eventfd, which looks   *)
(* at every loaded library for tasks it can finish.                        *)
(*                                                                         *)
(* Starting the monitor is one step here; DlopenMonitor has the details.   *)
(* The linker (external) holds g_dl_mutex while it loads a library, looks  *)
(* one up, or iterates over them.  Libraries are not unloaded.             *)
(***************************************************************************)
EXTENDS Integers, Sequences, SequencesExt, FiniteSets

CONSTANTS
    Users,      \* threads that hook and unhook
    Loaders,    \* threads that call dlopen
    Libs,       \* libraries
    MaxTasks,   \* bound: calls of hook
    Faults      \* what may fail: "symbol", "monitor", "switch"

ASSUME ConstantsAssumption == MaxTasks \in Nat /\ Users \intersect Loaders = {}

VARIABLES
    loaded,     \* the loaded libraries, in the order of the linker
    dl_mutex,   \* who holds it, or Nobody
    monitored,  \* do_dlopen is hooked and the monitor thread runs
    task,       \* task[k]: the task of the k-th call of hook
    tasks,      \* the queue sh_tasks
    lock,       \* sh_tasks_lock: the writer or the monitor, or Nobody
    unfinished, \* sh_tasks_unfinished_cnt
    event,      \* the eventfd is readable
    user,       \* user[u]: control point and current task
    loader,     \* loader[l]: the library it loads, and whether through the proxy
    mon         \* the monitor thread: control point, libraries and tasks left

vars == <<loaded, dl_mutex, monitored, task, tasks, lock, unfinished, event,
          user, loader, mon>>

Nobody == "nobody"
Monitor == "monitor"
Stubs == 1..MaxTasks
Fault(what) == what \in Faults
Loaded == ToSet(loaded)

NoLib == "no library"
NotLoading == [via |-> "none", lib |-> NoLib]
NoTask == [mem |-> "unused", lib |-> NoLib, finished |-> FALSE,
           error |-> FALSE, hooked |-> FALSE]

Init ==
    /\ loaded = <<>>
    /\ dl_mutex = Nobody
    /\ monitored = "no"
    /\ task = [k \in Stubs |-> NoTask]
    /\ tasks = <<>>
    /\ lock = Nobody
    /\ unfinished = 0
    /\ event = FALSE
    /\ user = [u \in Users |-> [pc |-> "idle", k |-> 0]]
    /\ loader = [l \in Loaders |-> NotLoading]
    /\ mon = [pc |-> "poll", libs |-> <<>>, todo |-> <<>>]

Goto(u, where) == user' = [user EXCEPT ![u].pc = where]
-----------------------------------------------------------------------------
(* Users *)

HookBegin(u, lib) == \E k \in Stubs :
    /\ user[u].pc = "idle"
    /\ task[k].mem = "unused" /\ \A j \in Stubs : task[j].mem = "unused" => k <= j
    /\ task' = [task EXCEPT ![k] = [NoTask EXCEPT !.mem = "live", !.lib = lib]]
    /\ user' = [user EXCEPT ![u] = [pc |-> "lookup", k |-> k]]
    /\ UNCHANGED <<loaded, dl_mutex, monitored, tasks, lock, unfinished, event, loader, mon>>

\* The hook failed: shadowhook.cpp destroys the task and returns NULL.
Refuse(u) ==
    /\ task' = [task EXCEPT ![user[u].k].mem = "freed"]
    /\ Goto(u, "idle")

\* sh_linker_get_dlinfo_by_sym_name
Lookup(u) ==
    /\ user[u].pc = "lookup" /\ dl_mutex = Nobody
    /\ \/ task[user[u].k].lib \in Loaded /\ Goto(u, "switch") /\ UNCHANGED task
       \/ task[user[u].k].lib \in Loaded /\ Fault("symbol") /\ Refuse(u)
       \/ task[user[u].k].lib \notin Loaded /\ Goto(u, "monitor") /\ UNCHANGED task
    /\ UNCHANGED <<loaded, dl_mutex, monitored, tasks, lock, unfinished, event, loader, mon>>

\* Mutant: do_dlopen is patched while a library is being loaded.
StartMonitor_Mutant(u) ==
    /\ user[u].pc = "monitor"
    /\ \/ monitored # "failed" /\ monitored' = "yes" /\ Goto(u, "enqueue") /\ UNCHANGED task
       \/ monitored = "failed" /\ Refuse(u) /\ UNCHANGED monitored
    /\ UNCHANGED <<loaded, dl_mutex, tasks, lock, unfinished, event, loader, mon>>

\* sh_task_start_monitor, which is tried only once; the patch is written with
\* g_dl_mutex held.
StartMonitor(u) ==
    /\ user[u].pc = "monitor"
    /\ \/ /\ monitored = "yes" \/ (monitored = "no" /\ dl_mutex = Nobody)
          /\ monitored' = "yes"
          /\ Goto(u, "enqueue")
          /\ UNCHANGED task
       \/ /\ monitored = "failed" \/ (monitored = "no" /\ Fault("monitor"))
          /\ monitored' = "failed"
          /\ Refuse(u)
    /\ UNCHANGED <<loaded, dl_mutex, tasks, lock, unfinished, event, loader, mon>>

\* Mutant: finished is not set.
SwitchHook_Mutant(u) ==
    /\ user[u].pc = "switch"
    /\ \/ task' = [task EXCEPT ![user[u].k].hooked = TRUE] /\ Goto(u, "enqueue")
       \/ Fault("switch") /\ Refuse(u)
    /\ UNCHANGED <<loaded, dl_mutex, monitored, tasks, lock, unfinished, event, loader, mon>>

SwitchHook(u) ==
    /\ user[u].pc = "switch"
    /\ \/ /\ task' = [task EXCEPT ![user[u].k].hooked = TRUE, ![user[u].k].finished = TRUE]
          /\ Goto(u, "enqueue")
       \/ Fault("switch") /\ Refuse(u)
    /\ UNCHANGED <<loaded, dl_mutex, monitored, tasks, lock, unfinished, event, loader, mon>>

\* The write section of sh_task_hook; then the stub is returned.
Enqueue(u) ==
    /\ user[u].pc = "enqueue" /\ lock = Nobody
    /\ tasks' = Append(tasks, user[u].k)
    /\ unfinished' = IF task[user[u].k].finished THEN unfinished ELSE unfinished + 1
    /\ Goto(u, "idle")
    /\ UNCHANGED <<loaded, dl_mutex, monitored, task, lock, event, loader, mon>>

\* Mutants: unhooking a pending task does not count it out; any task is
\* counted out; the lock is not taken.
Dequeue_NoCount(u, k) ==
    /\ user[u].pc = "idle" /\ lock = Nobody
    /\ \E i \in DOMAIN tasks : tasks[i] = k /\ tasks' = RemoveAt(tasks, i)
    /\ user' = [user EXCEPT ![u] = [pc |-> "unhook", k |-> k]]
    /\ UNCHANGED <<loaded, dl_mutex, monitored, task, lock, unfinished, event, loader, mon>>

Dequeue_NoLock(u, k) ==
    /\ user[u].pc = "idle"
    /\ \E i \in DOMAIN tasks : tasks[i] = k /\ tasks' = RemoveAt(tasks, i)
    /\ unfinished' = IF task[k].finished THEN unfinished ELSE unfinished - 1
    /\ user' = [user EXCEPT ![u] = [pc |-> "unhook", k |-> k]]
    /\ UNCHANGED <<loaded, dl_mutex, monitored, task, lock, event, loader, mon>>

\* The write section of sh_task_unhook, for a stub that was returned.
Dequeue(u, k) ==
    /\ user[u].pc = "idle" /\ lock = Nobody
    /\ \E i \in DOMAIN tasks : tasks[i] = k /\ tasks' = RemoveAt(tasks, i)
    /\ unfinished' = IF task[k].finished THEN unfinished ELSE unfinished - 1
    /\ user' = [user EXCEPT ![u] = [pc |-> "unhook", k |-> k]]
    /\ UNCHANGED <<loaded, dl_mutex, monitored, task, lock, event, loader, mon>>

\* Only a task that was finished without error is unhooked; the stub is
\* destroyed in any case.
Unhook(u) ==
    /\ user[u].pc = "unhook"
    /\ LET k == user[u].k
       IN  task' = [task EXCEPT ![k].mem = "freed",
                        ![k].hooked = @ /\ ~(task[k].finished /\ ~task[k].error)]
    /\ Goto(u, "idle")
    /\ UNCHANGED <<loaded, dl_mutex, monitored, tasks, lock, unfinished, event, loader, mon>>

UserStep(u) ==
    \/ Lookup(u) \/ StartMonitor(u) \/ SwitchHook(u) \/ Enqueue(u) \/ Unhook(u)
-----------------------------------------------------------------------------
(* Loaders: do_dlopen, called by the linker with g_dl_mutex held *)

Load(l, lib) ==
    /\ loader[l] = NotLoading /\ dl_mutex = Nobody /\ lib \notin Loaded
    /\ dl_mutex' = l
    /\ loader' = [loader EXCEPT ![l] =
                    [via |-> IF monitored = "yes" THEN "proxy" ELSE "original", lib |-> lib]]
    /\ UNCHANGED <<loaded, monitored, task, tasks, lock, unfinished, event, user, mon>>

Loads(l, via) ==
    /\ loader[l].via = via
    /\ loaded' = Append(loaded, loader[l].lib)
    /\ dl_mutex' = Nobody
    /\ loader' = [loader EXCEPT ![l] = NotLoading]
    /\ UNCHANGED <<monitored, task, tasks, lock, unfinished, user, mon>>

\* The call went through the proxy: sh_task_post_dlopen_callback.
PostDlopen(l) == Loads(l, "proxy") /\ event' = (event \/ unfinished > 0)

\* The function was not hooked when it was called.
NoPostDlopen(l) == Loads(l, "original") /\ UNCHANGED event
-----------------------------------------------------------------------------
(* The monitor thread *)

MonGoto(where) == mon' = [mon EXCEPT !.pc = where]

Poll ==
    /\ mon.pc = "poll" /\ monitored = "yes" /\ event
    /\ event' = FALSE
    /\ MonGoto("iterate")
    /\ UNCHANGED <<loaded, dl_mutex, monitored, task, tasks, lock, unfinished, user, loader>>

\* xdl_iterate_phdr calls sh_task_hook_pending for every loaded library.
Iterate ==
    /\ mon.pc = "iterate" /\ dl_mutex = Nobody
    /\ dl_mutex' = Monitor
    /\ mon' = [mon EXCEPT !.pc = "library", !.libs = loaded]
    /\ UNCHANGED <<loaded, monitored, task, tasks, lock, unfinished, event, user, loader>>

NextLibrary ==
    /\ mon.pc = "library" /\ mon.libs # <<>> /\ lock = Nobody
    /\ lock' = Monitor
    /\ mon' = [mon EXCEPT !.pc = "tasks", !.todo = tasks]
    /\ UNCHANGED <<loaded, dl_mutex, monitored, task, tasks, unfinished, event, user, loader>>

EndIterate ==
    /\ mon.pc = "library" /\ mon.libs = <<>>
    /\ dl_mutex' = Nobody
    /\ MonGoto("poll")
    /\ UNCHANGED <<loaded, monitored, task, tasks, lock, unfinished, event, user, loader>>

Skip ==
    LET k == Head(mon.todo) IN
    /\ mon.pc = "tasks" /\ mon.todo # <<>>
    /\ task[k].finished \/ task[k].lib # Head(mon.libs)
    /\ mon' = [mon EXCEPT !.todo = Tail(@)]
    /\ UNCHANGED <<loaded, dl_mutex, monitored, task, tasks, lock, unfinished, event, user, loader>>

\* The library of the task is there: it is hooked, or fails for good.
Finish ==
    LET k == Head(mon.todo) IN
    /\ mon.pc = "tasks" /\ mon.todo # <<>>
    /\ ~task[k].finished /\ task[k].lib = Head(mon.libs)
    /\ \/ task' = [task EXCEPT ![k].finished = TRUE, ![k].hooked = TRUE]
       \/ /\ Fault("symbol") \/ Fault("switch")
          /\ task' = [task EXCEPT ![k].finished = TRUE, ![k].error = TRUE]
    /\ MonGoto("count")
    /\ UNCHANGED <<loaded, dl_mutex, monitored, tasks, lock, unfinished, event, user, loader>>

\* After the callback; the walk ends early when nothing is left to finish.
CountOut ==
    /\ mon.pc = "count"
    /\ unfinished' = unfinished - 1
    /\ mon' = [mon EXCEPT !.pc = "tasks", !.todo = IF unfinished' = 0 THEN <<>> ELSE Tail(@)]
    /\ UNCHANGED <<loaded, dl_mutex, monitored, task, tasks, lock, event, user, loader>>

EndTasks ==
    /\ mon.pc = "tasks" /\ mon.todo = <<>>
    /\ lock' = Nobody
    /\ MonGoto("decide")
    /\ UNCHANGED <<loaded, dl_mutex, monitored, task, tasks, unfinished, event, user, loader>>

\* The return value: go on with the next library, or stop the iteration.
Decide ==
    /\ mon.pc = "decide"
    /\ mon' = [mon EXCEPT !.pc = "library",
                          !.libs = IF unfinished > 0 THEN Tail(@) ELSE <<>>]
    /\ UNCHANGED <<loaded, dl_mutex, monitored, task, tasks, lock, unfinished, event, user, loader>>

MonitorStep ==
    \/ Poll \/ Iterate \/ NextLibrary \/ EndIterate
    \/ Skip \/ Finish \/ CountOut \/ EndTasks \/ Decide
-----------------------------------------------------------------------------
Next ==
    \/ \E u \in Users : \/ \E lib \in Libs : HookBegin(u, lib)
                        \/ \E k \in Stubs : Dequeue(u, k)
                        \/ UserStep(u)
    \/ \E l \in Loaders : \/ \E lib \in Libs : Load(l, lib)
                          \/ PostDlopen(l) \/ NoPostDlopen(l)
    \/ MonitorStep

Spec == Init /\ [][Next]_vars

\* The threads run: a call that was begun goes on, the monitor is scheduled.
\* The calls are bounded, so every lock is free for good in the end.
FairSpec ==
    /\ Spec
    /\ \A u \in Users : WF_vars(UserStep(u))
    /\ \A l \in Loaders : WF_vars(PostDlopen(l) \/ NoPostDlopen(l))
    /\ WF_vars(MonitorStep)
-----------------------------------------------------------------------------
TypeOK ==
    /\ loaded \in Seq(Libs)
    /\ dl_mutex \in Loaders \union {Monitor, Nobody}
    /\ monitored \in {"no", "yes", "failed"} /\ event \in BOOLEAN
    /\ task \in [Stubs -> [mem : {"unused", "live", "freed"}, lib : Libs \union {NoLib},
                           finished : BOOLEAN, error : BOOLEAN, hooked : BOOLEAN]]
    /\ tasks \in Seq(Stubs)
    /\ lock \in {Monitor, Nobody}
    /\ unfinished \in Nat
    /\ user \in [Users -> [pc : {"idle", "lookup", "monitor", "switch", "enqueue", "unhook"},
                           k : Stubs \union {0}]]
    /\ loader \in [Loaders -> [via : {"none", "proxy", "original"}, lib : Libs \union {NoLib}]]
    /\ mon \in [pc : {"poll", "iterate", "library", "tasks", "count", "decide"},
               libs : Seq(Libs), todo : Seq(Stubs)]

Waiting(k) == k \in ToSet(tasks) /\ ~task[k].finished

(* The counter that decides whether the monitor is notified, and whether   *)
(* it goes on, is the number of waiting tasks whenever the lock is free.   *)
CountIsRight == lock = Nobody =>
    unfinished = Cardinality({k \in Stubs : Waiting(k)})

NoDanglingTask ==
    /\ \A k \in ToSet(tasks) : task[k].mem = "live"
    /\ mon.pc = "tasks" => \A k \in ToSet(mon.todo) : task[k].mem = "live"
    /\ \A u \in Users : user[u].pc # "idle" => task[user[u].k].mem = "live"

HookedIffFinished == \A k \in Stubs :
    /\ k \in ToSet(tasks) => (task[k].hooked <=> task[k].finished /\ ~task[k].error)
    /\ task[k].mem = "freed" => ~task[k].hooked

(* Nobody works on a destroyed task: what is in the queue, before the      *)
(* monitor or in the hands of a user still exists.  Stubs account for      *)
(* hooks: a stub in the queue is hooked exactly if it finished without     *)
(* error, and no hook outlives its stub.  The state keeps its types.       *)
TasksAreSound == TypeOK /\ NoDanglingTask /\ HookedIffFinished

(* A task that was in the queue before its library is loaded is dealt with *)
(* when it is: no notification is lost between the loader, the eventfd and *)
(* the monitor.                                                            *)
QueuedIsServed == \A k \in Stubs :
    []( Waiting(k) /\ task[k].lib \notin Loaded =>
        [](task[k].lib \in Loaded => <>~Waiting(k)) )

(* Pending tasks are handled: one whose library is loaded does not wait    *)
(* for ever.                                                               *)
PendingIsHandled == \A k \in Stubs :
    (Waiting(k) /\ task[k].lib \in Loaded) ~> ~Waiting(k)
=============================================================================
