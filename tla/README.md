# A verification project for nativeLib's hooking core

nativeLib is a toolbox of native code for Android: inline hooking, symbol lookup, tracers, parsers of `/proc` files.
Nearly all of its shared, concurrent state is in one place, the copy of **ShadowHook 2** under
`src/main/cpp/hook/ShadowHook/src/main/cpp` (below: `SH/`), which has been adapted to this repository and which every
tracer goes through. This project models that core in TLA+, checks it with TLC and proves part of it with TLAPS, and with it the parts
of the repository's own code that keep shared state: the callbacks around `dlopen`, the removal of libraries from the linker's list, the settings
of the tracers, and the hiding of mappings. Everything else is straight-line code, parsing, or vendored code; section 5
says what is left out and why.

## 1. Inventory

How the parts call each other when a function is hooked by name, unhooked and called:

    shadowhook.cpp --> sh_task.cpp --> sh_linker.cpp (lookup, monitor of dlopen)
                          |                 |
                          v                 v
                     sh_switch.cpp <--- hook of do_dlopen, for ourselves
                      |         |
                      v         v
                 sh_hub.cpp   sh_inst.cpp --> sh_enter.cpp, sh_exit.cpp
                      |         |                    |
                      +---------+--> sh_trampo.cpp <-+

    a caller of the function --> patched head --> hub trampoline --> sh_hub_push_stack --> proxy
          proxy --> SHADOWHOOK_CALL_PREV --> sh_hub_get_prev_func --> older proxy ... --> enter trampoline --> original
          proxy returns --> SHADOWHOOK_STACK_SCOPE --> sh_hub_pop_stack

| part | state | operations | what makes it correct |
|---|---|---|---|
| trampoline allocator, `SH/common/sh_trampo.cpp` | pages, a flag and a time stamp per slot, a mutex | `sh_trampo_alloc` (with a branch range), `sh_trampo_free` | a slot has one owner; a freed slot rests for the delay; a page accepted for a range has a slot for it |
| hub, `SH/sh_hub.cpp` | the list of proxies of a function; a stack of frames per thread | `push_stack`, `pop_stack`, `get_prev_func`, `allow/disallow_reentrant`, `add_proxy`, `del_proxy` | every hooked proxy runs once per call, newest first, then the original; frames match the active calls; recursion does not re-enter unless allowed |
| hub's stacks, `SH/sh_hub.cpp` | a cache of stacks with a flag per slot, a thread-specific pointer | `sh_hub_stack_create`, `sh_hub_stack_destroy` | a stack belongs to one thread; a reused stack is empty |
| switch, `SH/sh_switch.cpp` with `SH/arch/arm64/sh_inst.cpp` | the tree of hooked functions and its read-write lock; the patched code; the list of hubs to be destroyed | `sh_switch_hook`, `sh_switch_unhook` | patch and bookkeeping agree; callers, who take no lock, never meet freed memory; nothing leaks on failure; every call returns |
| dlopen monitor, `SH/sh_linker.cpp`, `SH/sh_task.cpp` | two once-flags with results, two locks, the linker's `g_dl_mutex` | `sh_linker_hook_dlopen`, `sh_task_start_monitor` | started once; nobody is told to wait before it works; no deadlock |
| tasks, `SH/sh_task.cpp` | the queue, its lock, the count of unfinished tasks, an eventfd, the monitor thread | `sh_task_hook`, `sh_task_unhook`, the callback of dlopen, `sh_task_hook_pending` | a task queued before its library is loaded is finished; the count is exact; no walk meets a freed task |
| exit trampolines, `SH/sh_exit.cpp` | gaps in ELF segments, `sh_exit_lock` | `sh_exit_alloc`, `sh_exit_free` | an exit is exclusive and leads to its proxy; a gap that is given is free; the lock is given back, but for the return at line 360 |
| instruction patching, `SH/arch/arm64/sh_inst.cpp`, `sh_a64.cpp`, `SH/common/sh_util.cpp` | the head of a function, its enter, the saved words | `sh_inst_hook`, `sh_inst_unhook`, `sh_a64_rewrite` | the rewritten head does what the head did; a failure leaves the function as it was; a running caller stays on code |
| signal protection, `SH/common/bytesig.cpp` | a table of thread ids and jump buffers per signal, claimed without a lock | `bytesig_init`, `protect`, `unprotect`, the handler | a fault in a section jumps to an open section of the thread; the handler is registered once; who waits for a slot gets one |
| recorder, `SH/sh_recorder.cpp` | two append-only buffers, a pool of strings | `add_hook`, `add_unhook`, `get_records` | an index names the same string for ever; the log replays to what is hooked; an output is whole or an error |
| API, `SH/shadowhook.cpp` | `shadowhook_mode`, the result of initialisation | `shadowhook_init`, hook and unhook | initialised once, before any hook; every call returns |
| linker callbacks, `linker/linkerHandler.cpp` | an unlocked list of callbacks, one redirection | `init`, `addLinkerCallBack`, `linkerIORedirect`, `cleanCallBack`, the hooks of `do_dlopen`, `dlopen`, `openat` | every callback is told once before and once after a load; nobody walks a freed list |
| linker's list, `linker/solist_util.cpp` | the linker's own list of libraries and its tail, which the linker guards by its lock | `RemoveFromSoList`, `linker_get_solist` | the list and its tail stay whole; what was named is gone; no freed element is used |
| tracers, `tracer/` | static lists of libraries, a stream, two flags, shared by all tracers | `init`, `stop` of three tracers, `isLister`, `write_inline`, the callback of StringHooker | the wanted callers are traced and no others, into the stream of the last `init`; a deleted stream or a changing list is not used |
| maps hiding, `hidemaps/hide_maps_path.cpp` | the mappings of a library, a snapshot of them | `riru_hide`, `clear_elf_header` | the library is as it was, in anonymous memory; nobody else's memory is touched |
| HookUtils, `hook/HookUtils.cpp` | an unlocked list of hooked addresses, the framework in use | `Hooker`, `unHook`, `setHookerModle` | the list is what is hooked; a function is hooked by one framework only |

What makes this code hard:

* **callers take no lock.** A hooked function may be executed by any thread at any instruction while it is patched,
  unhooked and its hub destroyed. The code relies on *time*: hub trampolines rest for 5 s, enter trampolines for 10 s, hubs
  for 10 s, exits for 2 s, before their memory is used again.
* **lists are read without their lock** while proxies are added and disabled.
* **signal handlers** may call a hooked function between any two instructions of the bookkeeping of another one.
* **flags read outside their lock** (double-checked initialisation), with a result that is set later.
* **the linker's own lock** is taken by us inside our locks, and held by it around code of ours.
* **a notification in three parts** (counter, eventfd, monitor thread) that must not lose a library.
* **sections inside sections** of one thread share its slot, and a `return` in one skips the end of it (`sh_exit.cpp:360`).
* **failures in the middle**: after the patch is written, after the switch is in the tree.

`PROJECT.json` lists these one by one, at their lines, under `hazards`, with the properties that would catch them, and says
which are not covered.

## 2. Modules

| module | models | checked by | proved in |
|---|---|---|---|
| `SlotPool` | what an allocator with delayed reuse promises (abstract) | `trampo` | |
| `Trampo` | `sh_trampo.cpp` | `MCTrampo` | `TrampoProofs` |
| `Hub` | chain of proxies and frames | `MCHub` | `HubProofs` |
| `HubStack` | cache of stacks, threads and signal handlers | `MCParts` | `PartsProofs` |
| `HookRegistry` | an atomic set of hooked proxies (abstract) | `switch_faults` | |
| `Switch` | hook, unhook, callers, delayed destruction | `MCSwitch` | `SwitchProofs` |
| `DlopenMonitor` | start of the monitor; UNIQUE mode for `do_dlopen` | `MCDlopenMonitor` | `DlopenMonitorProofs` |
| `Task` | queue, lookup, monitor thread, loaders | `MCTask` | `TaskProofs` |
| `Bytesig` | protected sections and the signal handler | `MCBytesig` | `BytesigProofs` |
| `A64` | what an arm64 instruction does, and its rewriting at another address | with `Patch` | |
| `Exit` | exits in the gaps of the library's file and out of it | with `Patch` | |
| `Patch` | hook and unhook of a head under callers that execute it; extends `Exit`, which extends `A64` | `MCPatch` | |
| `Recorder` | pool of strings, records, outputs | with `Api` | with `Api` |
| `Loader` | callbacks around the loading of libraries | `MCParts` | `PartsProofs` |
| `SoList` | the linker's list while libraries are taken out of it | `MCParts` | `PartsProofs` |
| `Tracer` | settings and stream of the tracers, and the calls they trace | `MCParts` | `PartsProofs` |
| `MapsHide` | remapping of a library and clearing of its header | `MCParts` | `PartsProofs` |
| `Api` | initialisation, hooks by address, HookUtils over both frameworks; extends `Recorder` | `MCApi` | `ApiProofs` |

The definitions keep the names of the code where they can; the map from definitions to lines is in `PROJECT.json`.

`MCParts` checks five small modules in one run. They share no state: a behaviour begins with one of the parts, takes the
steps of that part only, and leaves the state of the others as it was, so the states of the run are those of the five side by side.

**Trampo.** A slot is `<<page, index>>`; `used` and `stamp` are the `flags` and `timestamps` of the pages. Both operations read
the clock *before* they take the lock (`AllocBegin`, `FreeBegin`), and finish in one step under it (`AllocReuse`, `AllocPage`,
`FreeEnd`). `owners` and `released` are history: how many hold a slot, and when it was given up. A window is a branch range
with or without a hint; addresses are small numbers, and the two range tests (of a page and of a slot) are those of the code,
with their different comparison. `SlotPool` grants and releases slots atomically and demands the rest; `PoolSpec` says Trampo
implements it.

**Hub.** One hooked function per hub. A thread has a native call stack (`calls`), of activations of the application, the
trampoline, proxies and originals, and the library's stack of frames. The reading of the list is one proxy per step
(`PushSkip`, `PushFound`, `PrevSkip`, `PrevFound`), and `AddProxy` and `DelProxy` change it at any moment, by whoever. Any code
may call any hooked function, so that recursion through other hubs, repeated recursion and the frame limit all occur. A frame
is found by the return address (the call site), as in the code, not by identity. `must` and `may` are history: the proxies
hooked during the whole call, and at some time of it.

**HubStack.** A fiber is a thread's main code or the signal handler that interrupts it: the handler may start between any two
steps of the main code and runs to its end before that goes on. Threads exit, which hands their stack back.

**Switch.** One function. A hub with its switch and its trampolines has one identifier, used once, so that an access to freed
memory is visible. `tree`, `code` and `writer` are the tree, the head of the function and the holder of the lock. The actions
follow `sh_switch_hook_shared` and `sh_switch_unhook_shared` from one lock operation to the next, with the steps a caller can
observe (the address of the original is published, the head is overwritten) kept apart. The trampolines' promise is that of
`SlotPool`: a slot stays as it is for its delay. Callers fetch the jump, walk the hub, and go to the original without a lock;
they are bounded by a patience, the assumption the delays stand for.

**DlopenMonitor.** `sh_linker_hook_dlopen` (`HookedAlready` to `HookEnd`) and `sh_task_start_monitor` (`StartedAlready` to
`StartEnd`) from one access of shared state to the next, in both modes. `patches` are the jumps over the head of
`do_dlopen`, newest last, because in UNIQUE mode the user may hook it as well. A thread in `InCtor` calls from a
constructor, with `g_dl_mutex` held.

**Task.** Each call of hook creates a task, looks its library up, and then hooks, or starts the monitor and queues.
Loaders call `do_dlopen`, patched or not; the monitor thread polls, iterates over the libraries with `g_dl_mutex` held, and for
each of them over the queue with its lock held. Starting the monitor is one step here.

**Bytesig.** A thread runs `BYTESIG_TRY`, the body, and `BYTESIG_CATCH` or `BYTESIG_EXIT`, one access of the tables per step:
the search for a free slot (`TestSlot`), the compare-and-exchange (`ClaimSlot` or `MissSlot`) and the buffer (`SaveBuffer`) for
each signal in turn, and the same backwards in `bytesig_unprotect`. A thread has one slot per signal; `sections` is the stack
of its open sections. A section inside another one finds the slot and leaves it, but its end releases it: from then on the outer
one (`nested`) is unprotected. A `return` statement in a body (`Return`) leaves the slot, with a buffer in a frame that is gone
(`leaked`). Between `Register` and `Publish` the handler runs without a table (`HandlerNoTable`). A fault comes from running code,
in or out of a section; signals sent by others, masks and the codes of a fault are left out. The properties
say what holds in spite of these three: `ready`, `clean` and `nested` in the record of a section are their exact conditions.

**A64.** An instruction is a kind with an offset (in words) and a register; `Run` says what it does at an address with the contents
of the registers, and `Rewrite` which words `sh_a64_rewrite` writes for it, among them the fixed target when a branch leads into
the head that moves along (`sh_a64_fix_addr`) and the loads of an absolute address. Everything is a function of its arguments, without recursion, so that it can be proved about later.
Words that do not depend on their address are `"ignored"`.

**Exit.** An exit is one jump to the proxy within reach of a branch. The gaps of a file are those the code computes from its
program headers, with its cases: the segment's end in the file, zeroed memory, the next segment, the page the kernel or the linker maps. `sh_exit_lock`
is held from the search to the write; a gap is mapped on its first use (`prepared`), may fault when it is compared, and may fail to be
mapped or written. The slots out of the library are the promise of `SlotPool`, with a range.

**Patch.** `sh_inst_hook` step by step: allocate and fill the enter, publish the original's address, try an exit (out of the
library, then in it), overwrite one word; without an exit, a *second attempt* that moves four words and rewrites the enter; on a
failure, undo. `sh_inst_unhook` compares the head with what was written, restores it and gives back exit and enter. Each step may
fail where the code checks. A caller executes one instruction per step, wherever its program counter is: head, enter, exit or proxy.
Some callers the code takes by surprise, and gives them neither a lock nor a time; `Dismiss` stops following them, and
is the exact list: those inside words 2 to 4 of a head that gets a long patch, or in an enter that returns there; on an unaligned head
while it is copied; on an in-library exit when it is cleared; on the way to the proxy when a failed second hook clears the address of the
original; in an enter that the second attempt rewrites. `CallersStayOnCode` says that there are no others. The mode is UNIQUE. Limits: branches from later code
into the words of the head, the register the jumps destroy (x17), and the use of memory below the stack pointer by
the rewriting of vector loads are not part of what a caller compares; a function whose unhook failed is not hooked again; the call of a `bl` returns at once.

**Recorder.** Two buffers that grow by steps to a limit, and the pool: a string is found or appended under `strings` lock, one section per string
(`AddStr`), then the record is appended in a section of its own (`AddRecord`), so that the sections of threads interleave. An
output holds both locks, writes line by line, and may run out of memory or of its own limit; then it writes an error line. A
string whose append failed has been freed (`sh_recorder.cpp:427`) and is written to again: through a null pointer, which ends the process (`crashed`), or behind
garbage. Sizes are numbers of small units. `missed` is history: a record was lost or recording was off. The filter of
fields at line 421 is not modelled.

**Api.** Threads call `shadowhook_init` (its double-checked lock, with the mode and the modules), hooks by address, `shadowhook_unhook`,
and the records. A call is a record in `call`: where it stands, its argument, its task, and which call of HookUtils it serves.
HookUtils runs on one thread, `Main`, over both frameworks: `Hooker` initialises ShadowHook when it first needs it, tests its list,
hooks, and appends; `unHook` finds an entry and asks the framework *of the moment*; `setHookerModle` changes that. Dobby is
the set of functions it has. `mixed` is history: `unHook` met an entry of the other framework; it is the only way to
lose a hook, which is what the two properties of the list say. `calls` bounds what each thread begins.

**Loader.** A thread is in a stack of loads, since constructors load libraries; each load walks the callbacks (`LoadBefore`), calls the original (`Orig`), and
walks them again (`LoadAfter`), one callback per step. Which function is hooked decides who may load at once: `do_dlopen` runs with the linker's lock
held, the others do not; and whether the library is loaded when the second walk begins: after `openat` it is mapped later (`Map`). Lists are numbered, so that
`cleanCallBack` can free one that the pointer still names. An append to the list is one step: what a walk of another thread reads of a half linked node, and loads of a null path, which tell nobody, are left out.

**SoList.** `next` and `sonext` are the linker's; its loads and unloads are external and hold its lock and its guard (`ProtectedDataGuard`, a counter). A remover copies the list (`GetSolist`),
compares (`Match`), finds the predecessor (`Find`), and changes two words (`Unlink`, `MoveTail`), with the lock if its thread has it from the hook of `do_dlopen` (`holds`) and else
without. Once such a call overlapped another operation (`raced`) the list may be anything, a circle included, and the run does not go on. A library that was taken out is not unloaded: the linker would not find it.

**Tracer.** `init` and `stop` of any tracer, written three times in the code with one text, over the static members of `TracerBase`; a step is an access. A list that is assigned or cleared is changing from the step
before to that step, and a walk that overlaps this breaks or not (`Changing`, `Walking`). Streams are numbered; `stop` deletes one and leaves its number in `traceOs`. `isInited` is a
member that nothing initialises (`TracerBase.h:188`): its first value is any. A traced call tests `isLister`, or does not (`construction_1`), tests `isSave` and the pointer, and writes
through the pointer as it then is; it ends at a point that says what became of it (`EndPoints`): dropped by `isLister`, only logged, saved to the stream, or, in the callback of the linker, loaded.
`sink` remembers the stream of the last `init` that brought one, and `mixed` that two calls of `init` or `stop` overlapped; an `init` that brings a stream and begins alone sets everything
anew, and ends this. The text of a line, two writers of one `ofstream`, and what each hooked function prints are not modelled.

**MapsHide.** Each mapping has an owner, a protection and contents, numbered by the writes of the application. `do_hide` is one system call or copy per step; a call that fails changes nothing and
is not noticed. Other threads use the library (`AppUse`), write to its data (`AppWrite`), map memory where there is a hole (`MapOther`), and unload it. The maps are read in one step.
The branch of `do_hide` for unreadable mappings (line 141) is left out, since `riru_hide` passes none, and so is the failure of `pmparser_parse` and `dlopen`, which end the call at once; the backup is never unmapped, in the code either.

Simplifications, all on the side of data: addresses, names and instructions are model values or small numbers; logging is left
out; a library's name matches itself and nothing else (the code uses `strstr`); libraries are not
unloaded and a load does not fail; one call of `do_dlopen` loads one library; the clock is monotone; Android 5.0 or later, arm64. In
`Switch` a patch is one step without exits; `Patch` opens that step.

## 3. Runs

| run | instance | what it shows |
|---|---|---|
| `trampo` | 2 threads, 2 pages of 2 slots, 4 windows, delay 1, 6 clock values | one owner per slot, no abort for an accepted page, and `PoolSpec` although clocks are read early |
| `hub` | 2 hubs, 3 proxies, 3 frames, 5 nested calls, 4 edits | the chain's properties under edits in the middle of walks, recursion and the full stack |
| `switch` | 2 hookers, a caller, 2 proxies, 3 hubs, failing patches, clock to 3 | callers within the delays are safe |
| `switch_faults` | 2 hookers, 2 proxies, every failure | patch and bookkeeping agree, no hub is lost, `RegistrySpec`, every call returns |
| `monitor` | 3 threads, one in a constructor, both modes, every failure | started once, accepted means monitored, calls return |
| `task` | 2 users, a loader, 2 libraries, 2 tasks, failing lookups, monitor and hooks | exact count, no dangling task, no lost library |
| `bytesig` | 2 threads, one slot per signal, 2 signals, 3 sections, 2 of one thread and nested or not, faults anywhere | an undisturbed section catches its faults, jumps meet open sections, one registration, and nobody waits for a slot for ever |
| `patch` | 1 or 2 functions, 2 enters, 1 caller; each address-dependent instruction at each place of a head, with targets in and out of it; every failure; six layouts of gaps | the rewritten code does the same, exits are sound, failures leave the function as it was, a running caller stays on code, a hook returns |
| `api` | the thread of HookUtils and 2 others, 1 function, 2 stubs, buffers of 2 steps; (4,1,0), (6,0,0), (0,3,1), (1,2,1), (0,5,0) calls | the log replays, records resolve, outputs are whole, the list of HookUtils is true, one initialisation, every call returns |
| `parts` | `HubStack`: 2 threads with handlers, cache of 2, one mapping; `Loader`: 2 threads, 2 libraries, 2 loads, 2 callbacks, each of the three functions; `SoList`: 2 removers with and without the lock, 3 blocks, 4 loads, 2 calls; `Tracer`: 2 threads, 2 tracers, 1 library, 3 inits and stops, 2 calls; `MapsHide`: code, data and a guard page, 2 calls, every failure, 2 writes per mapping, an unload | stacks are private and their frames belong to their thread; each registered callback is told once on both sides, in order; the list and its tail are whole, and nothing freed is used; calls that no init or stop overlaps are safe, and a line is written exactly for the callers that the last init asked for and goes to its stream; the hidden library is as it was, and crashes have a cause |

Two runs end in a violation; each is a disagreement between the code and what its comments say (`findings` in `PROJECT.json`):

| run | what TLC finds |
|---|---|
| `switch_read` | `sh_switch.cpp:173` reads the switch after the section marked `SYNC(read)`; another thread's last unhook may have freed it |
| `task_pending` | a library loaded between the lookup of a hook and the insertion of its task is not announced; the task waits although its library is there |

More disagreements of the code with itself or its comments are known and have no run of their own. The modules follow the code in each:

* `sh_switch.cpp:95` frees the address of its argument, so that "Create hub failed" is never reported and the process aborts (the model's `"abort"`);
* "we MUST hook this method with invisible for ourself first" (`sh_task.cpp:283`) does not hold for a second hook that sees the flag the first one sets before it hooks;
* `unHook` takes the address of the function, as `Hooker` does, but for ShadowHook compares it with the stub, which it never equals (`HookUtils.cpp:55`, `:39`);
* a switch from Dobby to ShadowHook never initialises ShadowHook once a hook was made (`HookUtils.cpp:129`, `:99`);
* `cleanCallBack` frees the list of callbacks and keeps the pointer, which the next load walks (`linkerHandler.cpp:297`, `linkerHandler.h:65`);
* with `openat` hooked, `loadAfter` runs before the library is mapped (`linkerHandler.cpp:145`, `linkerHandler.h:29`);
* a line of a trace is put together in a static buffer, in which two threads mix their lines (`TracerBase.cpp:123`);
* the header of an unreadable mapping is read before the protection is changed for that (`hide_maps_path.cpp:193`, `:195`);
* `FAILURE_RETURN` compares with -1 what `raw_syscall` returns as -errno, so failures are missed and the copy goes to an errno (`hide_maps_path.cpp:57`, `syscall.cpp:99`).

**Types.** The invariant on types is proved, and not run, for `Trampo`, `Switch`, `DlopenMonitor`, `Bytesig` and `Tracer`; it is a conjunct of
`FramesMatchCalls` (`Hub`), `TasksAreSound` (`Task`), `PatchesAreSound` (`Patch`), `LogReplays` (`Api`), `EveryLoadIsTold` (`Loader`) and `ListIsWhole` (`SoList`).
In `MapsHide` the contents of a mapping say more than its type. The proof for `HubStack` carries its types with it.

**Bounds, and why they are enough.** The protocols are between *pairs*: two threads racing for a first hook, a hook against an
unhook, a caller against a destruction, a handler against what it interrupts. Two of each, with room for an operation more than
the shortest race needs (`MaxOps`, `MaxEdits`), contain all of these; a third thread in `monitor` is one that takes neither
role. Two hubs are needed for a call through another hooked function, three proxies for one in the middle of a chain; a
stack of 3 frames with calls 5 deep makes the limit of 127 (`sh_hub.cpp:47`) happen. Two pages make the branch ranges choose; one window
covers a single slot and one begins inside a slot. Delays are 0 or 1 second and the clock runs past them, since only the
order of a delay and a patience matters. One slot for two threads makes the tables of `bytesig` full (they have 256), and two signals make a thread
hold one slot while it waits for another; three sections are two of one thread, one inside the other, against one of the other thread. Hub identifiers are one per hook that can succeed or race.
In `patch` a head has one special instruction at a time, since the rewriting of a word depends on the others only by their sizes; the worlds with
failures have plain heads, since no failure depends on what the words do; two functions compete for gaps and for
the second of two enters. In `api` the budgets are the shapes of the races: the thread of HookUtils against a user, alone and longest, two users of the recorder, all three at once, and
one user that fills every buffer; a limit of two steps makes growth, the limit itself and what follows it happen.
In `parts` two loads, one in the other or at once, and two callbacks (one before and one between or inside) are the shapes of `Loader`; three blocks let one be freed and used again while a
removal has a copy of the list; three inits and stops are a round of one tracer and an init of the other, with a call in every gap, or two that overlap and the init that sets their leavings right. TLC's symmetry is used
in `trampo`, `hub`, `switch` and `parts`, on sets the definitions never order, and in no run with a liveness
property. `CHECK_DEADLOCK FALSE` is set where the bound on calls ends the behaviour; `trampo` and `hub` check for deadlock.

**Fairness.** Liveness is checked under weak fairness of each thread's own steps, the scheduler's only promise. Locks need
no strong fairness because the number of calls is bounded, so that a lock is free for good in the end. Nothing is fair about
*starting* a call, a load or a fault, nor about time. The monitor thread is fair once it runs. In `bytesig` the
end of a body (`Exit`) is strongly fair: a body may fault again and again and be mended by the previous handler, but it ends; a
spinning thread is fair without being enabled to claim. `ProtectEnds` does not hold, and is not stated, after a section was left by `return`, or
for one that began before every signal had its table. `DlopenMonitor!OpsReturn` assumes
that no constructor hooks: with one there is a real deadlock, the lock of the monitor against `g_dl_mutex`. `Switch!OpsReturn` assumes that
the process did not abort. `Patch!HookReturns` is under weak fairness of the thread that hooks, callers may rest for ever, and it
excepts exactly the history in which `sh_exit.cpp:360` returned with `sh_exit_lock` held. `Api!CallsReturn` is under weak fairness of
each thread, up to the crash that the recorder's output may bring.

## 4. Proofs

TLAPS proves, for every value of the constants that the modules' `ASSUME`s admit:

| theorem | says |
|---|---|
| `TrampoProofs!TypeCorrect`, `SlotExclusive` | types; no slot has two owners |
| `TrampoProofs!TrampoImplementsPool` | the allocator implements `SlotPool`: exclusive grants and the full rest |
| `TrampoProofs!AbortUnreachable` | a page accepted for a range has a slot in it, so that the `abort()` of line 133 is not reached |
| `HubProofs!FramesCorrect` | the frame a proxy reads is that of the call it serves; the stack never outgrows its array |
| `HubProofs!ReentryCorrect` | a function is twice on a stack of frames only if the older frame allows it |
| `HubProofs!ChainsCorrect` | a proxy that runs was hooked since its function was called, and a chain never comes back to it |
| `HubProofs!HooksCorrect` | the original is reached only after every proxy that was hooked all along |
| `PartsProofs!StacksPrivate`, `FramesOwn` | a stack belongs to one thread, and its frames are that thread's active calls |
| `SwitchProofs!TypeCorrect`, `PatchMatchesHooks` | types; the function is patched exactly if a proxy is hooked, whenever nobody holds the lock |
| `SwitchProofs!HubsAreKept` | no hub is lost, whatever fails |
| `SwitchProofs!SwitchImplementsRegistry` | the switches implement `HookRegistry`: each hook and unhook is one atomic change of the set of proxies |
| `SwitchProofs!CallersSafe` | callers that keep within the delays never meet freed memory (`ASSUME Patient, NoLoss`) |
| `DlopenMonitorProofs!TypeCorrect` | types, and each lock is held exactly by the thread in its section |
| `DlopenMonitorProofs!MonitorStartsOnce` | one patch of ours, one monitor thread |
| `DlopenMonitorProofs!PendingIsMonitored` | an accepted hook has a patched `do_dlopen`, a callback and a thread |
| `BytesigProofs!TypeCorrect`, `RegistersOnce` | types; the handler is never its own predecessor |
| `BytesigProofs!JumpsSoundly` | a jump leads to an open section, unless the thread has left one by `return` |
| `BytesigProofs!CatchesFaults` | a section that nothing has disturbed catches its faults, whatever other threads do |
| `ApiProofs!Initialised` | the mode and the modules are set once, before any hook |
| `ApiProofs!Resolved` | a record's indices name its strings |
| `ApiProofs!OutputCorrect` | an output that no failure stopped is whole and in order |
| `ApiProofs!LogCorrect` | while no record was lost, the log replays to the tasks there are; types |
| `ApiProofs!OneFramework`, `ListIsTrue` | HookUtils hooks a function with one framework; its list is what it has hooked |
| `TaskProofs!CountCorrect` | whenever the lock is free, the counter is the number of tasks that wait in the queue |
| `TaskProofs!TasksCorrect` | nobody works on a destroyed task; a task in the queue is hooked exactly if it finished without an error; types |
| `PartsProofs!TracerTypeCorrect`, `CallsSafe` | types; a traced call that no init or stop overlaps uses no deleted stream and no changing list |
| `PartsProofs!TracedRight` | a traced call writes a line exactly if its caller is one that the settings ask for, into exactly the stream of the last init that brought one, or into none after a stop; a library they name is hooked when it is loaded |
| `PartsProofs!HidingClean` | a hidden library stays mapped, with its protection and contents; every crash and every harm has the cause that is stated |
| `PartsProofs!LoadsTold` | whoever is registered is told of every load, before and after it, once |
| `PartsProofs!ListWhole` | the linker's list and its end are whole between operations; no freed block is used; only calls without the lock race |
| `PartsProofs!PartsCorrect` | the results on the five parts hold of the specification that `parts` checks |

*Trampo.* One owner is not inductive: a thread between `FreeBegin` and `FreeEnd` no longer owns its slot, though its flag is
still set. `Owned` says that the flag is set exactly while somebody owns or is freeing the slot, `Freeing` that the one who frees
it is alone and carries the time of the release, `Stamped` that a free slot's stamp is that time, `ClockRead` that a clock
read earlier is not in the future, and `Unmapped` that slots of pages not yet mapped are untouched. From `Stamped` and
`ClockRead` the test of the code, with its old clock, implies the pool's test with the current one; that is the refinement step.
The assumption is that a page holds at least one slot and that the clock is monotone.

`AbortUnreachable` needs no invariant but what the branch of the code has tested: a page that passed the test of line 103 reaches into the window, and `RangeHasSlot` says that
then one of its slots begins in it. The witness is the first slot of the page or the first at or above the lower end of the window, and finding it is a division by the size of a slot.
`RangeAssumption` says that, for requests with a range, the slots fill the page and a window is at least as wide as a slot. The code makes the first true by its sizes (4096-byte
pages cut into exits of 8 or 16 bytes), the second by the ranges of branch instructions, which are megabytes wide. Without it the abort is reached: a window that lies inside one slot passes the test of the page and that of no slot.

*Hub.* The four theorems rest on one invariant, `Inv`, which speaks of each thread alone. `Shape` is how a call stack is built: a chain begins with a trampoline that becomes its first proxy,
and what CALL_PREV calls belongs to the chain below it (`Starts`, `Rooted`). `Framed` pairs the chains with the frames by counting: the frame of a chain is at the place that is the number of entered chains up to it (`Depth`, the
`Level` of the module, a cardinality, since the prover has no induction over a selected sequence). `Known` says what a call has learnt of the list, `must` and `may`, as edits go on. `Chained` says of every
proxy in flight that it is in the list, no further than the head of its frame, below those of its chain that ran before it, and that each function of `must` has run in the chain or is further down. `Cursor` says the same of a walk between two
reads of the list: no function of `must` was passed over. `Allowed` has the frames allow each other, and the frame about to be pushed. The argument is that `add_proxy` puts new proxies before the head and `del_proxy` leaves the node where it is,
so that "further down" never changes for a function that is in the list (`Below`, and `Lists`: no function is twice in one). The assumption on the constants is that the names of no hub and no function are names of neither.

*HubStack.* `Busy` says when a fiber has a stack in a local variable, `Taken` that such a stack is marked, `Private` that no
two threads reach one stack by local variable or thread-specific pointer, `Fresh` that a stack not installed yet is empty and
in one hand, and `Nested` how far an interrupted fiber can have got when the handler runs. `Fresh` is the heart: it makes the
installation in `SetSpecific` safe even if the handler installed another stack meanwhile.

*Switch.* The properties speak of the world at rest; between two steps of a thread the tree, the head and the hub disagree. `Locked` ties the lock to
the thread in its section, `Owns` and `Apart` give a thread between its sections a hub that is nobody else's, `InTree`, `Unused`, `Waiting` and
`Kept` say in which of the hands a hub can be, and `Head` what the head is at each point of the section. `Served` carries the request, so
that the step of the refinement at which a hook or unhook takes effect is known: a hook takes effect when its proxy is added to the hub in the tree
(`HookFind`, or `HookInsert` when another thread inserted its hub first) or to the new hub once the function is patched (`HookAdd`); a hook that fails
answers "error" where it fails; an unhook takes effect when the proxy is disabled, and `NotRestored` turns its answer into "error" when the bytes could
not be put back; every other step is a stutter. The callers have an invariant of their own on
top of it: `Relies` says what a call that came at a time may count on (whatever was released was released after it came, and nobody is about to destroy its hub at
once), `Calling` and `Entered` that each caller does. It needs `Patient` (a stretch of a call is no longer than the delay that protects it) and `NoLoss` (no
failure destroys a hub after it was patched in, `sh_switch.cpp:222`), which are the theorem's assumptions and the conditions under which the run checks it.

*DlopenMonitor.* `HookInv` says what the flag, the patch, the result and the callback imply of each other at each point of the
locked section, `StartInv` the same for the thread (whose flag, unlike the first, is set last), and `OpInv` that a pending hook
gets to the thread only with the patch in place. The two flags may be read at any time without the lock; the invariant holds
because each is only trusted together with its result.

*Bytesig.* `CatchesFaults` speaks of the innermost section in its body; the invariant must speak of all open ones, since a jump or an
end makes an outer one the innermost. `Covers` says so of every section that is ready, clean and not followed by a `nested` one
(`Undisturbed`), and, while its protection is in progress, of the signals already done. When a signal is passed over
because the thread has a slot, the slot must lead somewhere: `SlotsLead` says that it leads to an open, protected section unless it is
being saved, being released or leaked. `TableInv` (one slot per thread and table) makes the slot the handler finds that slot; `InitInv`
carries the lock of `bytesig_init`. Other threads disturb none of it (`OthersKeep`), because each only writes slots that are
nobody's or its own. The assumptions are that there is a slot and that the signals are a sequence of names; nothing is assumed about
how many threads, signals or sections there are, or how deep they nest.

*Api.* `Once` says that the lock is held exactly in the body of `shadowhook_init`, that nothing is hooked before it ended well, and that an untouched state was never initialised. The records rest on
three parts: `Pool` (no string twice), `Log` (every record's indices stand for its strings) and `Writers` (so do those of a record under way), which survive since both buffers only
grow; nothing is assumed about sizes and limits. What is recorded are names whose size is known (`StringsAssumption`). The list of HookUtils rests on `TaskInv`, about all threads: a thread works on its own tasks
(`Mine`), and the proxies in the switches are those of the tasks that stand for a hook, one each (`Proxies`), where `Hooked` takes away the tasks on the way in or out.
On top `ListInv` follows `Main` through the calls it makes for HookUtils: `Served` and `Asks` say for whom and for what a call runs, `Listing` that every entry names a hook in
force, but for the unhook under way, and `Pure` that, as long as `mixed` is false, every hook is listed or about to be.

`OutputCorrect` needs to know how far an output has got: `Outputs` says at each point of it that what was written, if nothing failed, is the first lines of the log as it was when the lock was taken (`Told`), which later records do not change.
`Locks` ties the two locks to the sections, `Duties` a thread in the recorder to the call it is in, and `Crash` blames a crash on a failed output. `LogCorrect` relates the last record about a task to the point where the call that works on the task stands
(`Said`): a new task is not recorded as hooked before its record is in, an unhook is in the log before its task is destroyed, and a task that nobody works on is recorded as it is. Since
a task has one thread that works on it, records of others about other tasks come in between without harm. A lost record, or an error in the recorder, ends the claim, as in the property.

*Tracer.* The test and the use of the stream are steps apart, and between calls `traceOs` may point to a deleted stream. `DeletedIsHandled` says when it matters: a deleted stream is in use
only while a `stop` has yet to clear `isSave` or an `init` to set its own stream. `Overlapped` marks every call next to such an operation, and `StillSaved` says that what an unmarked call
tested still holds, so that its stream is live. `StreamsAreNew` (the stream an `init` brings is nobody else's) and `OpsHaveStreams` carry the operations. Nothing is assumed about the
numbers of threads, tracers and libraries.

*Task.* The counter is not the number of waiting tasks while the monitor is between the end of a task and the subtraction (`sh_task.cpp`, `CountOut`): `CountOK` says it is then one too
high, and at no other time. It is a cardinality, so each step that finishes, adds or removes a task adds or takes exactly one element (`CountMore`, `CountLess`). For that `QueueOK` has every task
in the queue once, alive, and hooked exactly if it finished without an error; `UsersOK` says that a task which a thread works on has not reached the queue or has left it, and belongs to that thread alone;
`FreshOK` that a task is untouched before its hook; `FreedOK` that a destroyed task left no hook; and `WalkOK` that the monitor, as long as it has the lock, walks over tasks that are still in the queue. Nothing is assumed about
the numbers of threads, libraries, calls and failures, but that the bound on the tasks is a number and that no thread both loads and hooks.

*Tracer, the settings.* Without overlapping inits and stops there is one operation at a time (`Settled`), and outside the two points at which it changes the lists they are those of the last init, or empty after a stop; a call that
nothing overlapped reads them as they are. `Streamed` takes the stream along, step by step: `isSave` and `traceOs` agree with `sink` whenever nobody is busy, and on the way there an init or a stop, alone, has them half done in one
known way. `Right` keeps for each quiet call what it has decided so far, in both directions. An init that brings a stream and finds nobody busy establishes all three from any state, and so the result is regained after inits and stops that overlapped.

*MapsHide.* While nothing failed, nothing was unloaded and nobody mapped memory in the hole, everything is known about each mapping, and the invariant says what: `Holes` (the only hole is the
one the hider made, at three points of its walk), `Listed` (what is still to be done is the library's, with its protection) and `Kept` (what is done, or not begun, has the contents the application knows, but for writes
between the copy and its restoring; the copy itself is right). `Gone` and `Foreign` say what unloading and foreign memory leave behind, so that each crash and each damage can be blamed on one of them. The
assumption on the constants is that mappings are told apart by numbers and that a protection is a set of modes.

*Loader.* A load remembers a place in a list that others extend, and the list itself may be made while it walks. As long as no two registrations overlap there is at most one list and it only grows (`OneList`);
`Fits` compares each load with it: what has been told so far is the beginning of the list, up to the place of the walk, and who was registered when the load began is among them. `AllInside` keeps the places
within the lists even when registrations do overlap, and `Numbered` the numbers of the callbacks within their bound. `EveryLoadIsTold` follows at the last point of a load.

*SoList.* The list is a chain of pointers, and the property speaks of what a walk from its head meets. The invariant names an order instead: `Chained` says that some numbering of the members grows along the pointers and that each member
points to the next by number. Then the copy that `Copies` describes is everything before the place of its walk, the search of `Finds` cannot pass the library it looks for, and unlinking or appending one
keeps the order (`Cut`, `Grow`), with the linker's end where it was or where `TailKept` says. `Alone` is the heart: without a race there is one operation at a time, which the linker's lock gives to the calls that hold it (`LockKept`).
What a walk meets is a recursive function in the module; that it exists and is the walk is shown by the least number at which it would fail (`LeastOf`), and that it meets exactly the members by counting (`ListedMembers`). The
assumption is that blocks are finitely many, that the head is none of the libraries and null is no block, and that the lock tells its holders apart.

*The parts together.* A behaviour of `parts` takes steps of one part and leaves the others alone, so it is a behaviour of each (`PartsStep`), and every result carries over (`PartsCorrect`).

Only model-checked: `Patch` with `Exit` and `A64` (`PatchesAreSound`, `CallersStayOnCode`, `KeepsOriginal`). Their inductive
invariant would have to say, for every kind of instruction at every place of a head, which words its rewriting is, where each branch among them leads, what lies in each place of each gap, and where a caller can stand in all of
these; it is not written. Only model-checked, too, is all liveness (`OpsReturn` twice, `QueuedIsServed`,
`ProtectEnds`, `HookReturns`, `CallsReturn`): fairness is beyond the prover.

## 5. Not modelled, and the plan

Not modelled: the arm variants (`arch/arm/sh_inst.cpp`, `sh_a32.cpp`, `sh_t16.cpp`, `sh_t32.cpp`), which follow the same protocol with three more instruction sets; xDL, xunwind, Dobby beyond
the set of functions it has, and other vendored code; the ELF reader and the parser of `/proc` maps (formats);
the bodies of the tracers' hooks (formatting around calls of the original), `invokePrintf` and `HookClassUtils`; the lookup of the linker's symbols; `sh_safe.cpp`; the wrappers of `dlopen` and `dlsym` in the API.
The share of the repository that is modelled is small because most of it is of these kinds, the largest file being a vendored JSON library.

Known and not covered by a property: a caller that is inside a hub when its first proxy cannot be added (`sh_switch.cpp:222` destroys
without a delay); what runs behind a foreign patch after an unhook that failed; a proxy that blocks longer than the
delays; a clock that is set back or forward; a user's callback that hooks from inside the walk of the tasks (`sh_task.cpp:137`, a certain deadlock); callers that a long patch takes by surprise, which `Patch` counts out; a second `stop` of the tracers, which deletes the stream again (`StringHooker.cpp:648`);
HookUtils from two threads (its list has no lock, `HookUtils.cpp:133`); the thread-local errno, which reads the state of the initialisation
without a lock (`sh_errno.cpp:48`).

The order in which the project was planned:

1. `Trampo` implementing `SlotPool`: everything else trusts its delay. Done, proved.
2. `Hub`: what a call does. Done, proved. 3. `HubStack`: where it keeps it. Done, proved.
4. `Switch` implementing `HookRegistry`: what hook and unhook do to running callers. Done, proved.
5. `DlopenMonitor`. Done, proved. 6. `Task`. Done, proved.
7. `Bytesig`: protection, nesting and faults. Done, proved.
8. `A64`, `Exit` and `Patch`: the rewriting, the gaps, and the head under running callers. Done.
9. `Recorder` and `Api` with HookUtils. Done, proved.
10. `Loader`, `SoList`, `Tracer` and `MapsHide`: the repository's own users of hooks and of the linker. Done, proved.
11. Next: theorems about the exits and the undoing of a failed hook in `Patch`;
    then user callbacks in `Task`; foreign patches as a stack in `Switch`, as `DlopenMonitor` has them; UNIQUE mode of any function in `Switch`;
    the exits' sections as sections of `Bytesig`.

## 6. How to run

    tlc -workers 2 -config MCTrampo.cfg MCTrampo        (and so on: module and configuration per run in PROJECT.json)
    tlapm TrampoProofs.tla                              (HubProofs, SwitchProofs, DlopenMonitorProofs, BytesigProofs, ApiProofs, TaskProofs, PartsProofs)

The definitions named `..._Mutant` and the like are plausible bugs of the definition that follows them. Each property of a passing run has
one that breaks it; they are part of no specification.
