------------------------------ MODULE HubStack ------------------------------
(***************************************************************************)
(* sh_hub.cpp: where a thread's stack of frames comes from.  The first     *)
(* hooked call of a thread takes a slot of the global cache with a compare *)
(* and exchange, or maps a page when the cache is full, and stores it in   *)
(* thread-specific data; the destructor of that data gives it back.  All   *)
(* of it runs on the path of every hooked function, so also in a signal    *)
(* handler that interrupts the same path of the same thread, and in the    *)
(* destructors that other keys run while the thread exits.                 *)
(***************************************************************************)
EXTENDS Integers

CONSTANTS
    Threads,
    CacheSize,  \* SH_HUB_THREAD_MAX
    MaxMaps     \* bound: pages mapped at a time; more fail as mmap may

ASSUME SizeAssumption == CacheSize \in Nat /\ MaxMaps \in Nat

VARIABLES
    used,       \* sh_hub_stack_cache_used: the cache slots taken
    mapped,     \* the pages mapped
    count,      \* count[b]: frames_cnt in the memory of stack b
    tls,        \* tls[t]: pthread_getspecific(sh_hub_stack_tls_key)
    pc, idx, buf    \* per fiber: control point, loop index and local stack

vars == <<used, mapped, count, tls, pc, idx, buf>>

Cache == 1..CacheSize
Maps == CacheSize + 1..CacheSize + MaxMaps
Stacks == Cache \union Maps
None == 0       \* NULL

\* What runs in a thread: its code, and the handler of a signal.
Fibers == Threads \X {"main", "handler"}
Runs(k) == k[2] = "handler" \/ pc[<<k[1], "handler">>] = "idle"
At(k, where) == pc[k] = where /\ Runs(k)
Goto(k, where) == pc' = [pc EXCEPT ![k] = where]

Init ==
    /\ used = {}
    /\ mapped = {}
    /\ count \in [Stacks -> {0}]
    /\ tls = [t \in Threads |-> None]
    /\ pc = [k \in Fibers |-> "idle"]
    /\ idx = [k \in Fibers |-> 1]
    /\ buf = [k \in Fibers |-> None]
-----------------------------------------------------------------------------
\* A hooked function is called: line 255 reads the thread's stack.
Call(k) ==
    /\ At(k, "idle")
    /\ IF tls[k[1]] = None
       THEN Goto(k, "scan") /\ UNCHANGED buf
       ELSE Goto(k, "push") /\ buf' = [buf EXCEPT ![k] = tls[k[1]]]
    /\ UNCHANGED <<used, mapped, count, tls, idx>>

\* Lines 190-192: one turn of the loop, up to the plain read of the flag.
Scan(k) ==
    /\ At(k, "scan")
    /\ \/ /\ idx[k] > CacheSize
          /\ Goto(k, "mmap")
          /\ idx' = [idx EXCEPT ![k] = 1]
       \/ /\ idx[k] \in used
          /\ idx' = [idx EXCEPT ![k] = @ + 1]
          /\ UNCHANGED pc
       \/ /\ idx[k] \in Cache \ used
          /\ Goto(k, "exchange")
          /\ UNCHANGED idx
    /\ UNCHANGED <<used, mapped, count, tls, buf>>

\* Lines 193-198.
Exchange_Mutant(k) ==                   \* a plain store instead
    /\ At(k, "exchange")
    /\ used' = used \union {idx[k]}
    /\ count' = [count EXCEPT ![idx[k]] = 0]
    /\ buf' = [buf EXCEPT ![k] = idx[k]]
    /\ idx' = [idx EXCEPT ![k] = 1]
    /\ Goto(k, "set")
    /\ UNCHANGED <<mapped, tls>>
Exchange_NoReset(k) ==                  \* keeps the frames_cnt of the last owner
    /\ At(k, "exchange")
    /\ \/ /\ idx[k] \in used
          /\ Goto(k, "scan")
          /\ idx' = [idx EXCEPT ![k] = @ + 1]
          /\ UNCHANGED <<used, buf>>
       \/ /\ idx[k] \notin used
          /\ used' = used \union {idx[k]}
          /\ buf' = [buf EXCEPT ![k] = idx[k]]
          /\ idx' = [idx EXCEPT ![k] = 1]
          /\ Goto(k, "set")
    /\ UNCHANGED <<mapped, tls, count>>
Exchange(k) ==
    /\ At(k, "exchange")
    /\ \/ /\ idx[k] \in used
          /\ Goto(k, "scan")
          /\ idx' = [idx EXCEPT ![k] = @ + 1]
          /\ UNCHANGED <<used, count, buf>>
       \/ /\ idx[k] \notin used
          /\ used' = used \union {idx[k]}
          /\ count' = [count EXCEPT ![idx[k]] = 0]
          /\ buf' = [buf EXCEPT ![k] = idx[k]]
          /\ idx' = [idx EXCEPT ![k] = 1]
          /\ Goto(k, "set")
    /\ UNCHANGED <<mapped, tls>>

\* Lines 204-212; without memory the hooked call runs the original function.
Map(k) ==
    /\ At(k, "mmap")
    /\ \/ \E b \in Maps \ mapped :
            /\ mapped' = mapped \union {b}
            /\ count' = [count EXCEPT ![b] = 0]
            /\ buf' = [buf EXCEPT ![k] = b]
            /\ Goto(k, "set")
       \/ /\ Goto(k, "idle")
          /\ UNCHANGED <<mapped, count, buf>>
    /\ UNCHANGED <<used, tls, idx>>

\* Line 263.
SetSpecific(k) ==
    /\ At(k, "set")
    /\ tls' = [tls EXCEPT ![k[1]] = buf[k]]
    /\ Goto(k, "push")
    /\ UNCHANGED <<used, mapped, count, idx, buf>>

\* Line 285, through the local pointer: the proxy runs.
PushFrame(k) ==
    /\ At(k, "push")
    /\ count' = [count EXCEPT ![buf[k]] = @ + 1]
    /\ buf' = [buf EXCEPT ![k] = None]
    /\ Goto(k, "proxy")
    /\ UNCHANGED <<used, mapped, tls, idx>>

\* sh_hub_pop_stack, through the thread-specific pointer.
PopFrame(k) ==
    /\ At(k, "proxy")
    /\ count' = [count EXCEPT ![tls[k[1]]] = @ - 1]
    /\ Goto(k, "idle")
    /\ UNCHANGED <<used, mapped, tls, idx, buf>>

\* The thread exits, perhaps in a proxy (of pthread_exit): the value is
\* cleared and sh_hub_stack_destroy runs.  Destructors of other keys, or the
\* next thread of this name, may call hooked functions again.
StackDestroy(b) ==
    \/ b \in Cache /\ used' = used \ {b} /\ UNCHANGED mapped
    \/ b \in Maps /\ mapped' = mapped \ {b} /\ UNCHANGED used

Exit(t) ==
    /\ pc[<<t, "handler">>] = "idle"
    /\ pc[<<t, "main">>] \in {"idle", "proxy"}
    /\ tls[t] # None
    /\ tls' = [tls EXCEPT ![t] = None]
    /\ IF tls[t] \in Cache \ used       \* line 223
       THEN Goto(<<t, "main">>, "abort") /\ UNCHANGED <<used, mapped>>
       ELSE Goto(<<t, "main">>, "idle") /\ StackDestroy(tls[t])
    /\ UNCHANGED <<count, idx, buf>>

Next ==
    \/ \E k \in Fibers :
        Call(k) \/ Scan(k) \/ Exchange(k) \/ Map(k) \/ SetSpecific(k)
          \/ PushFrame(k) \/ PopFrame(k)
    \/ \E t \in Threads : Exit(t)

Spec == Init /\ [][Next]_vars
-----------------------------------------------------------------------------
TypeOK ==
    /\ used \subseteq Cache
    /\ mapped \subseteq Maps
    /\ count \in [Stacks -> Nat]
    /\ tls \in [Threads -> Stacks \union {None}]
    /\ pc \in [Fibers -> {"idle", "scan", "exchange", "mmap", "set", "push",
                          "proxy", "abort"}]
    /\ idx \in [Fibers -> 1..CacheSize + 1]
    /\ buf \in [Fibers -> Stacks \union {None}]

\* Thread t can reach stack b, through its specific data or a local pointer.
Holds(t, b) == tls[t] = b \/ \E c \in {"main", "handler"} : buf[<<t, c>>] = b

(* The frames of a thread are its own: no stack can be reached by two      *)
(* threads, however their searches of the cache, their exits and their     *)
(* signal handlers interleave, and the destructor never finds the slot it  *)
(* gives back already free (the abort of line 223).                        *)
StacksArePrivate ==
    /\ \A t, u \in Threads : \A b \in Stacks : Holds(t, b) /\ Holds(u, b) => t = u
    /\ \A k \in Fibers : pc[k] # "abort"

Running(k) == IF pc[k] = "proxy" THEN 1 ELSE 0

(* A thread sees on its stack the frames of its own running proxies and    *)
(* nothing left behind by the previous owner of the slot.                  *)
FramesAreMine == \A t \in Threads : tls[t] # None =>
    count[tls[t]] = Running(<<t, "main">>) + Running(<<t, "handler">>)
=============================================================================
