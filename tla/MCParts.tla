------------------------------ MODULE MCParts ------------------------------
(***************************************************************************)
(* Instances of HubStack, Loader, SoList, Tracer and MapsHide for TLC.     *)
(* The five are small and share no state, so one run checks them all: a    *)
(* behaviour is one of the part that it begins with, and the others stay   *)
(* as they are.                                                            *)
(***************************************************************************)
EXTENDS HubStack, FiniteSets, TLC

CONSTANTS
    Libs, Hooks, MaxAdds, LoaderLoads,
    Soinfos, Libdl, Null, Removers, ListLoads, MaxRemovals,
    TracedLibs, Hooker, Tracers, MaxOps, MaxCalls,
    Ranges, Perm, MaxHides, MaxWrites

\* Loader: the bounds.
ASSUME LoaderAssumption == MaxAdds \in Nat /\ LoaderLoads \in Nat

\* SoList: the head is no library, null is no block, and the lock tells threads apart.
ASSUME ListAssumption ==
    /\ IsFiniteSet(Soinfos)
    /\ Libdl \notin Soinfos /\ Null \notin Soinfos \union {Libdl}
    /\ "linker" \notin Removers /\ "nobody" \notin Removers
    /\ ListLoads \in Nat /\ MaxRemovals \in Nat

\* MapsHide: mappings are compared by their addresses, and protected as mmap protects.
ASSUME HideAssumption ==
    /\ Ranges \subseteq Nat
    /\ Perm \in [Ranges -> SUBSET {"r", "w", "x"}]
    /\ MaxWrites \in Nat

VARIABLES
    part,
    hooked, lists, redirect, loads, user, loaded, added, overlap, begun, ended,
    next, sonext, live, target, lock, guards, linker, remover, holds, removed,
        raced, misused, loadCount, removals,
    isInited, isHookAll, forbidSoList, filterSoList, isSave, traceOs, deleted,
        everywhere, callback, hookedLibs, th, broken, ops, calls, last, stopped, sink, mixed,
    mem, want, hider, snap, crashed, unloaded, hides, failed, taken, lost, hurt, hidden

loadVars == <<hooked, lists, redirect, loads, user, loaded, added, overlap, begun, ended>>
listVars == <<next, sonext, live, target, lock, guards, linker, remover, holds, removed,
              raced, misused, loadCount, removals>>
traceVars == <<isInited, isHookAll, forbidSoList, filterSoList, isSave, traceOs, deleted,
               everywhere, callback, hookedLibs, th, broken, ops, calls, last, stopped, sink, mixed>>
hideVars == <<mem, want, hider, snap, crashed, unloaded, hides, failed, taken, lost, hurt, hidden>>

Load == INSTANCE Loader WITH MaxLoads <- LoaderLoads
List == INSTANCE SoList WITH MaxLoads <- ListLoads, MaxCalls <- MaxRemovals
Trace == INSTANCE Tracer WITH Libs <- TracedLibs
Hide == INSTANCE MapsHide WITH MaxCalls <- MaxHides

PartsInit ==
    /\ part \in {"stack", "load", "list", "trace", "hide"}
    /\ Init /\ Load!Init /\ List!Init /\ Trace!Init /\ Hide!Init
    /\ part # "load" => hooked = "openat"
    /\ part # "list" => holds = [r \in Removers |-> FALSE]
    /\ part # "trace" => isInited = [r \in Tracers |-> FALSE]

PartsNext ==
    /\ UNCHANGED part
    /\ \/ part = "stack" /\ Next /\ UNCHANGED <<loadVars, listVars, traceVars, hideVars>>
       \/ part = "load" /\ Load!Next /\ UNCHANGED <<vars, listVars, traceVars, hideVars>>
       \/ part = "list" /\ List!Next /\ UNCHANGED <<vars, loadVars, traceVars, hideVars>>
       \/ part = "trace" /\ Trace!Next /\ UNCHANGED <<vars, loadVars, listVars, hideVars>>
       \/ part = "hide" /\ Hide!Next /\ UNCHANGED <<vars, loadVars, listVars, traceVars>>

PartsSpec == PartsInit /\ [][PartsNext]_<<part, vars, loadVars, listVars, traceVars, hideVars>>
-----------------------------------------------------------------------------
\* Loader: whoever is registered is told of every load, before and after it.
EveryLoadIsTold == Load!EveryLoadIsTold

\* SoList: the linker's list and its tail stay what the linker needs, until a race.
ListIsWhole == List!ListIsWhole

\* Tracer: calls are traced, and libraries hooked, exactly as the last init asked.
TracedAsSet == Trace!TracedAsSet

\* Tracer: a traced call is safe unless an init or a stop is under way during it.
CallsAreSafe == Trace!CallsAreSafe

\* MapsHide: the library is left as it was, in anonymous memory, and every crash has
\* a cause.
HidingIsClean == Hide!HidingIsClean

MCPerm == <<{"r", "x"}, {}, {"r", "w"}>>

ThreadSymmetry == Permutations(Threads)
=============================================================================
