------------------------------- MODULE SoList -------------------------------
(***************************************************************************)
(* linker/solist_util.cpp: taking libraries out of the linker's list.      *)
(*                                                                         *)
(* The linker keeps its libraries in a singly linked list, with a pointer  *)
(* to the last one, and changes it with its lock held and the list's       *)
(* memory made writable.  RemoveFromSoList makes it writable too, but      *)
(* does not know the lock: its thread holds it in the hook of do_dlopen    *)
(* (Loader), and nowhere else.  Whether a library is one to remove is all  *)
(* that is kept of its name.                                               *)
(***************************************************************************)
EXTENDS Naturals, Sequences, FiniteSets

CONSTANTS
    Soinfos,        \* blocks of memory, each for the soinfo of a library
    Libdl,          \* the first of the list, the linker itself
    Null,
    Removers,       \* threads that call RemoveFromSoList
    MaxLoads,       \* bound: loads
    MaxCalls        \* bound: calls of RemoveFromSoList

Linker == "linker"
Nobody == "nobody"

VARIABLES
    next, sonext,   \* the list, and where its last element is kept
    live,           \* the blocks in use
    target,         \* those whose library is one to remove
    lock,           \* who holds g_dl_mutex
    guards,         \* ref_count_ of ProtectedDataGuard; 0: the list is read-only
    linker,         \* the operation of the linker
    remover,        \* remover[r]: the call of r
    holds,          \* holds[r]: r calls with the lock held
    removed,        \* history: the libraries in use that were taken out
    raced,          \* a call without the lock overlapped another operation
    misused,        \* memory that was freed, or is read-only, was used
    loadCount, removals     \* how many loads and calls there were

listVars == <<next, sonext, live, target>>
vars == <<listVars, lock, guards, linker, remover, holds, removed, raced, misused, loadCount, removals>>

Quiet == [at |-> "idle", seen |-> <<>>, i |-> 1, trav |-> Null, prev |-> Null]
Waiting == [at |-> "idle", si |-> Null, prev |-> Null]

Init ==
    /\ next = [s \in Soinfos \union {Libdl} |-> Null] /\ sonext = Libdl
    /\ live = {} /\ target = {}
    /\ lock = Nobody /\ guards = 0
    /\ linker = Waiting
    /\ remover = [r \in Removers |-> Quiet]
    /\ holds \in [Removers -> BOOLEAN]
    /\ removed = {} /\ raced = FALSE /\ misused = FALSE
    /\ loadCount = 0 /\ removals = 0

\* What a race leads to is not followed.
Alive == ~misused /\ ~raced
Active(r) == remover[r].at # "idle"
Busy == linker.at # "idle" \/ \E r \in Removers : Active(r)
\* Anything else was freed.
Usable(s) == s = Libdl \/ s \in live
Reads(s) == misused' = ~Usable(s)

\* nth[n]: the element n places behind the head.
Listed ==
    LET nth[n \in Nat] == IF n = 0 THEN Libdl
                          ELSE IF nth[n - 1] = Null THEN Null ELSE next[nth[n - 1]]
    IN  {nth[n] : n \in 0..Cardinality(Soinfos)} \ {Null}
-----------------------------------------------------------------------------
(* The linker: external.  It takes its lock, guards the list, and undoes both. *)

LinkerEnter ==
    /\ Alive /\ linker.at = "idle" /\ lock = Nobody
    /\ lock' = Linker /\ guards' = guards + 1 /\ raced' = (raced \/ Busy)

LinkerLeave == lock' = Nobody /\ guards' = guards - 1 /\ linker' = Waiting

LoadLink == \E s \in Soinfos \ live : \E hide \in BOOLEAN :
    /\ LinkerEnter /\ loadCount < MaxLoads
    /\ linker' = [at |-> "load", si |-> s, prev |-> sonext]
    /\ live' = live \union {s} /\ target' = IF hide THEN target \union {s} ELSE target
    /\ next' = [next EXCEPT ![s] = Null, ![sonext] = s]
    /\ loadCount' = loadCount + 1
    /\ UNCHANGED <<sonext, remover, holds, removed, misused, removals>>

LoadTail ==
    /\ Alive /\ linker.at = "load"
    /\ sonext' = linker.si
    /\ LinkerLeave
    /\ UNCHANGED <<next, live, target, remover, holds, removed, raced, misused, loadCount, removals>>

\* A library that is in the list is unloaded: its place is found, then it goes.
UnloadFind == \E s \in live : \E p \in Listed :
    /\ LinkerEnter /\ next[p] = s
    /\ linker' = [at |-> "unload", si |-> s, prev |-> p]
    /\ UNCHANGED <<listVars, remover, holds, removed, misused, loadCount, removals>>

UnloadFree ==
    /\ Alive /\ linker.at = "unload"
    /\ next' = [next EXCEPT ![linker.prev] = next[linker.si]]
    /\ sonext' = IF sonext = linker.si THEN linker.prev ELSE sonext
    /\ live' = live \ {linker.si} /\ target' = target \ {linker.si}
    /\ removed' = removed \ {linker.si}
    /\ LinkerLeave
    /\ UNCHANGED <<remover, holds, raced, misused, loadCount, removals>>
-----------------------------------------------------------------------------
(* RemovePathsFromSolist *)

At(r, where) == Alive /\ remover[r].at = where
Set(r, f) == remover' = [remover EXCEPT ![r] = f]
Cur(r) == remover[r].seen[remover[r].i]

\* Mutant: the list is not made writable.
Guarded_Mutant == guards
Guarded == guards + 1

\* In the hook of do_dlopen the caller has the lock.
Remove(r) ==
    /\ At(r, "idle") /\ removals < MaxCalls
    /\ holds[r] => lock = Nobody
    /\ lock' = IF holds[r] THEN r ELSE lock
    /\ guards' = Guarded /\ raced' = (raced \/ Busy)
    /\ Set(r, [Quiet EXCEPT !.at = "list", !.trav = Libdl])
    /\ removals' = removals + 1
    /\ UNCHANGED <<listVars, linker, holds, removed, misused, loadCount>>

\* linker_get_solist: a copy of the list, element by element.
GetSolist(r) ==
    /\ At(r, "list")
    /\ LET f == remover[r]
       IN  IF f.trav = Null THEN Set(r, [f EXCEPT !.at = "match"]) /\ UNCHANGED misused
           ELSE /\ Set(r, [f EXCEPT !.seen = Append(@, f.trav), !.trav = next[f.trav]])
                /\ Reads(f.trav)
    /\ UNCHANGED <<listVars, lock, guards, linker, holds, removed, raced, loadCount, removals>>

\* The path of each of them is compared.
Match(r) ==
    /\ At(r, "match")
    /\ LET f == remover[r]
       IN  IF f.i > Len(f.seen) THEN Set(r, [f EXCEPT !.at = "done"]) /\ UNCHANGED misused
           ELSE /\ Set(r, IF Cur(r) \in target
                          THEN [f EXCEPT !.at = "find", !.trav = Libdl, !.prev = Null]
                          ELSE [f EXCEPT !.i = @ + 1])
                /\ Reads(Cur(r))
    /\ UNCHANGED <<listVars, lock, guards, linker, holds, removed, raced, loadCount, removals>>

\* solist_remove_soinfo: the one before it is searched from the head.
Find(r) ==
    /\ At(r, "find")
    /\ LET f == remover[r]
       IN  \/ /\ f.trav = Null
              /\ Set(r, [f EXCEPT !.at = "match", !.i = @ + 1])
              /\ UNCHANGED misused
           \/ /\ f.trav = Cur(r)
              /\ Set(r, [f EXCEPT !.at = "unlink"])
              /\ UNCHANGED misused
           \/ /\ f.trav \notin {Null, Cur(r)}
              /\ Set(r, [f EXCEPT !.prev = f.trav, !.trav = next[f.trav]])
              /\ Reads(f.trav)
    /\ UNCHANGED <<listVars, lock, guards, linker, holds, removed, raced, loadCount, removals>>

\* prev is not null, since the first element is no library.
Unlink(r) ==
    /\ At(r, "unlink")
    /\ LET f == remover[r]
       IN  /\ next' = [next EXCEPT ![f.prev] = next[Cur(r)]]
           /\ misused' = ~(Usable(Cur(r)) /\ Usable(f.prev) /\ guards > 0)
           /\ Set(r, [f EXCEPT !.at = "tail"])
    /\ removed' = removed \union ({Cur(r)} \intersect live)
    /\ UNCHANGED <<sonext, live, target, lock, guards, linker, holds, raced, loadCount, removals>>

\* Mutant: the last one stays what it was.
MoveTail_Mutant(r) ==
    /\ At(r, "tail")
    /\ Set(r, [remover[r] EXCEPT !.at = "match", !.i = @ + 1])
    /\ UNCHANGED <<listVars, lock, guards, linker, holds, removed, raced, misused, loadCount, removals>>

\* Mutant: the end of the list moves on to the next element.
TailNext_Mutant(r) ==
    /\ At(r, "tail")
    /\ sonext' = IF sonext = Cur(r) THEN next[Cur(r)] ELSE sonext
    /\ Set(r, [remover[r] EXCEPT !.at = "match", !.i = @ + 1])
    /\ UNCHANGED <<next, live, target, lock, guards, linker, holds, removed, raced, misused, loadCount, removals>>

\* Mutant: the element after a removed one is skipped.
SkipNext_Mutant(r) ==
    /\ At(r, "tail")
    /\ sonext' = IF sonext = Cur(r) THEN remover[r].prev ELSE sonext
    /\ Set(r, [remover[r] EXCEPT !.at = "match", !.i = @ + 2])
    /\ UNCHANGED <<next, live, target, lock, guards, linker, holds, removed, raced, misused, loadCount, removals>>

MoveTail(r) ==
    /\ At(r, "tail")
    /\ sonext' = IF sonext = Cur(r) THEN remover[r].prev ELSE sonext
    /\ Set(r, [remover[r] EXCEPT !.at = "match", !.i = @ + 1])
    /\ UNCHANGED <<next, live, target, lock, guards, linker, holds, removed, raced, misused, loadCount, removals>>

Done(r) ==
    /\ At(r, "done")
    /\ Set(r, Quiet)
    /\ guards' = guards - 1
    /\ lock' = IF holds[r] THEN Nobody ELSE lock
    /\ UNCHANGED <<listVars, linker, holds, removed, raced, misused, loadCount, removals>>
-----------------------------------------------------------------------------
Step(r) == GetSolist(r) \/ Match(r) \/ Find(r) \/ Unlink(r) \/ MoveTail(r) \/ Done(r)

Next ==
    \/ LoadLink \/ LoadTail \/ UnloadFind \/ UnloadFree
    \/ \E r \in Removers : Remove(r) \/ Step(r)

Spec == Init /\ [][Next]_vars
-----------------------------------------------------------------------------
(* Properties *)

TypeOK ==
    /\ next \in [Soinfos \union {Libdl} -> Soinfos \union {Null}]
    /\ sonext \in Soinfos \union {Libdl}
    /\ target \subseteq live /\ live \subseteq Soinfos /\ removed \subseteq live
    /\ lock \in Removers \union {Linker, Nobody}
    /\ guards \in Nat /\ loadCount \in 0..MaxLoads /\ removals \in 0..MaxCalls
    /\ raced \in BOOLEAN /\ misused \in BOOLEAN

\* Between the operations the list holds the libraries in use without the removed
\* ones, and *sonext is the last of them, where the linker will append the next; when
\* a call is over, none of the libraries it was to remove is in the list: as long as
\* no call without the lock has overlapped another operation.  Before that no freed
\* soinfo is read or written and nothing is written to a read-only list, and calls in
\* the hook of do_dlopen never race.
ListIsWhole ==
    /\ TypeOK
    /\ ~Busy =>
         /\ Listed = {Libdl} \union (live \ removed)
         /\ sonext \in Listed /\ next[sonext] = Null
    /\ \A r \in Removers : At(r, "done") => Listed \intersect target = {}
    /\ ~misused /\ (raced => \E r \in Removers : ~holds[r])
=============================================================================
