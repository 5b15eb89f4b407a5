------------------------------- MODULE Loader -------------------------------
(***************************************************************************)
(* linker/linkerHandler.cpp: callbacks around the loading of libraries.    *)
(*                                                                         *)
(* linkerHandler::init hooks one function of the linker, the first that    *)
(* relocate_linker finds: do_dlopen, which runs with the linker's lock     *)
(* held, or a dlopen in front of it, or, without any of them, the system   *)
(* call openat by which the linker opens a file that it will map later.    *)
(* The hook walks the list of callbacks before and after it calls the      *)
(* original.  The list has no lock.                                        *)
(***************************************************************************)
EXTENDS Naturals, Sequences, FiniteSets, SequencesExt

CONSTANTS
    Threads,
    Libs,
    Hooks,          \* which may be the hooked one: do_dlopen, dlopen, openat
    MaxLoads,       \* bound: loads of all threads
    MaxAdds         \* bound: callbacks added

VARIABLES
    hooked,         \* the function that is hooked
    lists,          \* the lists of callbacks; linkerCallBackList is the newest
    redirect,       \* linkerIoRedirect is set
    loads,          \* loads[t]: the loads t is in, the innermost last
    user,           \* user[t]: the call of linkerHandler t is in
    loaded,         \* the libraries that are loaded
    added,          \* history: the callbacks whose addLinkerCallBack returned
    overlap,        \* history: two calls of addLinkerCallBack overlapped
    begun,          \* how many loads have begun
    ended           \* "no", "freed": freed memory was used, "abort"

listVars == <<lists, added, overlap>>
vars == <<hooked, listVars, redirect, loads, user, loaded, begun, ended>>

Init ==
    /\ hooked \in Hooks
    /\ lists = <<>> /\ redirect = FALSE
    /\ loads = [t \in Threads |-> <<>>] /\ user = [t \in Threads |-> "no"]
    /\ loaded = {} /\ added = {}
    /\ overlap = FALSE
    /\ begun = 0 /\ ended = "no"

Alive == ended = "no"
InLoad(t) == loads[t] # <<>>
Top(t) == loads[t][Len(loads[t])]
At(t, where) == Alive /\ user[t] = "no" /\ InLoad(t) /\ Top(t).at = where
SetTop(t, f) == loads' = [loads EXCEPT ![t] = Front(@) \o <<f>>]
Goto(t, where) == SetTop(t, [Top(t) EXCEPT !.at = where])
-----------------------------------------------------------------------------
(* new_do_dlopen_*, new_dlopen_CI, new___openat *)

\* on, i: the list that is walked, 0 before the walk, and the next callback; before, after: who was told; known: whose
\* add had returned when the load began; over: the linker is done with it.
NewLoad(l) == [lib |-> l, at |-> "before", on |-> 0, i |-> 1, before |-> <<>>, after |-> <<>>,
               known |-> added, to |-> "path", over |-> FALSE]

\* A thread loads a library, or the constructor of one that it loads does.
\* openat is called for a file that is not mapped yet.
Load(t, l) ==
    /\ Alive /\ user[t] = "no" /\ begun < MaxLoads
    /\ InLoad(t) => Top(t).at = IF hooked = "openat" THEN "map" ELSE "orig"
    /\ hooked # "dlopen" => \A u \in Threads \ {t} : ~InLoad(u)
    /\ hooked = "openat" => l \notin loaded
    /\ \A k \in DOMAIN loads[t] : loads[t][k].lib # l
    /\ loads' = [loads EXCEPT ![t] = Append(@, NewLoad(l))]
    /\ begun' = begun + 1
    /\ UNCHANGED <<hooked, listVars, redirect, user, loaded, ended>>

\* The walk reads the pointer once; nothing keeps the list or its callbacks from
\* being freed under it.
Walked(t) == IF Top(t).on = 0 THEN Len(lists) ELSE Top(t).on
IsFreed(n) == n # 0 /\ lists[n].mem = "freed"

\* Mutant: the walk stops before the last callback.
WalkDone_Mutant(t) == Walked(t) # 0 => Top(t).i >= Len(lists[Walked(t)].items)

WalkDone(t) == Walked(t) # 0 => Top(t).i > Len(lists[Walked(t)].items)

Tell(t, where, inside) ==
    /\ At(t, where) /\ ~WalkDone(t) /\ ~IsFreed(Walked(t))
    /\ SetTop(t, [Top(t) EXCEPT !.at = inside, !.on = Walked(t)])
    /\ UNCHANGED <<hooked, listVars, redirect, user, loaded, begun, ended>>

Told(t, inside, where) ==
    /\ At(t, inside) /\ ~IsFreed(Walked(t))
    /\ LET c == lists[Walked(t)].items[Top(t).i]
       IN  SetTop(t, [Top(t) EXCEPT !.at = where, !.i = @ + 1, ![where] = Append(@, c)])
    /\ UNCHANGED <<hooked, listVars, redirect, user, loaded, begun, ended>>

WalkFreed(t) ==
    /\ \E where \in {"before", "in_before", "after", "in_after"} : At(t, where)
    /\ IsFreed(Walked(t))
    /\ ended' = "freed"
    /\ UNCHANGED <<hooked, listVars, redirect, loads, user, loaded, begun>>

LoadBefore(t) == Tell(t, "before", "in_before") \/ Told(t, "in_before", "before")

\* The path is redirected, or not, and the original is called.
BeforeDone(t) ==
    /\ At(t, "before") /\ WalkDone(t) /\ ~IsFreed(Walked(t))
    /\ SetTop(t, [Top(t) EXCEPT !.at = "orig", !.on = 0, !.i = 1, !.to = IF redirect THEN "other" ELSE @])
    /\ UNCHANGED <<hooked, listVars, redirect, user, loaded, begun, ended>>

\* dlopen returns a handle or fails; openat only opens the file, or fails.
Orig(t) ==
    /\ At(t, "orig")
    /\ \E ok \in BOOLEAN :
         /\ loaded' = IF ok /\ hooked # "openat" THEN loaded \union {Top(t).lib} ELSE loaded
         /\ SetTop(t, [Top(t) EXCEPT !.at = "after", !.over = hooked # "openat" \/ ~ok])
    /\ UNCHANGED <<hooked, listVars, redirect, user, begun, ended>>

LoadAfter(t) == Tell(t, "after", "in_after") \/ Told(t, "in_after", "after")

AfterDone(t) ==
    /\ At(t, "after") /\ WalkDone(t) /\ ~IsFreed(Walked(t))
    /\ Goto(t, IF Top(t).over THEN "return" ELSE "map")
    /\ UNCHANGED <<hooked, listVars, redirect, user, loaded, begun, ended>>

\* The linker maps what it has opened.
Map(t) ==
    /\ At(t, "map")
    /\ loaded' = loaded \union {Top(t).lib}
    /\ SetTop(t, [Top(t) EXCEPT !.at = "return", !.over = TRUE])
    /\ UNCHANGED <<hooked, listVars, redirect, user, begun, ended>>

Return(t) ==
    /\ At(t, "return")
    /\ loads' = [loads EXCEPT ![t] = Front(@)]
    /\ UNCHANGED <<hooked, listVars, redirect, user, loaded, begun, ended>>
-----------------------------------------------------------------------------
(* linkerHandler *)

\* A call is made from outside of any load or from a callback.
MayCall(t) ==
    /\ Alive /\ user[t] = "no"
    /\ InLoad(t) => Top(t).at \in {"in_before", "in_after"}

Busy == {t \in Threads : user[t] # "no"}

\* Line 240: the list is made if there is none.
AddCheck(t) ==
    /\ MayCall(t) /\ Cardinality(added) + Cardinality(Busy) < MaxAdds
    /\ user' = [user EXCEPT ![t] = IF lists = <<>> THEN "new_list" ELSE "add"]
    /\ overlap' = (overlap \/ Busy # {})
    /\ UNCHANGED <<hooked, lists, redirect, loads, loaded, added, begun, ended>>

NewList(t) ==
    /\ Alive /\ user[t] = "new_list"
    /\ lists' = Append(lists, [mem |-> "live", items |-> <<>>])
    /\ user' = [user EXCEPT ![t] = "add"]
    /\ UNCHANGED <<hooked, redirect, loads, loaded, added, overlap, begun, ended>>

\* Mutant: the newest callback comes first.
Inserted_Mutant(items, c) == <<c>> \o items

Inserted(items, c) == Append(items, c)

\* Callbacks are numbered as they are added.
NextCallback == Cardinality(added) + 1

AddCallback(t) ==
    /\ Alive /\ user[t] = "add"
    /\ user' = [user EXCEPT ![t] = "no"]
    /\ IF IsFreed(Len(lists))
       THEN ended' = "freed" /\ UNCHANGED <<lists, added>>
       ELSE /\ lists' = [lists EXCEPT ![Len(lists)].items = Inserted(@, NextCallback)]
            /\ added' = added \union {NextCallback} /\ UNCHANGED ended
    /\ UNCHANGED <<hooked, redirect, loads, loaded, overlap, begun>>

\* The callbacks and the list are deleted; the pointer keeps its value.
CleanCallBack(t) ==
    /\ MayCall(t) /\ lists # <<>>
    /\ IF IsFreed(Len(lists)) THEN ended' = "freed" /\ UNCHANGED lists
       ELSE lists' = [lists EXCEPT ![Len(lists)].mem = "freed"] /\ UNCHANGED ended
    /\ UNCHANGED <<hooked, redirect, loads, user, loaded, added, overlap, begun>>

SetRedirect(t) ==
    /\ MayCall(t)
    /\ redirect' = TRUE /\ ended' = IF redirect THEN "abort" ELSE ended
    /\ UNCHANGED <<hooked, listVars, loads, user, loaded, begun>>
-----------------------------------------------------------------------------
LoadSteps(t) ==
    \/ LoadBefore(t) \/ BeforeDone(t) \/ Orig(t) \/ LoadAfter(t) \/ AfterDone(t)
    \/ Map(t) \/ Return(t) \/ WalkFreed(t)
AddSteps(t) == NewList(t) \/ AddCallback(t)

Next == \E t \in Threads :
    \/ \E l \in Libs : Load(t, l)
    \/ LoadSteps(t)
    \/ AddCheck(t) \/ AddSteps(t) \/ CleanCallBack(t) \/ SetRedirect(t)

Spec == Init /\ [][Next]_vars
-----------------------------------------------------------------------------
(* Properties *)

TypeOK ==
    /\ hooked \in Hooks /\ redirect \in BOOLEAN /\ overlap \in BOOLEAN
    /\ \A n \in DOMAIN lists : lists[n].mem \in {"live", "freed"} /\ ToSet(lists[n].items) \subseteq added
    /\ loaded \subseteq Libs /\ added \subseteq 1..MaxAdds
    /\ begun \in 0..MaxLoads /\ ended \in {"no", "freed", "abort"}
    /\ user \in [Threads -> {"no", "new_list", "add"}]

\* Whoever was added before a load began is told before and after it, once; who
\* is told before is told after, in the same order; and who is told after only was
\* added in between.  Loads inside each other, in callbacks' and other threads'
\* company, do not disturb it (onSoLoadedBefore, onSoLoadedAfter).  Two first calls
\* of addLinkerCallBack that overlap lose a list.
EveryLoadIsTold ==
    /\ TypeOK
    /\ \A t \in Threads : \A k \in DOMAIN loads[t] :
         LET f == loads[t][k]
         IN  f.at = "return" /\ ~overlap =>
               /\ IsPrefix(f.before, f.after)
               /\ f.known \subseteq ToSet(f.before)
               /\ Cardinality(ToSet(f.after)) = Len(f.after)
=============================================================================
