-------------------------------- MODULE Hub --------------------------------
(***************************************************************************)
(* sh_hub.cpp, SHARED mode: the chain of proxies of a hooked function and  *)
(* the per-thread stack of frames that lets a proxy find the next one.     *)
(*                                                                         *)
(* A hooked function jumps to its hub's trampoline, which asks             *)
(* sh_hub_push_stack for the function to run: the newest enabled proxy, or *)
(* the original.  A proxy runs the next one with SHADOWHOOK_CALL_PREV and  *)
(* pops the frame with SHADOWHOOK_STACK_SCOPE when it returns.  Readers    *)
(* walk the list of proxies without the lock, one proxy per step here,     *)
(* while sh_hub_add_proxy and sh_hub_del_proxy change it.                  *)
(***************************************************************************)
EXTENDS Integers, FiniteSets, Sequences, SequencesExt

CONSTANTS
    Threads,
    Hubs,       \* one for each hooked function
    Funcs,      \* proxy functions; one may serve several hubs
    MaxFrames,  \* SH_HUB_STACK_FRAME_MAX
    MaxDepth,   \* bound: nesting of native calls
    MaxEdits    \* bound: calls of add_proxy and del_proxy

ASSUME BoundAssumption == MaxFrames \in Nat /\ MaxDepth \in Nat /\ MaxEdits \in Nat

VARIABLES
    proxies,    \* proxies[h]: the list, oldest first (the head is the last)
    frames,     \* frames[t]: sh_hub_stack_t of the thread
    calls,      \* calls[t]: the native call stack of the thread
    at, cur,    \* at[t]: what the thread executes; cur[t]: its list cursor
    edits

vars == <<proxies, frames, calls, at, cur, edits>>

NoHub == "no hub"
NoFunc == "no func"

\* The hooked functions are told from what is no hooked function, and so on.
ASSUME NamesAssumption == {NoHub, "prev"} \intersect Hubs = {} /\ NoFunc \notin Funcs

Top(t) == Last(calls[t])
Frame_Mutant(t) == Head(frames[t])     \* the oldest frame
Frame(t) == Last(frames[t])

Enabled(h) == {p.func : p \in {q \in ToSet(proxies[h]) : q.enabled}}

(***************************************************************************)
(* An activation is a function on the native stack: the application, the   *)
(* trampoline (while it runs push_stack), a proxy or an original function. *)
(* ra is the address it returns to, that is the call site in its caller's  *)
(* code: the same at each level of a recursion.  first tells the function  *)
(* that a trampoline jumped to from one reached through CALL_PREV.         *)
(* must and may are history: the proxies that have been enabled ever since *)
(* the hooked function was called, and those that were at some time since. *)
(***************************************************************************)
App == [kind |-> "app", hub |-> NoHub, func |-> NoFunc, ra |-> <<"start", "start">>,
        first |-> TRUE, must |-> {}, may |-> {}]

Code(a) == CASE a.kind = "proxy" -> a.func
             [] a.kind = "orig" -> a.hub
             [] OTHER -> "app"

SetTop(t, a) == calls' = [calls EXCEPT ![t] = Append(Front(@), a)]
Push(t, a) == calls' = [calls EXCEPT ![t] = Append(@, a)]
Become(t, what) == at' = [at EXCEPT ![t] = what]

Init ==
    /\ proxies = [h \in Hubs |-> << >>]
    /\ frames = [t \in Threads |-> << >>]
    /\ calls = [t \in Threads |-> <<App>>]
    /\ at = [t \in Threads |-> "run"]
    /\ cur = [t \in Threads |-> 0]
    /\ edits = 0
-----------------------------------------------------------------------------
\* Any code may call a hooked function: the application, a proxy, an original.
Call(t, h) ==
    /\ at[t] = "run"
    /\ Len(calls[t]) < MaxDepth
    /\ Push(t, [kind |-> "trampo", hub |-> h, func |-> NoFunc,
                ra |-> <<Code(Top(t)), h>>, first |-> TRUE,
                must |-> Enabled(h), may |-> Enabled(h)])
    /\ Become(t, "push")
    /\ UNCHANGED <<proxies, frames, cur, edits>>

\* Lines 267-275: a frame of the same function that does not allow reentry.
Recursive_Mutant(t) ==                 \* looks at the current frame only
    /\ frames[t] # << >>
    /\ ~Frame(t).reentrant /\ Frame(t).hub = Top(t).hub
Recursive(t) ==
    \E i \in 1..Len(frames[t]) :
        ~frames[t][i].reentrant /\ frames[t][i].hub = Top(t).hub

\* The trampoline jumps to the original function.
\* A recursive call, or one too deep, promises nothing to the proxies.
RunOrig(t, promise) ==
    /\ SetTop(t, [Top(t) EXCEPT !.kind = "orig", !.must = promise])
    /\ Become(t, "run")
    /\ cur' = [cur EXCEPT ![t] = 0]

PushStart(t) ==
    /\ at[t] = "push"
    /\ \/ /\ Recursive(t)
          /\ RunOrig(t, {})
       \/ /\ ~Recursive(t)
          /\ Become(t, "walk")
          /\ cur' = [cur EXCEPT ![t] = Len(proxies[Top(t).hub])]
          /\ UNCHANGED calls
    /\ UNCHANGED <<proxies, frames, edits>>

\* The walk of lines 281-282 past a proxy that is not enabled.
PushSkip(t) ==
    /\ at[t] = "walk" /\ cur[t] > 0
    /\ ~proxies[Top(t).hub][cur[t]].enabled
    /\ cur' = [cur EXCEPT ![t] = @ - 1]
    /\ UNCHANGED <<proxies, frames, calls, at, edits>>

PushFound(t) ==
    /\ at[t] = "walk" /\ cur[t] > 0
    /\ proxies[Top(t).hub][cur[t]].enabled
    /\ \/ /\ Len(frames[t]) >= MaxFrames
          /\ RunOrig(t, {})
       \/ /\ Len(frames[t]) < MaxFrames
          /\ Become(t, "found")
          /\ UNCHANGED <<calls, cur>>
    /\ UNCHANGED <<proxies, frames, edits>>

PushNone(t) ==
    /\ at[t] = "walk" /\ cur[t] = 0
    /\ RunOrig(t, Top(t).must)
    /\ UNCHANGED <<proxies, frames, edits>>

\* Lines 285-295: the head of the list is read again for the frame.
PushFrame(t) ==
    /\ at[t] = "found"
    /\ LET h == Top(t).hub
       IN  /\ frames' = [frames EXCEPT ![t] = Append(@,
                [hub |-> h, head |-> Len(proxies[h]), ra |-> Top(t).ra,
                 reentrant |-> FALSE])]
           /\ SetTop(t, [Top(t) EXCEPT !.kind = "proxy",
                                       !.func = proxies[h][cur[t]].func])
    /\ Become(t, "run")
    /\ cur' = [cur EXCEPT ![t] = 0]
    /\ UNCHANGED <<proxies, edits>>

\* SHADOWHOOK_CALL_PREV in a proxy: lines 511-520 find the proxy itself.
Position(h, head, f) ==
    IF \E i \in 1..head : proxies[h][i].func = f
    THEN CHOOSE i \in 1..head : proxies[h][i].func = f
    ELSE 1

Prev_Mutant(t) ==                      \* starts the search at the proxy itself
    /\ at[t] = "run" /\ Top(t).kind = "proxy"
    /\ Len(calls[t]) < MaxDepth
    /\ frames[t] # << >>
    /\ Become(t, "prev")
    /\ cur' = [cur EXCEPT ![t] = Position(Frame(t).hub, Frame(t).head, Top(t).func)]
    /\ UNCHANGED <<proxies, frames, calls, edits>>
Prev(t) ==
    /\ at[t] = "run" /\ Top(t).kind = "proxy"
    /\ Len(calls[t]) < MaxDepth
    /\ \/ /\ frames[t] = << >>
          /\ Become(t, "abort")
          /\ UNCHANGED cur
       \/ /\ frames[t] # << >>
          /\ Become(t, "prev")
          /\ cur' = [cur EXCEPT ![t] =
                        Position(Frame(t).hub, Frame(t).head, Top(t).func) - 1]
    /\ UNCHANGED <<proxies, frames, calls, edits>>

\* Line 522: a disabled proxy is passed over.
PrevSkip_Mutant(t) ==                  \* ends the walk at a disabled proxy
    /\ at[t] = "prev" /\ cur[t] > 0
    /\ ~proxies[Frame(t).hub][cur[t]].enabled
    /\ cur' = [cur EXCEPT ![t] = 0]
    /\ UNCHANGED <<proxies, frames, calls, at, edits>>
PrevSkip(t) ==
    /\ at[t] = "prev" /\ cur[t] > 0
    /\ ~proxies[Frame(t).hub][cur[t]].enabled
    /\ cur' = [cur EXCEPT ![t] = @ - 1]
    /\ UNCHANGED <<proxies, frames, calls, at, edits>>

\* The proxy calls what get_prev_func returned.
Run(t, kind, func) ==
    /\ Push(t, [kind |-> kind, hub |-> Frame(t).hub, func |-> func,
                ra |-> <<Top(t).func, "prev">>, first |-> FALSE,
                must |-> {}, may |-> {}])
    /\ Become(t, "run")
    /\ cur' = [cur EXCEPT ![t] = 0]

PrevFound_Mutant(t) ==                 \* runs the next proxy, enabled or not
    /\ at[t] = "prev" /\ cur[t] > 0
    /\ Run(t, "proxy", proxies[Frame(t).hub][cur[t]].func)
    /\ UNCHANGED <<proxies, frames, edits>>
PrevFound(t) ==
    /\ at[t] = "prev" /\ cur[t] > 0
    /\ proxies[Frame(t).hub][cur[t]].enabled
    /\ Run(t, "proxy", proxies[Frame(t).hub][cur[t]].func)
    /\ UNCHANGED <<proxies, frames, edits>>

PrevNone(t) ==
    /\ at[t] = "prev" /\ cur[t] = 0
    /\ Run(t, "orig", NoFunc)
    /\ UNCHANGED <<proxies, frames, edits>>

\* The destructor of SHADOWHOOK_STACK_SCOPE: only the first proxy pops.
PopStack_Mutant(t, ra) ==              \* every proxy of the chain pops
    frames' = [frames EXCEPT ![t] = IF @ # << >> THEN Front(@) ELSE @]
PopStack(t, ra) ==
    frames' = [frames EXCEPT ![t] =
        IF @ # << >> /\ Last(@).ra = ra THEN Front(@) ELSE @]

Return(t) ==
    /\ at[t] = "run" /\ Len(calls[t]) > 1
    /\ IF Top(t).kind = "proxy" THEN PopStack(t, Top(t).ra) ELSE UNCHANGED frames
    /\ calls' = [calls EXCEPT ![t] = Front(@)]
    /\ UNCHANGED <<proxies, at, cur, edits>>

\* SHADOWHOOK_ALLOW_REENTRANT and SHADOWHOOK_DISALLOW_REENTRANT in a proxy.
SetReentrant(t, value) ==
    /\ at[t] = "run" /\ Top(t).kind = "proxy"
    /\ frames[t] # << >> /\ Frame(t).ra = Top(t).ra
    /\ frames' = [frames EXCEPT ![t] =
                    Append(Front(@), [Last(@) EXCEPT !.reentrant = value])]
    /\ UNCHANGED <<proxies, calls, at, cur, edits>>
-----------------------------------------------------------------------------
\* History: an activation of h learns that f was enabled, or disabled.
Learn(h, Update(_)) ==
    calls' = [t \in Threads |-> [i \in 1..Len(calls[t]) |->
        IF calls[t][i].hub = h /\ calls[t][i].first
        THEN Update(calls[t][i]) ELSE calls[t][i]]]

\* sh_hub_add_proxy; a call for an enabled proxy returns HOOK_DUP.
AddProxy(h, f) ==
    /\ edits < MaxEdits
    /\ f \notin Enabled(h)
    /\ \/ \E i \in 1..Len(proxies[h]) :
            /\ proxies[h][i].func = f
            /\ proxies' = [proxies EXCEPT ![h][i].enabled = TRUE]
       \/ /\ \A i \in 1..Len(proxies[h]) : proxies[h][i].func # f
          /\ proxies' = [proxies EXCEPT ![h] =
                            Append(@, [func |-> f, enabled |-> TRUE])]
    /\ Learn(h, LAMBDA a : [a EXCEPT !.may = @ \union {f}])
    /\ edits' = edits + 1
    /\ UNCHANGED <<frames, at, cur>>

\* sh_hub_del_proxy.
DelProxy(h, f) ==
    /\ edits < MaxEdits
    /\ \E i \in 1..Len(proxies[h]) :
        /\ proxies[h][i].func = f /\ proxies[h][i].enabled
        /\ proxies' = [proxies EXCEPT ![h][i].enabled = FALSE]
    /\ Learn(h, LAMBDA a : [a EXCEPT !.must = @ \ {f}])
    /\ edits' = edits + 1
    /\ UNCHANGED <<frames, at, cur>>

Next ==
    \/ \E t \in Threads :
        \/ \E h \in Hubs : Call(t, h)
        \/ PushStart(t) \/ PushSkip(t) \/ PushFound(t) \/ PushNone(t) \/ PushFrame(t)
        \/ Prev(t) \/ PrevSkip(t) \/ PrevFound(t) \/ PrevNone(t)
        \/ Return(t)
        \/ \E value \in BOOLEAN : SetReentrant(t, value)
    \/ \E h \in Hubs, f \in Funcs : AddProxy(h, f) \/ DelProxy(h, f)

Spec == Init /\ [][Next]_vars
-----------------------------------------------------------------------------
Sites == (Hubs \union Funcs \union {"app", "start"}) \X (Hubs \union {"prev", "start"})

TypeOK ==
    /\ proxies \in [Hubs -> Seq([func : Funcs, enabled : BOOLEAN])]
    /\ frames \in [Threads ->
            Seq([hub : Hubs, head : Nat, ra : Sites, reentrant : BOOLEAN])]
    /\ calls \in [Threads ->
            Seq([kind : {"app", "trampo", "proxy", "orig"},
                 hub : Hubs \union {NoHub}, func : Funcs \union {NoFunc},
                 ra : Sites, first : BOOLEAN,
                 must : SUBSET Funcs, may : SUBSET Funcs])]
    /\ at \in [Threads -> {"run", "push", "walk", "found", "prev", "abort"}]
    /\ cur \in [Threads -> Nat]
    /\ edits \in 0..MaxEdits

\* The proxies on t's stack that a trampoline jumped to.
Entered(t) == {i \in 1..Len(calls[t]) : calls[t][i].kind = "proxy" /\ calls[t][i].first}

\* How many of them the first i activations hold.
Level(t, i) == Cardinality({k \in Entered(t) : k <= i})

(* Every frame belongs to exactly one running chain of proxies and comes   *)
(* off the stack with it, through recursion, reentry and a full stack: the *)
(* frame that CALL_PREV, RETURN_ADDRESS and ALLOW_REENTRANT read is the    *)
(* one pushed for the call being served, the stack never outgrows its      *)
(* array, and get_prev_func never aborts.  The state keeps its types.      *)
FramesMatchCalls == TypeOK /\ \A t \in Threads :
    /\ at[t] # "abort"
    /\ Len(frames[t]) = Level(t, Len(calls[t])) /\ Len(frames[t]) <= MaxFrames
    /\ \A i \in Entered(t) :
        /\ frames[t][Level(t, i)].hub = calls[t][i].hub
        /\ frames[t][Level(t, i)].ra = calls[t][i].ra

(* A proxy is not run again for the function it is serving unless the      *)
(* chain that is running allowed it: two frames of one function on one     *)
(* stack means that the older one is reentrant.                            *)
NoUnwantedReentry == \A t \in Threads : \A i, j \in 1..Len(frames[t]) :
    i < j /\ frames[t][i].hub = frames[t][j].hub => frames[t][i].reentrant

\* The activation that entered the chain to which calls[t][i] belongs.
Entry(t, i) == CHOOSE e \in 1..i :
    calls[t][e].first /\ \A k \in e + 1..i : ~calls[t][k].first
Chain(t, i) == {calls[t][k].func : k \in Entry(t, i)..i} \ {NoFunc}

OnlyHookedRun == \A t \in Threads : \A i \in 1..Len(calls[t]) :
    calls[t][i].kind = "proxy" => calls[t][i].func \in calls[t][Entry(t, i)].may

ChainsDescend == \A t \in Threads : \A i, j \in 1..Len(calls[t]) :
    /\ i < j /\ calls[t][i].kind = "proxy" /\ calls[t][j].kind = "proxy"
    /\ Entry(t, i) = Entry(t, j)
    => calls[t][i].func # calls[t][j].func

(* Unhooking is effective for the calls that start after it: a proxy runs  *)
(* only if it was enabled at some time since the hooked function was       *)
(* called.  And no proxy appears twice in one chain: CALL_PREV always      *)
(* moves towards the original function.                                    *)
ChainsAreSound == OnlyHookedRun /\ ChainsDescend

(* Every hook gets its turn: when the proxies have all called the previous *)
(* function and the original one is reached, each proxy that was enabled   *)
(* all along has run, whatever was added, removed or re-enabled meanwhile. *)
EveryHookRuns == \A t \in Threads : \A i \in 1..Len(calls[t]) :
    calls[t][i].kind = "orig" => calls[t][Entry(t, i)].must \subseteq Chain(t, i)
=============================================================================
