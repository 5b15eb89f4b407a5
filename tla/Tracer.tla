------------------------------- MODULE Tracer -------------------------------
(***************************************************************************)
(* tracer/: the settings and the stream that all tracers share.            *)
(*                                                                         *)
(* Jnitrace, StringHandler and StringHooker are switched on and off by     *)
(* init and stop, three copies of the same code over the static members    *)
(* of TracerBase.  Jnitrace and StringHandler hook functions that every    *)
(* library calls; StringHooker adds a callback to the linker (Loader) and  *)
(* hooks the functions of a library when it is loaded.  A hooked function  *)
(* asks isLister about its caller and writes what it saw.  None of it has  *)
(* a lock, and stop removes no hook.                                       *)
(***************************************************************************)
EXTENDS Naturals, FiniteSets

CONSTANTS
    Threads,
    Libs,
    Hooker,         \* the StringHooker; it is one of Tracers
    Tracers,
    MaxOps,         \* bound: calls of init and stop
    MaxCalls        \* bound: traced calls and loads

NULL == 0

VARIABLES
    isInited,       \* isInited[r]: of the object of tracer r
    isHookAll, forbidSoList, filterSoList, isSave,
    traceOs,        \* the stream it points to, NULL, or one that was deleted
    deleted,        \* the streams that were deleted; they are numbered as they come
    everywhere,     \* the functions that every library calls are hooked
    callback,       \* StringHooker's callback is in the linker's list
    hookedLibs,     \* the libraries that StringHooker hooked
    th,             \* th[t]: the call thread t is in
    broken,         \* a deleted stream was used, or a list while it changed
    ops, calls,     \* how many calls there were
    last,           \* history: the settings that the last init was given
    stopped,        \* history: a stop began after the last init
    sink,           \* history: the stream of the last init that brought one; NULL after a stop
    mixed           \* history: two calls of init or stop overlapped, and since then no init
                    \* that brings a stream has begun alone

settings == <<isHookAll, forbidSoList, filterSoList>>
stream == <<isSave, traceOs, deleted>>
hooks == <<everywhere, callback, hookedLibs>>
history == <<last, stopped, sink, mixed>>
vars == <<isInited, settings, stream, hooks, th, broken, ops, calls, history>>

\* given, os: what init was given; lib: the caller, or the library that was loaded;
\* over: an init or a stop was under way at some moment of the call; asked: it is not
\* construction_1, which writes without asking isLister.
NoSettings == [all |-> FALSE, forbid |-> {}, filter |-> {}, by |-> NULL]
Idle == [at |-> "idle", given |-> NoSettings, os |-> NULL, lib |-> NULL,
         over |-> FALSE, asked |-> TRUE]

\* isInited of an object on the heap is what the memory held.
Init ==
    /\ isInited \in [Tracers -> BOOLEAN]
    /\ isHookAll = FALSE /\ forbidSoList = {} /\ filterSoList = {}
    /\ isSave = FALSE /\ traceOs = NULL /\ deleted = {}
    /\ everywhere = FALSE /\ callback = FALSE /\ hookedLibs = {}
    /\ th = [t \in Threads |-> Idle]
    /\ broken = FALSE /\ ops = 0 /\ calls = 0
    /\ last = NoSettings /\ stopped = FALSE /\ sink = NULL /\ mixed = FALSE

InitPoints == {"lists", "save", "os", "hook"}
StopPoints == {"clear", "close", "unsave"}
ListPoints == {"lists", "clear"}        \* filterSoList and forbidSoList change
WalkPoints == {"match", "load"}         \* they are walked
EndPoints == {"dropped", "logged", "saved", "loaded"}   \* what became of a call
Busy == {t \in Threads : th[t].at \in InitPoints \union StopPoints}
Traced == {t \in Threads : th[t].at \notin InitPoints \union StopPoints \union {"idle"}}

At(t, where) == ~broken /\ th[t].at = where
Goto(t, where) == th' = [th EXCEPT ![t].at = where]
Finish(t) == th' = [th EXCEPT ![t] = Idle]

\* Lists that change while they are walked, or from two sides, break; unless the
\* one was over before the other began.
Changing(t) == broken' \in {FALSE, \E u \in Threads \ {t} : th[u].at \in ListPoints \union WalkPoints}
Walking(t) == broken' \in {FALSE, \E u \in Threads : th[u].at \in ListPoints}

\* An init or a stop begins; every call under way is now overlapped.
BeginOp(t, f) ==
    /\ At(t, "idle") /\ ops < MaxOps
    /\ ops' = ops + 1
    /\ th' = [u \in Threads |-> IF u = t THEN f
                                ELSE IF u \in Traced THEN [th[u] EXCEPT !.over = TRUE] ELSE th[u]]
    /\ UNCHANGED <<stream, hooks, broken, calls>>
-----------------------------------------------------------------------------
(* init of a tracer *)

\* hookAll, the lists and the stream come with the call.  A new stream has a new number.
InitBegin(t, r) == \E given \in [all : BOOLEAN, forbid : SUBSET Libs, filter : SUBSET Libs, by : {r}] :
    \E os \in {NULL, ops + 1} :
      /\ ~isInited[r]
      /\ BeginOp(t, [Idle EXCEPT !.at = "lists", !.given = given, !.os = os])
      /\ isInited' = [isInited EXCEPT ![r] = TRUE]
      /\ isHookAll' = given.all
      /\ last' = given /\ stopped' = FALSE
      /\ sink' = IF os # NULL THEN os ELSE sink
      /\ mixed' = (Busy # {} \/ (mixed /\ os = NULL))
      /\ UNCHANGED <<forbidSoList, filterSoList>>

\* The assignments of the lists, in the span in which they are changing.
InitLists(t) ==
    /\ At(t, "lists") /\ Changing(t)
    /\ forbidSoList' = th[t].given.forbid /\ filterSoList' = th[t].given.filter
    /\ Goto(t, IF th[t].os # NULL THEN "save" ELSE "hook")
    /\ UNCHANGED <<isInited, isHookAll, stream, hooks, ops, calls, history>>

InitSave(t) ==
    /\ At(t, "save")
    /\ isSave' = TRUE
    /\ Goto(t, "os")
    /\ UNCHANGED <<isInited, settings, traceOs, deleted, hooks, broken, ops, calls, history>>

\* Mutant: the stream is kept if there is one.
SetStream_Mutant(os) == IF traceOs # NULL THEN traceOs ELSE os

SetStream(os) == os

InitOs(t) ==
    /\ At(t, "os")
    /\ traceOs' = SetStream(th[t].os)
    /\ Goto(t, "hook")
    /\ UNCHANGED <<isInited, settings, isSave, deleted, hooks, broken, ops, calls, history>>

InitHook(t) ==
    /\ At(t, "hook")
    /\ IF th[t].given.by = Hooker THEN callback' = TRUE /\ UNCHANGED everywhere
       ELSE everywhere' = TRUE /\ UNCHANGED callback
    /\ Finish(t)
    /\ UNCHANGED <<isInited, settings, stream, hookedLibs, broken, ops, calls, history>>
-----------------------------------------------------------------------------
(* stop, the same for every tracer *)

StopBegin(t) ==
    /\ BeginOp(t, [Idle EXCEPT !.at = "clear"])
    /\ stopped' = TRUE /\ sink' = NULL
    /\ mixed' = (mixed \/ Busy # {})
    /\ UNCHANGED <<isInited, settings, last>>

AfterClear == IF traceOs # NULL THEN "close" ELSE "unsave"

StopClear(t) ==
    /\ At(t, "clear") /\ Changing(t)
    /\ filterSoList' = {} /\ forbidSoList' = {}
    /\ Goto(t, AfterClear)
    /\ UNCHANGED <<isInited, isHookAll, stream, hooks, ops, calls, history>>

\* The stream is closed and deleted; the pointer keeps its value.
StopClose(t) ==
    /\ At(t, "close")
    /\ IF traceOs \in deleted THEN broken' = TRUE /\ UNCHANGED deleted
       ELSE deleted' = deleted \union {traceOs} /\ UNCHANGED broken
    /\ Goto(t, "unsave")
    /\ UNCHANGED <<isInited, settings, isSave, traceOs, hooks, ops, calls, history>>

\* Mutant: isSave stays as it is.
Unsaved_Mutant == isSave

Unsaved == FALSE

StopUnsave(t) ==
    /\ At(t, "unsave")
    /\ isSave' = Unsaved
    /\ Finish(t)
    /\ UNCHANGED <<isInited, settings, traceOs, deleted, hooks, broken, ops, calls, history>>
-----------------------------------------------------------------------------
(* A hooked function is called *)

BeginCall(t, l, where, asked) ==
    /\ At(t, "idle") /\ calls < MaxCalls
    /\ calls' = calls + 1
    /\ th' = [th EXCEPT ![t] = [Idle EXCEPT !.at = where, !.lib = l, !.over = Busy # {}, !.asked = asked]]
    /\ UNCHANGED <<isInited, settings, stream, hooks, broken, ops, history>>

Call(t, l) ==
    \/ (everywhere \/ l \in hookedLibs) /\ BeginCall(t, l, "match", TRUE)
    \/ l \in hookedLibs /\ BeginCall(t, l, "write", FALSE)

\* Mutant: the libraries to keep out are only kept out of a filter.
Listed_Mutant(l) == isHookAll \/ (l \notin forbidSoList /\ l \in filterSoList)

\* Mutant: the filter is asked even if all are to be traced.
Listed_Strict(l) == l \notin forbidSoList /\ isHookAll /\ l \in filterSoList

Listed(l) == l \notin forbidSoList /\ (isHookAll \/ l \in filterSoList)

\* The lists are read between here and the next step of the call.
IsLister(t) ==
    /\ At(t, "match") /\ Walking(t)
    /\ Goto(t, IF Listed(th[t].lib) THEN "write" ELSE "dropped")
    /\ UNCHANGED <<isInited, settings, stream, hooks, ops, calls, history>>

\* write_inline has put the line together.
TestSave(t) ==
    /\ At(t, "write")
    /\ Goto(t, IF isSave /\ traceOs # NULL THEN "stream" ELSE "logged")
    /\ UNCHANGED <<isInited, settings, stream, hooks, broken, ops, calls, history>>

\* traceOs is read again.
Save(t) ==
    /\ At(t, "stream")
    /\ broken' = (traceOs \in deleted)
    /\ Goto(t, "saved")
    /\ UNCHANGED <<isInited, settings, stream, hooks, ops, calls, history>>
-----------------------------------------------------------------------------
(* The linker has loaded a library: StringHookerCallBack::loadAfter *)

Load(t, l) == callback /\ BeginCall(t, l, "load", TRUE)

\* Mutant: the libraries to keep out are hooked instead.
ToHook_Mutant == forbidSoList

ToHook == filterSoList

LoadAfter(t) ==
    /\ At(t, "load") /\ Walking(t)
    /\ hookedLibs' = hookedLibs \union (ToHook \intersect {th[t].lib})
    /\ Goto(t, "loaded")
    /\ UNCHANGED <<isInited, settings, stream, everywhere, callback, ops, calls, history>>

\* The hooked function, or the callback, returns.
CallEnd(t) ==
    /\ ~broken /\ th[t].at \in EndPoints /\ Finish(t)
    /\ UNCHANGED <<isInited, settings, stream, hooks, broken, ops, calls, history>>
-----------------------------------------------------------------------------
OpStep(t) ==
    \/ InitLists(t) \/ InitSave(t) \/ InitOs(t) \/ InitHook(t)
    \/ StopClear(t) \/ StopClose(t) \/ StopUnsave(t)
CallStep(t) ==
    \/ IsLister(t) \/ TestSave(t) \/ Save(t)
    \/ LoadAfter(t) \/ CallEnd(t)

Next == \E t \in Threads :
    \/ \E r \in Tracers : InitBegin(t, r)
    \/ StopBegin(t)
    \/ \E l \in Libs : Call(t, l) \/ Load(t, l)
    \/ OpStep(t) \/ CallStep(t)

Spec == Init /\ [][Next]_vars
-----------------------------------------------------------------------------
(* Properties *)

CallPoints == {"match", "write", "stream", "load"} \union EndPoints
Settings == [all : BOOLEAN, forbid : SUBSET Libs, filter : SUBSET Libs, by : Tracers \union {NULL}]

\* Types; every stream is one that an init brought.
TypeOK ==
    /\ isInited \in [Tracers -> BOOLEAN] /\ isSave \in BOOLEAN /\ isHookAll \in BOOLEAN
    /\ forbidSoList \subseteq Libs /\ filterSoList \subseteq Libs /\ hookedLibs \subseteq Libs
    /\ ops \in Nat /\ traceOs \in 0..ops /\ sink \in 0..ops /\ deleted \subseteq 1..ops
    /\ th \in [Threads -> [at : {"idle"} \union InitPoints \union StopPoints \union CallPoints,
                           given : Settings, os : 0..ops, lib : Libs \union {NULL},
                           over : BOOLEAN, asked : BOOLEAN]]
    /\ broken \in BOOLEAN

\* No traced call uses a stream that was deleted, or a list while it changes, unless
\* an init or a stop was under way during that very call: whatever came before, with
\* inits and stops of several tracers in each other's way, the stream that a quiet
\* moment leaves behind is live or not used (isSave, TracerBase.cpp:71-74).
CallsAreSafe == [][\A t \in Threads : CallStep(t) /\ broken' => th[t].over]_vars

\* What the last init asked for; after a stop, which clears the lists but not isHookAll,
\* every library or none.
Wanted(l) == IF stopped THEN last.all
             ELSE l \notin last.forbid /\ (last.all \/ l \in last.filter)

\* A hooked function writes a line exactly if its caller is wanted (isLister), and the
\* line goes to the stream of the last init that brought one, or after a stop to none
\* (write_inline).  A library that the last init named is hooked when it is loaded
\* (loadAfter).  This holds of calls that no init or stop overlaps, and of inits and
\* stops that do not overlap each other; after some that did, from the next init on
\* that brings a stream and begins alone.
TracedAsSet ==
    \A t \in Threads : ~th[t].over /\ ~mixed =>
      LET l == th[t].lib
          at == th[t].at
      IN  /\ at = "dropped" => ~Wanted(l)
          /\ at \in {"logged", "saved"} /\ th[t].asked => Wanted(l)
          /\ at = "logged" => sink = NULL
          /\ at = "saved" => sink # NULL /\ traceOs = sink
          /\ at = "loaded" /\ ~stopped /\ l \in last.filter => l \in hookedLibs
=============================================================================
