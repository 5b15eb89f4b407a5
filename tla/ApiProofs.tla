------------------------------ MODULE ApiProofs -----------------------------
(***************************************************************************)
(* Proofs about Api and the Recorder below it, for every number of threads *)
(* and functions, all sizes and limits of the buffers, and calls without   *)
(* end.                                                                    *)
(***************************************************************************)
EXTENDS Api, SequenceTheorems, TLAPS

USE DEF NULL, Nobody
USE ThreadsAssumption, MainAssumption, StubsAssumption
-----------------------------------------------------------------------------
(* The calls and their arguments *)

Args == {NULL} \union Funcs \union Stubs \union BOOLEAN
        \union {"dobby", "shadowhook", "shared", "unique", "string", "fd"}
Calls == [at : CallPoints, arg : Args, stub : Args, ok : BOOLEAN,
          back : {"user", "Hooker", "unHook"}]
Entries == [orig : Args, ret : Args, module : {"dobby", "shadowhook"}]

Typed == call \in [Threads -> Calls] /\ hookedList \in Seq(Entries)

LEMMA IdleCall == Idle \in Calls /\ Idle.at = "idle" /\ Idle.back = "user"
BY DEF Idle, Calls, Args, CallPoints

LEMMA Shorter ==
    ASSUME NEW S, NEW list \in Seq(S), NEW i \in DOMAIN list
    PROVE  Without(list, i) \in Seq(S)
<1>1. i \in 1..Len(list) /\ Len(list) \in Nat
  BY LenProperties
<1>2. SubSeq(list, 1, i - 1) \in Seq(S) /\ SubSeq(list, i + 1, Len(list)) \in Seq(S)
  <2>1. \A k \in 1..i - 1 : list[k] \in S
    BY <1>1, ElementOfSeq
  <2>2. \A k \in i + 1..Len(list) : list[k] \in S
    BY <1>1, ElementOfSeq
  <2> QED
    BY <1>1, <2>1, <2>2, SubSeqProperties
<1> QED
  BY <1>2, ConcatProperties DEF Without

\* Only the call of t changes.
CallStep(t) == call' \in [Threads -> Calls] /\ \A u \in Threads : u # t => call'[u] = call[u]

LEMMA StepOfCall ==
    ASSUME Typed, NEW t \in Threads, NEW r \in Calls, call' = [call EXCEPT ![t] = r]
    PROVE  CallStep(t) /\ call'[t] = r
BY DEF Typed, CallStep

\* How the steps change a call.
LEMMA CallEnds ==
    ASSUME Typed, NEW t \in Threads, call' = [call EXCEPT ![t] = Idle]
    PROVE  CallStep(t) /\ call'[t] = Idle
BY IdleCall, StepOfCall

LEMMA CallMoves ==
    ASSUME Typed, NEW t \in Threads, NEW w \in CallPoints,
           call' = [call EXCEPT ![t].at = w]
    PROVE  CallStep(t) /\ call'[t] = [call[t] EXCEPT !.at = w]
<1>1. call[t] \in Calls
  BY DEF Typed
<1>2. [call[t] EXCEPT !.at = w] \in Calls
  BY <1>1 DEF Calls
<1>3. call' = [call EXCEPT ![t] = [call[t] EXCEPT !.at = w]]
  BY DEF Typed
<1> QED
  BY <1>2, <1>3, StepOfCall

\* How an operation is begun, by Main or by another thread.
BegunByMain(w, x) ==
    \/ w = "Hooker" /\ x \in Funcs
    \/ w = "unHook" /\ x \in Funcs
    \/ w = "unHook" /\ x \in Stubs
    \/ w = "set model" /\ x \in {"dobby", "shadowhook"}
BegunByUser(t, w, x) ==
    \/ w = "init" /\ x \in {"shared", "unique"}
    \/ w = "hook" /\ x \in Funcs
    \/ w = "unhook" /\ x \in Stubs /\ tasks[x].by = t /\ initErrno = "ok"
    \/ w = "records" /\ x \in {"string", "fd"}
    \/ w = "set recordable" /\ x \in BOOLEAN

LEMMA BeginCases ==
    ASSUME Next
    PROVE  \/ \E w, x : BegunByMain(w, x) /\ Begin(Main, w, x)
           \/ \E t \in Threads : t # Main /\ \E w, x : BegunByUser(t, w, x) /\ Begin(t, w, x)
           \/ \E t \in Threads : Step(t)
BY Zenon DEF Next, MainCalls, UserCalls, BegunByMain, BegunByUser

LEMMA BegunIsCall ==
    ASSUME NEW t, NEW w, NEW x, BegunByMain(w, x) \/ BegunByUser(t, w, x)
    PROVE  w \in CallPoints /\ x \in Args
BY DEF BegunByMain, BegunByUser, CallPoints, Args

LEMMA BeginChanges ==
    ASSUME Typed, NEW t \in Threads, NEW w \in CallPoints, NEW x \in Args, Begin(t, w, x)
    PROVE  /\ call[t].at = "idle"
           /\ CallStep(t) /\ call'[t].at = w /\ call'[t].arg = x /\ call'[t].back = call[t].back
<1>1. call[t].at = "idle" /\ call' = [call EXCEPT ![t].at = w, ![t].arg = x]
  BY DEF Begin, At
<1>2. [call[t] EXCEPT !.at = w, !.arg = x] \in Calls
  BY DEF Typed, Calls
<1>3. call' = [call EXCEPT ![t] = [call[t] EXCEPT !.at = w, !.arg = x]]
  BY <1>1 DEF Typed
<1>4. CallStep(t) /\ call'[t] = [call[t] EXCEPT !.at = w, !.arg = x]
  BY <1>2, <1>3, StepOfCall
<1>5. call'[t].at = w /\ call'[t].arg = x /\ call'[t].back = call[t].back
  BY <1>4 DEF Typed, Calls
<1> QED
  BY <1>1, <1>4, <1>5

LEMMA InitReturnChanges ==
    ASSUME Typed, NEW t \in Threads, NEW r, InitReturn(t, r)
    PROVE  /\ CallStep(t) /\ hookedList' = hookedList
           /\ UNCHANGED <<model, dobby, mixed>>
           /\ IF call[t].back = "Hooker"
              THEN call'[t] = [call[t] EXCEPT !.at = "Hooker list"]
              ELSE call'[t] = Idle
<1>1. "Hooker list" \in CallPoints
  BY DEF CallPoints
<1>2. CASE call[t].back = "Hooker"
  <2>1. call' = [call EXCEPT ![t].at = "Hooker list"]
    BY <1>2 DEF InitReturn
  <2> QED
    BY <1>1, <1>2, <2>1, CallMoves DEF InitReturn
<1>3. CASE call[t].back # "Hooker"
  <2>1. call' = [call EXCEPT ![t] = Idle]
    BY <1>3 DEF InitReturn
  <2> QED
    BY <1>3, <2>1, CallEnds DEF InitReturn, utilVars
<1> QED
  BY <1>2, <1>3

LEMMA InitCheckChanges ==
    ASSUME Typed, NEW t \in Threads, InitCheck(t)
    PROVE  /\ call[t].at = "init"
           /\ UNCHANGED <<initVars, hookVars, recorderVars>>
           /\ \/ /\ CallStep(t) /\ call'[t] = [call[t] EXCEPT !.at = "init lock"]
                 /\ UNCHANGED utilVars
              \/ InitReturn(t, initErrno)
<1>1. CASE initErrno = "uninit"
  <2>1. call' = [call EXCEPT ![t].at = "init lock"] /\ "init lock" \in CallPoints
    BY <1>1 DEF InitCheck, Goto, CallPoints
  <2> QED
    BY <1>1, <2>1, CallMoves DEF InitCheck, At
<1>2. CASE initErrno # "uninit"
  BY <1>2 DEF InitCheck, At
<1> QED
  BY <1>1, <1>2

LEMMA InitBodyChanges ==
    ASSUME Typed, NEW t \in Threads, InitBody(t)
    PROVE  /\ call[t].at = "init lock" /\ initLock = Nobody
           /\ UNCHANGED <<hookVars, recorderVars>>
           /\ \/ /\ initErrno = "uninit"
                 /\ initLock' = t /\ inits' = inits + 1 /\ initErrno' = initErrno
                 /\ mode' = IF call[t].back = "Hooker" THEN "unique" ELSE call[t].arg
                 /\ CallStep(t) /\ call'[t] = [call[t] EXCEPT !.at = "init mods"]
                 /\ UNCHANGED utilVars
              \/ /\ initErrno # "uninit" /\ UNCHANGED initVars
                 /\ InitReturn(t, initErrno)
<1>1. CASE initErrno = "uninit"
  <2>1. call' = [call EXCEPT ![t].at = "init mods"] /\ "init mods" \in CallPoints
    BY <1>1 DEF InitBody, Goto, CallPoints
  <2> QED
    BY <1>1, <2>1, CallMoves DEF InitBody, At
<1>2. CASE initErrno # "uninit"
  BY <1>2 DEF InitBody, At
<1> QED
  BY <1>1, <1>2

LEMMA HookCreateChanges ==
    ASSUME Typed, NEW t \in Threads, HookCreate(t)
    PROVE  /\ call[t].at = "hook"
           /\ UNCHANGED <<recorderVars, initVars, switches>>
           /\ \/ \E s \in Stubs :
                   /\ initErrno = "ok" /\ Free(s)
                   /\ tasks' = [tasks EXCEPT ![s] = [by |-> t, addr |-> call[t].arg]]
                   /\ CallStep(t) /\ call'[t] = [call[t] EXCEPT !.at = "hook switch", !.stub = s]
                   /\ UNCHANGED utilVars
              \/ HookReturn(t, FALSE) /\ UNCHANGED tasks
<1>1. "hook switch" \in CallPoints /\ Stubs \subseteq Args
  BY DEF CallPoints, Args
<1>2. CASE HookReturn(t, FALSE) /\ UNCHANGED tasks
  BY <1>2 DEF HookCreate, At
<1>3. ASSUME NEW s \in Stubs, initErrno = "ok", Free(s),
             tasks' = [tasks EXCEPT ![s] = [by |-> t, addr |-> call[t].arg]],
             call' = [call EXCEPT ![t].at = "hook switch", ![t].stub = s],
             UNCHANGED utilVars
      PROVE  CallStep(t) /\ call'[t] = [call[t] EXCEPT !.at = "hook switch", !.stub = s]
  <2>1. [call[t] EXCEPT !.at = "hook switch", !.stub = s] \in Calls
    BY <1>1 DEF Typed, Calls
  <2>2. call' = [call EXCEPT ![t] = [call[t] EXCEPT !.at = "hook switch", !.stub = s]]
    BY <1>3 DEF Typed
  <2> QED
    BY <2>1, <2>2, StepOfCall
<1>4. call[t].at = "hook" /\ UNCHANGED <<recorderVars, initVars, switches>>
  BY DEF HookCreate, At
<1>5. CASE ~(HookReturn(t, FALSE) /\ UNCHANGED tasks)
  <2>1. PICK s \in Stubs : /\ initErrno = "ok" /\ Free(s)
                           /\ tasks' = [tasks EXCEPT ![s] = [by |-> t, addr |-> call[t].arg]]
                           /\ call' = [call EXCEPT ![t].at = "hook switch", ![t].stub = s]
                           /\ UNCHANGED utilVars
    BY <1>5 DEF HookCreate
  <2> QED
    BY <1>3, <1>4, <2>1
<1> QED
  BY <1>2, <1>5

LEMMA HookReturnChanges ==
    ASSUME Typed, NEW t \in Threads, NEW ok \in BOOLEAN, HookReturn(t, ok)
    PROVE  /\ CallStep(t) /\ call'[t] = Idle
           /\ UNCHANGED <<model, isInted, dobby, mixed>>
           /\ hookedList' \in Seq(Entries)
           /\ hookedList' =
                IF call[t].back = "Hooker" /\ ok
                THEN Append(hookedList, [orig |-> call[t].arg, ret |-> call[t].stub,
                                         module |-> "shadowhook"])
                ELSE hookedList
<1>1. CallStep(t) /\ call'[t] = Idle
  BY CallEnds DEF HookReturn
<1>2. [orig |-> call[t].arg, ret |-> call[t].stub, module |-> "shadowhook"] \in Entries
  BY DEF Typed, Calls, Entries
<1>3. UNCHANGED <<model, isInted, dobby, mixed>>
  BY DEF HookReturn, utilVars
<1>4. hookedList' = IF call[t].back = "Hooker" /\ ok
                    THEN Append(hookedList, [orig |-> call[t].arg, ret |-> call[t].stub,
                                             module |-> "shadowhook"])
                    ELSE hookedList
  BY DEF HookReturn, utilVars
<1>5. hookedList' \in Seq(Entries)
  BY <1>2, <1>4, AppendProperties DEF Typed
<1> QED
  BY <1>1, <1>3, <1>4, <1>5

LEMMA HookSwitchChanges ==
    ASSUME Typed, NEW t \in Threads, HookSwitch(t), NEW a, a = call[t].arg
    PROVE  /\ call[t].at = "hook switch"
           /\ UNCHANGED <<initVars, tasks, utilVars>>
           /\ \E ok \in BOOLEAN :
                /\ Record(t, "hook", ok, call[t].stub, <<"lib", a, CallerLib(t)>>)
                /\ ok => t \notin switches[a] /\ (mode = "unique" => switches[a] = {})
                /\ ok => switches' = [switches EXCEPT ![a] = switches[a] \union {t}]
                /\ ~ok => switches' = switches
                /\ CallStep(t) /\ call'[t] = [call[t] EXCEPT !.at = "hook recorded", !.ok = ok]
<1>1. PICK ok \in BOOLEAN :
        /\ ok => t \notin switches[a] /\ (mode = "unique" => switches[a] = {})
        /\ ok => switches' = [switches EXCEPT ![a] = switches[a] \union {t}]
        /\ ~ok => switches' = switches
        /\ call' = [call EXCEPT ![t].at = "hook recorded", ![t].ok = ok]
        /\ Record(t, "hook", ok, call[t].stub, <<"lib", a, CallerLib(t)>>)
  <2> HIDE DEF Record
  <2> QED
    BY DEF HookSwitch
<1>2. [call[t] EXCEPT !.at = "hook recorded", !.ok = ok] \in Calls
  BY DEF Typed, Calls, CallPoints
<1>3. call' = [call EXCEPT ![t] = [call[t] EXCEPT !.at = "hook recorded", !.ok = ok]]
  BY <1>1 DEF Typed
<1>4. CallStep(t) /\ call'[t] = [call[t] EXCEPT !.at = "hook recorded", !.ok = ok]
  BY <1>2, <1>3, StepOfCall
<1>5. call[t].at = "hook switch" /\ UNCHANGED <<initVars, tasks, utilVars>>
  BY DEF HookSwitch, At
<1> QED
  BY <1>1, <1>4, <1>5

LEMMA UnhookSwitchChanges ==
    ASSUME Typed, NEW t \in Threads, UnhookSwitch(t)
    PROVE  LET s == call[t].arg
               a == tasks[s].addr
           IN  /\ call[t].at = "unhook"
               /\ UNCHANGED <<initVars, tasks, utilVars>>
               /\ \E ok \in BOOLEAN :
                    /\ Record(t, "unhook", ok, s, <<CallerLib(t)>>)
                    /\ switches' = [switches EXCEPT ![a] = IF mode = "unique" THEN {} ELSE switches[a] \ {t}]
                    /\ CallStep(t)
                    /\ call'[t] = [call[t] EXCEPT !.at = "unhook recorded", !.stub = s, !.ok = ok]
<1> DEFINE s == call[t].arg
<1> DEFINE a == tasks[s].addr
<1>1. PICK ok \in BOOLEAN :
        /\ switches' = [switches EXCEPT ![a] = IF mode = "unique" THEN {} ELSE switches[a] \ {t}]
        /\ call' = [call EXCEPT ![t].at = "unhook recorded", ![t].stub = s, ![t].ok = ok]
        /\ Record(t, "unhook", ok, s, <<CallerLib(t)>>)
  <2> HIDE DEF Record
  <2> QED
    BY DEF UnhookSwitch
<1>2. [call[t] EXCEPT !.at = "unhook recorded", !.stub = s, !.ok = ok] \in Calls
  <2>1. call[t] \in Calls /\ s \in Args
    BY DEF Typed, Calls
  <2> HIDE DEF s
  <2> QED
    BY <2>1 DEF Calls, CallPoints
<1>3. call' = [call EXCEPT ![t] = [call[t] EXCEPT !.at = "unhook recorded", !.stub = s, !.ok = ok]]
  BY <1>1 DEF Typed
<1>4. CallStep(t) /\ call'[t] = [call[t] EXCEPT !.at = "unhook recorded", !.stub = s, !.ok = ok]
  BY <1>2, <1>3, StepOfCall
<1>5. call[t].at = "unhook" /\ UNCHANGED <<initVars, tasks, utilVars>>
  BY DEF UnhookSwitch, At
<1> QED
  BY <1>1, <1>4, <1>5

LEMMA UnhookReturnChanges ==
    ASSUME Typed, NEW t \in Threads, UnhookReturn(t)
    PROVE  /\ CallStep(t) /\ call'[t] = Idle
           /\ UNCHANGED <<model, isInted, dobby, mixed>>
           /\ hookedList' \in Seq(Entries)
           /\ \/ /\ call[t].back = "unHook"
                 /\ \E i \in DOMAIN hookedList :
                      hookedList[i].ret = call[t].stub /\ hookedList' = Without(hookedList, i)
              \/ call[t].back # "unHook" /\ hookedList' = hookedList
<1>1. CallStep(t) /\ call'[t] = Idle
  BY CallEnds DEF UnhookReturn
<1>2. CASE call[t].back = "unHook"
  <2>1. PICK i \in DOMAIN hookedList :
          hookedList[i].ret = call[t].stub /\ hookedList' = Without(hookedList, i)
    BY <1>2 DEF UnhookReturn
  <2>2. hookedList' \in Seq(Entries)
    BY <2>1, Shorter DEF Typed
  <2> QED
    BY <1>1, <1>2, <2>1, <2>2 DEF UnhookReturn
<1>3. CASE call[t].back # "unHook"
  BY <1>1, <1>3 DEF UnhookReturn, utilVars, Typed
<1> QED
  BY <1>2, <1>3

LEMMA PlainChanges ==
    ASSUME Typed, NEW t \in Threads
    PROVE  /\ GetRecords(t) =>
                /\ CallStep(t) /\ call[t].at = "records"
                /\ call'[t] = [call[t] EXCEPT !.at = "records got"]
                /\ UNCHANGED <<initVars, hookVars, utilVars>>
           /\ GotRecords(t) =>
                /\ CallStep(t) /\ call[t].at = "records got" /\ call'[t] = Idle
                /\ UNCHANGED <<initVars, hookVars, utilVars>>
           /\ SetRecordable(t) =>
                /\ CallStep(t) /\ call[t].at = "set recordable" /\ call'[t] = Idle
                /\ UNCHANGED <<initVars, hookVars, utilVars>>
           /\ Recording(t) => UNCHANGED <<initVars, hookVars, utilVars, call>>
<1>1. ASSUME GetRecords(t)
      PROVE  /\ CallStep(t) /\ call[t].at = "records"
             /\ call'[t] = [call[t] EXCEPT !.at = "records got"]
             /\ UNCHANGED <<initVars, hookVars, utilVars>>
  <2>1. call' = [call EXCEPT ![t].at = "records got"] /\ "records got" \in CallPoints
    BY <1>1 DEF GetRecords, Goto, CallPoints
  <2> QED
    BY <1>1, <2>1, CallMoves DEF GetRecords, At
<1>2. ASSUME GotRecords(t)
      PROVE  /\ CallStep(t) /\ call[t].at = "records got" /\ call'[t] = Idle
             /\ UNCHANGED <<initVars, hookVars, utilVars>>
  BY <1>2, CallEnds DEF GotRecords, At
<1>3. ASSUME SetRecordable(t)
      PROVE  /\ CallStep(t) /\ call[t].at = "set recordable" /\ call'[t] = Idle
             /\ UNCHANGED <<initVars, hookVars, utilVars>>
  BY <1>3, CallEnds DEF SetRecordable, At
<1>4. Recording(t) => UNCHANGED <<initVars, hookVars, utilVars, call>>
  BY DEF Recording
<1> QED
  BY <1>1, <1>2, <1>3, <1>4

LEMMA HookerChanges ==
    ASSUME Typed, Hooker
    PROVE  /\ call[Main].at = "Hooker" /\ CallStep(Main)
           /\ UNCHANGED <<initVars, hookVars, model, hookedList, dobby, mixed>>
           /\ \/ /\ call'[Main] = [call[Main] EXCEPT !.at = "init", !.back = "Hooker"]
                 /\ model = "shadowhook"
              \/ call'[Main] = [call[Main] EXCEPT !.at = "Hooker list"]
<1>1. call[Main].at = "Hooker" /\ UNCHANGED <<initVars, hookVars, model, hookedList, dobby, mixed>>
  BY DEF Hooker, At
<1>2. CASE ~isInted /\ model = "shadowhook"
  <2>1. [call[Main] EXCEPT !.at = "init", !.back = "Hooker"] \in Calls
    BY DEF Typed, Calls, CallPoints
  <2>2. call' = [call EXCEPT ![Main] = [call[Main] EXCEPT !.at = "init", !.back = "Hooker"]]
    BY <1>2 DEF Hooker, Typed
  <2>3. CallStep(Main) /\ call'[Main] = [call[Main] EXCEPT !.at = "init", !.back = "Hooker"]
    BY <2>1, <2>2, StepOfCall
  <2> QED
    BY <1>1, <1>2, <2>3
<1>3. CASE ~(~isInted /\ model = "shadowhook")
  <2>1. call' = [call EXCEPT ![Main].at = "Hooker list"] /\ "Hooker list" \in CallPoints
    BY <1>3 DEF Hooker, Goto, CallPoints
  <2>2. CallStep(Main) /\ call'[Main] = [call[Main] EXCEPT !.at = "Hooker list"]
    BY <2>1, CallMoves
  <2> QED
    BY <1>1, <2>2
<1> QED
  BY <1>2, <1>3

LEMMA HookerHookChanges ==
    ASSUME Typed, HookerHook
    PROVE  LET a == call[Main].arg
           IN  /\ call[Main].at = "Hooker list" /\ CallStep(Main)
               /\ UNCHANGED <<initVars, hookVars, model, mixed>>
               /\ hookedList' \in Seq(Entries)
               /\ \/ /\ call'[Main] = Idle
                     /\ UNCHANGED <<hookedList, dobby>>
                  \/ /\ call'[Main] = [call[Main] EXCEPT !.at = "hook", !.back = "Hooker"]
                     /\ ~Listed(a) /\ UNCHANGED <<hookedList, dobby>>
                  \/ /\ call'[Main] = Idle
                     /\ ~Listed(a) /\ model = "dobby" /\ a \notin dobby /\ dobby' = dobby \union {a}
                     /\ hookedList' = Append(hookedList, [orig |-> a, ret |-> NULL, module |-> "dobby"])
<1> DEFINE a == call[Main].arg
<1>1. call[Main].at = "Hooker list" /\ UNCHANGED <<initVars, hookVars, model, mixed>>
  BY DEF HookerHook, At
<1>2. hookedList \in Seq(Entries) /\ a \in Args /\ NULL \in Args
  BY DEF Typed, Calls, Args
<1>3. \/ call' = [call EXCEPT ![Main] = Idle] /\ UNCHANGED <<hookedList, dobby>>
      \/ /\ ~Listed(a) /\ call' = [call EXCEPT ![Main].at = "hook", ![Main].back = "Hooker"]
         /\ UNCHANGED <<hookedList, dobby>>
      \/ /\ ~Listed(a) /\ model = "dobby" /\ a \notin dobby /\ dobby' = dobby \union {a}
         /\ hookedList' = Append(hookedList, [orig |-> a, ret |-> NULL, module |-> "dobby"])
         /\ call' = [call EXCEPT ![Main] = Idle]
  BY DEF HookerHook, DobbyHook
<1>4. CASE call' = [call EXCEPT ![Main] = Idle] /\ UNCHANGED <<hookedList, dobby>>
  BY <1>1, <1>2, <1>4, CallEnds
<1>5. CASE /\ ~Listed(a) /\ call' = [call EXCEPT ![Main].at = "hook", ![Main].back = "Hooker"]
           /\ UNCHANGED <<hookedList, dobby>>
  <2>1. [call[Main] EXCEPT !.at = "hook", !.back = "Hooker"] \in Calls
    BY DEF Typed, Calls, CallPoints
  <2>2. call' = [call EXCEPT ![Main] = [call[Main] EXCEPT !.at = "hook", !.back = "Hooker"]]
    BY <1>5 DEF Typed
  <2>3. CallStep(Main) /\ call'[Main] = [call[Main] EXCEPT !.at = "hook", !.back = "Hooker"]
    BY <2>1, <2>2, StepOfCall
  <2> QED
    BY <1>1, <1>2, <1>5, <2>3
<1>6. CASE /\ ~Listed(a) /\ model = "dobby" /\ a \notin dobby /\ dobby' = dobby \union {a}
           /\ hookedList' = Append(hookedList, [orig |-> a, ret |-> NULL, module |-> "dobby"])
           /\ call' = [call EXCEPT ![Main] = Idle]
  <2>1. [orig |-> a, ret |-> NULL, module |-> "dobby"] \in Entries
    BY <1>2 DEF Entries
  <2>2. hookedList' \in Seq(Entries)
    BY <1>2, <1>6, <2>1, AppendProperties
  <2>3. CallStep(Main) /\ call'[Main] = Idle
    BY <1>6, CallEnds
  <2> QED
    BY <1>1, <1>6, <2>2, <2>3
<1> QED
  BY <1>3, <1>4, <1>5, <1>6

LEMMA UnHookChanges ==
    ASSUME Typed, UnHook
    PROVE  /\ call[Main].at = "unHook" /\ CallStep(Main)
           /\ UNCHANGED <<initVars, hookVars, model>>
           /\ hookedList' \in Seq(Entries)
           /\ \/ call'[Main] = Idle /\ UNCHANGED <<hookedList, dobby, mixed>>
              \/ \E i \in DOMAIN hookedList :
                   /\ mixed' = (mixed \/ hookedList[i].module # model)
                   /\ \/ /\ model = "shadowhook" /\ hookedList[i].ret # NULL
                         /\ call'[Main] = [call[Main] EXCEPT !.at = "unhook", !.arg = hookedList[i].ret,
                                                             !.back = "unHook"]
                         /\ UNCHANGED <<hookedList, dobby>>
                      \/ /\ model # "shadowhook" \/ hookedList[i].ret = NULL \/ initErrno # "ok"
                         /\ dobby' = IF model = "dobby" THEN dobby \ {hookedList[i].orig} ELSE dobby
                         /\ hookedList' = Without(hookedList, i)
                         /\ call'[Main] = Idle
<1>1. call[Main].at = "unHook" /\ UNCHANGED <<initVars, hookVars, model>>
  BY DEF UnHook, At
<1>2. hookedList \in Seq(Entries)
  BY DEF Typed
<1>3. CASE call' = [call EXCEPT ![Main] = Idle] /\ UNCHANGED <<hookedList, dobby, mixed>>
  BY <1>1, <1>2, <1>3, CallEnds
<1>4. ASSUME NEW i \in DOMAIN hookedList, mixed' = (mixed \/ hookedList[i].module # model),
             model = "shadowhook" /\ hookedList[i].ret # NULL,
             call' = [call EXCEPT ![Main].at = "unhook", ![Main].arg = hookedList[i].ret,
                                  ![Main].back = "unHook"],
             UNCHANGED <<hookedList, dobby>>
      PROVE  /\ CallStep(Main) /\ hookedList' \in Seq(Entries)
             /\ call'[Main] = [call[Main] EXCEPT !.at = "unhook", !.arg = hookedList[i].ret,
                                                 !.back = "unHook"]
  <2>0. hookedList[i] \in Entries
    BY <1>2, ElementOfSeq, LenProperties
  <2>1. [call[Main] EXCEPT !.at = "unhook", !.arg = hookedList[i].ret, !.back = "unHook"] \in Calls
    <3> DEFINE x == hookedList[i].ret
    <3>1. x \in Args /\ "unhook" \in CallPoints /\ call[Main] \in Calls
      BY <2>0 DEF Entries, CallPoints, Typed
    <3> HIDE DEF x
    <3>2. [call[Main] EXCEPT !.at = "unhook", !.arg = x, !.back = "unHook"] \in Calls
      BY <3>1 DEF Calls
    <3> QED
      BY <3>2 DEF x
  <2>2. call' = [call EXCEPT ![Main] = [call[Main] EXCEPT !.at = "unhook", !.arg = hookedList[i].ret,
                                                          !.back = "unHook"]]
    BY <1>4 DEF Typed
  <2> QED
    BY <1>2, <1>4, <2>1, <2>2, StepOfCall
<1>5. ASSUME NEW i \in DOMAIN hookedList, hookedList' = Without(hookedList, i),
             call' = [call EXCEPT ![Main] = Idle]
      PROVE  CallStep(Main) /\ call'[Main] = Idle /\ hookedList' \in Seq(Entries)
  BY <1>2, <1>5, CallEnds, Shorter
<1>6. CASE ~(call' = [call EXCEPT ![Main] = Idle] /\ UNCHANGED <<hookedList, dobby, mixed>>)
  <2>1. PICK i \in DOMAIN hookedList :
          /\ mixed' = (mixed \/ hookedList[i].module # model)
          /\ IF model = "shadowhook" /\ hookedList[i].ret # NULL /\ initErrno = "ok"
             THEN /\ call' = [call EXCEPT ![Main].at = "unhook", ![Main].arg = hookedList[i].ret,
                                          ![Main].back = "unHook"]
                  /\ UNCHANGED <<hookedList, dobby>>
             ELSE /\ IF model = "dobby" THEN DobbyDestroy(hookedList[i].orig) ELSE UNCHANGED dobby
                  /\ hookedList' = Without(hookedList, i)
                  /\ call' = [call EXCEPT ![Main] = Idle]
    BY <1>6 DEF UnHook
  <2>2. CASE model = "shadowhook" /\ hookedList[i].ret # NULL /\ initErrno = "ok"
    BY <1>1, <1>4, <2>1, <2>2
  <2>3. CASE ~(model = "shadowhook" /\ hookedList[i].ret # NULL /\ initErrno = "ok")
    <3>1. CallStep(Main) /\ call'[Main] = Idle /\ hookedList' \in Seq(Entries)
      BY <1>5, <2>1, <2>3
    <3>2. dobby' = IF model = "dobby" THEN dobby \ {hookedList[i].orig} ELSE dobby
      BY <2>1, <2>3 DEF DobbyDestroy
    <3> QED
      BY <1>1, <2>1, <2>3, <3>1, <3>2
  <2> QED
    BY <2>2, <2>3
<1> QED
  BY <1>3, <1>6

LEMMA SetHookerModleChanges ==
    ASSUME Typed, SetHookerModle
    PROVE  /\ call[Main].at = "set model" /\ CallStep(Main) /\ call'[Main] = Idle
           /\ UNCHANGED <<initVars, hookVars, hookedList, dobby, mixed>>
BY CallEnds DEF SetHookerModle, At
-----------------------------------------------------------------------------
(* shadowhook_init runs once *)

\* The lock is held by the thread in the body; before that nothing is hooked.
Once ==
    /\ inits \in Nat /\ initLock \in Threads \union {Nobody}
    /\ initErrno \in {"uninit", "ok", "failed"}
    /\ \A t \in Threads : initLock = t <=> call[t].at = "init mods"
    /\ initLock # Nobody => initErrno = "uninit"
    /\ initErrno = "uninit" /\ initLock = Nobody => inits = 0
    /\ DOMAIN tasks = Stubs
    /\ initErrno # "ok" => \A s \in Stubs : tasks[s] = NoTask

OnceInv == Typed /\ Once

LEMMA InitOnce ==
    ASSUME Init PROVE OnceInv
<1>1. Typed
  BY IdleCall, EmptySeq DEF Init, Typed
<1>2. Once
  BY DEF Init, Once, Idle
<1> QED
  BY <1>1, <1>2 DEF OnceInv

\* A step away from the body of shadowhook_init.
LEMMA OnceStays ==
    ASSUME OnceInv, NEW t \in Threads, CallStep(t),
           call[t].at # "init mods", call'[t].at # "init mods",
           UNCHANGED initVars, hookedList' \in Seq(Entries), DOMAIN tasks' = Stubs,
           initErrno # "ok" => \A s \in Stubs : tasks'[s] = NoTask
    PROVE  OnceInv'
<1>1. Typed'
  BY DEF Typed, CallStep
<1>2. \A u \in Threads : initLock = u <=> call'[u].at = "init mods"
  BY DEF OnceInv, Once, CallStep
<1>3. Once'
  BY <1>2 DEF OnceInv, Once, initVars
<1> QED
  BY <1>1, <1>3 DEF OnceInv

LEMMA OnceStaysPlain ==
    ASSUME OnceInv, NEW t \in Threads, CallStep(t),
           call[t].at # "init mods", call'[t].at # "init mods",
           UNCHANGED initVars, hookedList' \in Seq(Entries), UNCHANGED tasks
    PROVE  OnceInv'
BY OnceStays DEF OnceInv, Once

LEMMA StepOnce ==
    ASSUME OnceInv, [Next]_vars PROVE OnceInv'
<1> USE DEF OnceInv
<1>1. hookedList \in Seq(Entries)
  BY DEF Typed
<1>2. ASSUME NEW t \in Threads, NEW w, NEW x, Begin(t, w, x), BegunByMain(w, x) \/ BegunByUser(t, w, x)
      PROVE  OnceInv'
  <2>1. w \in CallPoints /\ x \in Args
    BY <1>2, BegunIsCall
  <2>2. /\ call[t].at = "idle"
        /\ CallStep(t) /\ call'[t].at = w
    BY <1>2, <2>1, BeginChanges
  <2>3. w # "init mods"
    BY <1>2 DEF BegunByMain, BegunByUser
  <2>4. UNCHANGED <<initVars, hookVars, utilVars>>
    BY <1>2 DEF Begin
  <2> QED
    BY <1>1, <2>2, <2>3, <2>4, OnceStaysPlain DEF hookVars, utilVars
<1>3. ASSUME NEW t \in Threads, Step(t) PROVE OnceInv'
  <2>1. CASE InitCheck(t)
    <3>1. /\ call[t].at = "init" /\ UNCHANGED <<initVars, hookVars, recorderVars>>
          /\ \/ /\ CallStep(t) /\ call'[t] = [call[t] EXCEPT !.at = "init lock"]
                /\ UNCHANGED utilVars
             \/ InitReturn(t, initErrno)
      BY <2>1, InitCheckChanges
    <3>2. CallStep(t) /\ hookedList' = hookedList /\ call'[t].at # "init mods"
      <4>1. CASE InitReturn(t, initErrno)
        BY <4>1, InitReturnChanges, IdleCall DEF Typed, Calls
      <4>2. CASE /\ CallStep(t) /\ call'[t] = [call[t] EXCEPT !.at = "init lock"]
                 /\ UNCHANGED utilVars
        BY <4>2 DEF Typed, Calls, utilVars
      <4> QED
        BY <3>1, <4>1, <4>2
    <3> QED
      BY <1>1, <3>1, <3>2, OnceStaysPlain DEF hookVars
  <2>2. CASE InitBody(t)
    <3>1. CASE initErrno # "uninit"
      <4>1. /\ call[t].at = "init lock" /\ UNCHANGED <<hookVars, initVars>> /\ InitReturn(t, initErrno)
        BY <2>2, <3>1, InitBodyChanges
      <4>2. CallStep(t) /\ hookedList' = hookedList /\ call'[t].at # "init mods"
        BY <4>1, InitReturnChanges, IdleCall DEF Typed, Calls
      <4> QED
        BY <1>1, <4>1, <4>2, OnceStaysPlain DEF hookVars
    <3>2. CASE initErrno = "uninit"
      <4>1. /\ initLock = Nobody /\ UNCHANGED hookVars
            /\ initLock' = t /\ inits' = inits + 1 /\ initErrno' = initErrno
            /\ CallStep(t) /\ call'[t] = [call[t] EXCEPT !.at = "init mods"]
            /\ UNCHANGED utilVars
        BY <2>2, <3>2, InitBodyChanges
      <4>2. call'[t].at = "init mods"
        BY <4>1 DEF Typed, Calls
      <4>3. Typed'
        BY <4>1 DEF Typed, CallStep, utilVars
      <4>4. \A u \in Threads : initLock' = u <=> call'[u].at = "init mods"
        BY <4>1, <4>2 DEF Once, CallStep
      <4>5. inits' \in Nat /\ t # Nobody
        <5>1. inits \in Nat
          BY DEF Once
        <5>2. inits' = inits + 1
          BY <4>1, Zenon
        <5> QED
          BY <5>1, <5>2
      <4>6. DOMAIN tasks' = Stubs /\ \A s \in Stubs : tasks'[s] = NoTask
        BY <3>2, <4>1 DEF Once, hookVars
      <4>7. Once'
        BY <3>2, <4>1, <4>4, <4>5, <4>6 DEF Once
      <4> QED
        BY <4>3, <4>7
    <3> QED
      BY <3>1, <3>2
  <2>3. CASE InitEnd(t)
    <3>1. PICK r \in {"ok", "failed"} : initErrno' = r /\ InitReturn(t, r)
      BY <2>3 DEF InitEnd
    <3>2. /\ call[t].at = "init mods" /\ initLock' = Nobody /\ inits' = inits /\ UNCHANGED hookVars
      BY <2>3 DEF InitEnd, At
    <3>3. CallStep(t) /\ hookedList' = hookedList /\ call'[t].at # "init mods"
      BY <3>1, InitReturnChanges, IdleCall DEF Typed, Calls
    <3>4. Typed'
      BY <3>3 DEF Typed, CallStep
    <3>5. \A u \in Threads : call'[u].at # "init mods"
      BY <3>2, <3>3 DEF Once, CallStep
    <3>6. initErrno = "uninit" /\ initErrno' \in {"ok", "failed"}
      BY <3>1, <3>2 DEF Once
    <3>7. Once'
      BY <3>1, <3>2, <3>5, <3>6 DEF Once, hookVars
    <3> QED
      BY <3>4, <3>7
  <2>4. CASE HookCreate(t)
    <3>1. call[t].at = "hook" /\ UNCHANGED initVars
      BY <2>4, HookCreateChanges
    <3>2. CASE HookReturn(t, FALSE) /\ UNCHANGED tasks
      <4>1. CallStep(t) /\ hookedList' \in Seq(Entries) /\ call'[t].at # "init mods"
        BY <3>2, HookReturnChanges, IdleCall
      <4> QED
        BY <3>1, <3>2, <4>1, OnceStaysPlain
    <3>3. CASE ~(HookReturn(t, FALSE) /\ UNCHANGED tasks)
      <4>1. PICK s \in Stubs :
               /\ initErrno = "ok" /\ tasks' = [tasks EXCEPT ![s] = [by |-> t, addr |-> call[t].arg]]
               /\ CallStep(t) /\ call'[t] = [call[t] EXCEPT !.at = "hook switch", !.stub = s]
               /\ UNCHANGED utilVars
        BY <2>4, <3>3, HookCreateChanges
      <4>2. call'[t].at # "init mods"
        BY <4>1 DEF Typed, Calls
      <4>3. DOMAIN tasks' = Stubs
        BY <4>1 DEF Once
      <4> QED
        BY <1>1, <3>1, <4>1, <4>2, <4>3, OnceStays DEF utilVars
    <3> QED
      BY <3>2, <3>3
  <2>5. CASE HookSwitch(t)
    <3>1. PICK ok \in BOOLEAN : CallStep(t) /\ call'[t] = [call[t] EXCEPT !.at = "hook recorded", !.ok = ok]
      BY <2>5, HookSwitchChanges
    <3>2. call[t].at = "hook switch" /\ UNCHANGED <<initVars, tasks, utilVars>>
      BY <2>5, HookSwitchChanges
    <3>3. call'[t].at # "init mods"
      BY <3>1 DEF Typed, Calls
    <3> QED
      BY <1>1, <3>1, <3>2, <3>3, OnceStaysPlain DEF utilVars
  <2>6. CASE HookEnd(t)
    <3>1. /\ call[t].at = "hook recorded" /\ UNCHANGED initVars /\ HookReturn(t, call[t].ok)
          /\ tasks' = IF call[t].ok THEN tasks ELSE [tasks EXCEPT ![call[t].stub] = NoTask]
      BY <2>6 DEF HookEnd, At
    <3>2. call[t].ok \in BOOLEAN
      BY DEF Typed, Calls
    <3>3. CallStep(t) /\ hookedList' \in Seq(Entries) /\ call'[t].at # "init mods"
      BY <3>1, <3>2, HookReturnChanges, IdleCall
    <3>4. DOMAIN tasks' = Stubs /\ (initErrno # "ok" => \A s \in Stubs : tasks'[s] = NoTask)
      BY <3>1 DEF Once
    <3> QED
      BY <3>1, <3>3, <3>4, OnceStays
  <2>7. CASE UnhookSwitch(t)
    <3>1. PICK ok \in BOOLEAN :
            CallStep(t) /\ call'[t] = [call[t] EXCEPT !.at = "unhook recorded", !.stub = call[t].arg, !.ok = ok]
      BY <2>7, UnhookSwitchChanges
    <3>2. call[t].at = "unhook" /\ UNCHANGED <<initVars, tasks, utilVars>>
      BY <2>7, UnhookSwitchChanges
    <3>3. call'[t].at # "init mods"
      BY <3>1 DEF Typed, Calls
    <3> QED
      BY <1>1, <3>1, <3>2, <3>3, OnceStaysPlain DEF utilVars
  <2>8. CASE UnhookEnd(t)
    <3>1. /\ call[t].at = "unhook recorded" /\ UNCHANGED initVars /\ UnhookReturn(t)
          /\ tasks' = [tasks EXCEPT ![call[t].stub] = NoTask]
      BY <2>8 DEF UnhookEnd, At
    <3>2. CallStep(t) /\ hookedList' \in Seq(Entries) /\ call'[t].at # "init mods"
      BY <3>1, UnhookReturnChanges, IdleCall
    <3>3. DOMAIN tasks' = Stubs /\ (initErrno # "ok" => \A s \in Stubs : tasks'[s] = NoTask)
      BY <3>1 DEF Once
    <3> QED
      BY <3>1, <3>2, <3>3, OnceStays
  <2>9. CASE GetRecords(t) \/ GotRecords(t) \/ SetRecordable(t)
    <3>1. /\ CallStep(t) /\ call[t].at # "init mods"
          /\ call'[t] = Idle \/ call'[t] = [call[t] EXCEPT !.at = "records got"]
          /\ UNCHANGED <<initVars, hookVars, utilVars>>
      BY <2>9, PlainChanges
    <3>2. call'[t].at # "init mods"
      BY <3>1, IdleCall DEF Typed, Calls
    <3> QED
      BY <1>1, <3>1, <3>2, OnceStaysPlain DEF hookVars, utilVars
  <2>10. CASE Recording(t)
    <3>1. UNCHANGED <<initVars, hookVars, utilVars, call>>
      BY <2>10, PlainChanges
    <3> QED
      BY <3>1 DEF Typed, Once, initVars, hookVars, utilVars
  <2>11. CASE Hooker
    <3>1. /\ call[Main].at = "Hooker" /\ CallStep(Main) /\ UNCHANGED <<initVars, hookVars, hookedList>>
          /\ \/ call'[Main] = [call[Main] EXCEPT !.at = "init", !.back = "Hooker"]
             \/ call'[Main] = [call[Main] EXCEPT !.at = "Hooker list"]
      BY <2>11, HookerChanges
    <3>2. call'[Main].at # "init mods"
      BY <3>1 DEF Typed, Calls
    <3> QED
      BY <1>1, <3>1, <3>2, OnceStaysPlain DEF hookVars
  <2>12. CASE HookerHook
    <3>1. /\ call[Main].at = "Hooker list" /\ CallStep(Main) /\ UNCHANGED <<initVars, hookVars>>
          /\ hookedList' \in Seq(Entries)
          /\ \/ call'[Main] = [call[Main] EXCEPT !.at = "hook", !.back = "Hooker"]
             \/ call'[Main] = Idle
      BY <2>12, HookerHookChanges
    <3>2. call'[Main].at # "init mods"
      BY <3>1, IdleCall DEF Typed, Calls
    <3> QED
      BY <3>1, <3>2, OnceStaysPlain DEF hookVars
  <2>13. CASE UnHook
    <3>1. /\ call[Main].at = "unHook" /\ CallStep(Main) /\ UNCHANGED <<initVars, hookVars>>
          /\ hookedList' \in Seq(Entries)
      BY <2>13, UnHookChanges
    <3>2. call'[Main].at # "init mods"
      <4>1. CASE call'[Main] = Idle
        BY <4>1, IdleCall
      <4>2. CASE call'[Main] # Idle
        <5>1. PICK i \in DOMAIN hookedList :
                call'[Main] = [call[Main] EXCEPT !.at = "unhook", !.arg = hookedList[i].ret,
                                                 !.back = "unHook"]
          BY <2>13, <4>2, UnHookChanges
        <5> QED
          BY <5>1 DEF Typed, Calls
      <4> QED
        BY <4>1, <4>2
    <3> QED
      BY <3>1, <3>2, OnceStaysPlain DEF hookVars
  <2>14. CASE SetHookerModle
    <3>1. /\ call[Main].at = "set model" /\ CallStep(Main) /\ call'[Main].at # "init mods"
          /\ UNCHANGED <<initVars, hookVars, hookedList>>
      BY <2>14, SetHookerModleChanges, IdleCall
    <3> QED
      BY <1>1, <3>1, OnceStaysPlain DEF hookVars
  <2> QED
    BY <1>3, <2>1, <2>2, <2>3, <2>4, <2>5, <2>6, <2>7, <2>8, <2>9, <2>10, <2>11, <2>12, <2>13, <2>14
       DEF Step
<1>4. CASE UNCHANGED vars
  BY <1>4 DEF vars, Typed, Once, initVars, hookVars, utilVars
<1> QED
  BY <1>2, <1>3, <1>4, BeginCases

\* The mode is chosen and the modules are initialised once, by one thread, before
\* any hook, for every number of threads that call shadowhook_init.
THEOREM Initialised == Spec => InitIsOnce
<1>1. Spec => []OnceInv
  BY InitOnce, StepOnce, PTL DEF Spec
<1>2. ASSUME OnceInv, [Next]_vars
      PROVE  [inits' # inits \/ mode' # mode =>
                inits = 0 /\ initErrno = "uninit" /\ \A s \in Stubs : tasks[s] = NoTask]_vars
  <2>1. ASSUME NEW t \in Threads, Step(t), inits' # inits \/ mode' # mode
        PROVE  InitBody(t) /\ ~UNCHANGED initVars
    BY <2>1 DEF Step, initVars, InitCheck, InitEnd, HookCreate, HookSwitch, HookEnd, UnhookSwitch,
                UnhookEnd, GetRecords, GotRecords, SetRecordable, Recording, Hooker, HookerHook,
                UnHook, SetHookerModle
  <2>2. ASSUME NEW t \in Threads, InitBody(t), ~UNCHANGED initVars
        PROVE  inits = 0 /\ initErrno = "uninit" /\ \A s \in Stubs : tasks[s] = NoTask
    BY <1>2, <2>2, InitBodyChanges DEF OnceInv, Once
  <2>3. ASSUME NEW t, NEW w, NEW x, Begin(t, w, x) PROVE UNCHANGED <<inits, mode>>
    BY <2>3 DEF Begin, initVars
  <2>4. CASE UNCHANGED vars
    BY <2>4
  <2> QED
    BY <1>2, <2>1, <2>2, <2>3, <2>4, BeginCases
<1> QED
  BY <1>1, <1>2, PTL DEF Spec, InitIsOnce
-----------------------------------------------------------------------------
(* The records resolve *)

Names == {"lib"} \union Threads \union Args
Rows == [op : {"hook", "unhook"}, ok : BOOLEAN, stub : Args, idx : Seq(Nat), names : Seq(Names)]
Adding == [at : {"adding"}, op : {"hook", "unhook"}, ok : BOOLEAN, stub : Args,
           names : Seq(Names), idx : Seq(Nat)]

\* The indices stand for the first of the names in a pool of strings.
Stand(pool, idx, names) ==
    /\ Len(idx) <= Len(names)
    /\ \A k \in 1..Len(idx) : idx[k] < Len(pool) /\ pool[idx[k] + 1] = names[k]

Pool ==
    /\ "seq" \in DOMAIN strings /\ strings.seq \in Seq(Names)
    /\ \A i, j \in 1..Len(strings.seq) : strings.seq[i] = strings.seq[j] => i = j
Log ==
    /\ "seq" \in DOMAIN records /\ records.seq \in Seq(Rows)
    /\ \A n \in 1..Len(records.seq) :
         /\ Len(records.seq[n].idx) = Len(records.seq[n].names)
         /\ Stand(strings.seq, records.seq[n].idx, records.seq[n].names)
Writers ==
    /\ DOMAIN rec = Threads
    /\ \A t \in Threads :
         /\ "at" \in DOMAIN rec[t]
         /\ rec[t].at = "adding" =>
              rec[t] \in Adding /\ Stand(strings.seq, rec[t].idx, rec[t].names)

RecInv == Pool /\ Log /\ Writers

LEMMA StandGrows ==
    ASSUME NEW pool \in Seq(Names), NEW s \in Names, NEW idx \in Seq(Nat), NEW names \in Seq(Names),
           Stand(pool, idx, names)
    PROVE  Stand(Append(pool, s), idx, names)
<1>1. Len(Append(pool, s)) = Len(pool) + 1 /\ Len(pool) \in Nat
  BY AppendProperties, LenProperties
<1>2. \A k \in 1..Len(idx) : idx[k] \in Nat
  BY ElementOfSeq
<1>3. \A i \in 1..Len(pool) : Append(pool, s)[i] = pool[i]
  BY AppendProperties
<1> QED
  BY <1>1, <1>2, <1>3 DEF Stand

LEMMA StandMore ==
    ASSUME NEW pool \in Seq(Names), NEW idx \in Seq(Nat), NEW names \in Seq(Names),
           Stand(pool, idx, names), Len(idx) < Len(names),
           NEW i \in Nat, i < Len(pool), pool[i + 1] = names[Len(idx) + 1]
    PROVE  Stand(pool, Append(idx, i), names) /\ Append(idx, i) \in Seq(Nat)
<1>1. Append(idx, i) \in Seq(Nat) /\ Len(Append(idx, i)) = Len(idx) + 1 /\ Len(idx) \in Nat /\ Len(names) \in Nat
  BY AppendProperties, LenProperties
<1>2. Append(idx, i)[Len(idx) + 1] = i /\ \A k \in 1..Len(idx) : Append(idx, i)[k] = idx[k]
  BY AppendProperties
<1> QED
  BY <1>1, <1>2 DEF Stand

\* Only the call of one thread of the recorder changes, and not to "adding".
LEMMA RecStays ==
    ASSUME RecInv, UNCHANGED <<strings, records>>, DOMAIN rec' = Threads,
           \A u \in Threads : "at" \in DOMAIN rec'[u] /\ (rec'[u].at = "adding" => rec'[u] = rec[u])
    PROVE  RecInv'
BY DEF RecInv, Pool, Log, Writers

LEMMA RecStaysAway ==
    ASSUME RecInv, UNCHANGED <<strings, records>>, DOMAIN rec' = Threads, NEW t \in Threads,
           \A u \in Threads : u # t => rec'[u] = rec[u],
           "at" \in DOMAIN rec'[t], rec'[t].at # "adding"
    PROVE  RecInv'
<1>1. \A u \in Threads : "at" \in DOMAIN rec'[u] /\ (rec'[u].at = "adding" => rec'[u] = rec[u])
  BY DEF RecInv, Writers
<1> QED
  BY <1>1, RecStays

LEMMA FirstIndexFinds ==
    ASSUME Pool, NEW s, Held(s)
    PROVE  FirstIndex(s) \in 1..Len(strings.seq) /\ strings.seq[FirstIndex(s)] = s
<1>1. DOMAIN strings.seq = 1..Len(strings.seq) /\ Len(strings.seq) \in Nat
  BY LenProperties DEF Pool
<1>2. PICK i \in 1..Len(strings.seq) : strings.seq[i] = s
  BY <1>1 DEF Held
<1>3. \A j \in 1..i - 1 : strings.seq[j] # s
  BY <1>1, <1>2 DEF Pool
<1> QED
  BY <1>1, <1>2, <1>3 DEF FirstIndex

LEMMA AddStrResolves ==
    ASSUME RecInv, NEW t \in Threads, AddStr(t) PROVE RecInv'
<1> DEFINE r == rec[t]
<1> DEFINE s == r.names[Len(r.idx) + 1]
<1>1. /\ r \in Adding /\ Stand(strings.seq, r.idx, r.names) /\ Len(r.idx) < Len(r.names)
      /\ UNCHANGED records
  BY DEF AddStr, RecInv, Writers
<1>2. r.idx \in Seq(Nat) /\ r.names \in Seq(Names) /\ s \in Names
  <2>1. r.idx \in Seq(Nat) /\ r.names \in Seq(Names)
    BY <1>1 DEF Adding
  <2>2. Len(r.idx) + 1 \in 1..Len(r.names)
    BY <1>1, <2>1, LenProperties
  <2> QED
    BY <2>1, <2>2, ElementOfSeq
<1>3. strings.seq \in Seq(Names) /\ Len(strings.seq) \in Nat /\ DOMAIN strings.seq = 1..Len(strings.seq)
  BY LenProperties DEF RecInv, Pool
<1>4. ASSUME NEW i \in Nat, Indexed(t, i)
      PROVE  /\ rec' = [rec EXCEPT ![t] = [r EXCEPT !.idx = Append(r.idx, i)]]
             /\ DOMAIN rec' = Threads
             /\ rec'[t] = [r EXCEPT !.idx = Append(r.idx, i)]
             /\ \A u \in Threads : u # t => rec'[u] = rec[u]
  BY <1>4 DEF Indexed, RecInv, Writers
<1>5. CASE Held(s) /\ Indexed(t, FirstIndex(s) - 1) /\ UNCHANGED <<strings, error>>
  <2> DEFINE i == FirstIndex(s) - 1
  <2>1. i \in Nat /\ i < Len(strings.seq) /\ strings.seq[i + 1] = s
    BY <1>3, <1>5, FirstIndexFinds DEF RecInv
  <2> HIDE DEF i
  <2>2. Stand(strings.seq, Append(r.idx, i), r.names) /\ Append(r.idx, i) \in Seq(Nat)
    BY <1>1, <1>2, <1>3, <2>1, StandMore
  <2>3. Indexed(t, i)
    BY <1>5 DEF i
  <2>4. rec'[t] \in Adding /\ rec'[t].idx = Append(r.idx, i) /\ rec'[t].names = r.names
    <3>1. rec'[t] = [r EXCEPT !.idx = Append(r.idx, i)]
      BY <1>4, <2>1, <2>3
    <3> HIDE DEF r
    <3>2. rec'[t].idx = Append(r.idx, i)
      BY <1>1, <3>1 DEF Adding
    <3>3. rec'[t].names = r.names
      BY <1>1, <3>1 DEF Adding
    <3>4. rec'[t] \in Adding
      BY <1>1, <2>2, <3>1 DEF Adding
    <3> QED
      BY <3>2, <3>3, <3>4
  <2>5. Writers'
    <3>1. ASSUME NEW u \in Threads
          PROVE  /\ "at" \in DOMAIN rec'[u]
                 /\ rec'[u].at = "adding" =>
                      rec'[u] \in Adding /\ Stand(strings.seq, rec'[u].idx, rec'[u].names)
      <4>1. CASE u = t
        BY <2>2, <2>4, <4>1 DEF Adding
      <4>2. CASE u # t
        <5>1. rec'[u] = rec[u]
          BY <1>4, <2>1, <2>3, <4>2
        <5> QED
          BY <5>1 DEF RecInv, Writers
      <4> QED
        BY <4>1, <4>2
    <3>2. DOMAIN rec' = Threads /\ strings' = strings
      BY <1>4, <1>5, <2>1, <2>3
    <3> QED
      BY <3>1, <3>2 DEF Writers
  <2> QED
    BY <1>1, <1>5, <2>5 DEF RecInv, Pool, Log
<1>6. CASE /\ ~Held(s) /\ strings' = Put(strings, StringsStep, s, StrSize[s])
           /\ Indexed(t, Len(strings.seq))
  <2> DEFINE i == Len(strings.seq)
  <2>1. "seq" \in DOMAIN strings' /\ strings'.seq = Append(strings.seq, s)
    BY <1>6 DEF Put, RecInv, Pool
  <2>2. /\ strings'.seq \in Seq(Names) /\ Len(strings'.seq) = i + 1 /\ strings'.seq[i + 1] = s
        /\ \A k \in 1..i : strings'.seq[k] = strings.seq[k]
    BY <1>2, <1>3, <2>1, AppendProperties
  <2>3. Pool'
    <3>1. \A k \in 1..i : strings.seq[k] # s
      BY <1>3, <1>6 DEF Held
    <3> QED
      BY <1>3, <2>1, <2>2, <3>1 DEF Pool, RecInv
  <2>4. ASSUME NEW idx \in Seq(Nat), NEW names \in Seq(Names), Stand(strings.seq, idx, names)
        PROVE  Stand(strings'.seq, idx, names)
    BY <1>2, <1>3, <2>1, <2>4, StandGrows
  <2>5. Log'
    <3>1. ASSUME NEW n \in 1..Len(records.seq)
          PROVE  Stand(strings'.seq, records.seq[n].idx, records.seq[n].names)
      <4>1. records.seq[n] \in Rows
        BY ElementOfSeq DEF RecInv, Log
      <4> QED
        BY <2>4, <4>1 DEF RecInv, Log, Rows
    <3> QED
      BY <1>1, <3>1 DEF Log, RecInv
  <2>6. Stand(strings'.seq, Append(r.idx, i), r.names) /\ Append(r.idx, i) \in Seq(Nat)
    <3>1. Stand(strings'.seq, r.idx, r.names)
      BY <1>1, <1>2, <2>4
    <3>2. i \in Nat /\ i < Len(strings'.seq) /\ strings'.seq[i + 1] = r.names[Len(r.idx) + 1]
      BY <1>3, <2>2
    <3> HIDE DEF r, i
    <3> QED
      BY <1>1, <1>2, <2>2, <3>1, <3>2, StandMore
  <2>7. rec'[t] \in Adding /\ rec'[t].idx = Append(r.idx, i) /\ rec'[t].names = r.names
    <3>1. rec'[t] = [r EXCEPT !.idx = Append(r.idx, i)]
      BY <1>3, <1>4, <1>6
    <3> HIDE DEF r, i
    <3>2. rec'[t].idx = Append(r.idx, i)
      BY <1>1, <3>1 DEF Adding
    <3>3. rec'[t].names = r.names
      BY <1>1, <3>1 DEF Adding
    <3>4. rec'[t] \in Adding
      BY <1>1, <2>6, <3>1 DEF Adding
    <3> QED
      BY <3>2, <3>3, <3>4
  <2>8. Writers'
    <3>1. ASSUME NEW u \in Threads
          PROVE  /\ "at" \in DOMAIN rec'[u]
                 /\ rec'[u].at = "adding" =>
                      rec'[u] \in Adding /\ Stand(strings'.seq, rec'[u].idx, rec'[u].names)
      <4>1. CASE u = t
        BY <2>6, <2>7, <4>1 DEF Adding
      <4>2. CASE u # t
        <5>1. rec'[u] = rec[u]
          BY <1>3, <1>4, <1>6, <4>2
        <5> QED
          BY <2>4, <5>1 DEF RecInv, Writers, Adding
      <4> QED
        BY <4>1, <4>2
    <3> QED
      BY <1>3, <1>4, <1>6, <3>1 DEF Writers
  <2> QED
    BY <2>3, <2>5, <2>8 DEF RecInv
<1>7. CASE GiveUp(t) /\ UNCHANGED strings
  <2>1. rec' = [rec EXCEPT ![t] = Quiet] /\ Quiet.at = "quiet" /\ "at" \in DOMAIN Quiet
    BY <1>7 DEF GiveUp, Quiet
  <2>2. DOMAIN rec' = Threads /\ rec'[t] = Quiet /\ \A u \in Threads : u # t => rec'[u] = rec[u]
    BY <2>1 DEF RecInv, Writers
  <2> QED
    BY <1>1, <1>7, <2>1, <2>2, RecStaysAway
<1> QED
  BY <1>5, <1>6, <1>7 DEF AddStr

LEMMA AddRecordResolves ==
    ASSUME RecInv, NEW t \in Threads, AddRecord(t) PROVE RecInv'
<1> DEFINE r == rec[t]
<1> DEFINE row == [op |-> r.op, ok |-> r.ok, stub |-> r.stub, idx |-> r.idx, names |-> r.names]
<1>1. /\ r \in Adding /\ Stand(strings.seq, r.idx, r.names) /\ Len(r.idx) = Len(r.names)
      /\ UNCHANGED strings
  BY DEF AddRecord, RecInv, Writers
<1>2. rec' = [rec EXCEPT ![t] = Quiet] /\ Quiet.at = "quiet" /\ "at" \in DOMAIN Quiet
  BY DEF AddRecord, GiveUp, Quiet
<1>3. DOMAIN rec' = Threads /\ rec'[t] = Quiet /\ \A u \in Threads : u # t => rec'[u] = rec[u]
  BY <1>2 DEF RecInv, Writers
<1>4. CASE UNCHANGED records
  BY <1>1, <1>2, <1>3, <1>4, RecStaysAway
<1>5. CASE ~UNCHANGED records
  <2>1. PICK n : records' = Put(records, RecordsStep, row, n)
    BY <1>5 DEF AddRecord
  <2>2. "seq" \in DOMAIN records' /\ records'.seq = Append(records.seq, row)
    BY <2>1 DEF Put, RecInv, Log
  <2>3. row \in Rows
    BY <1>1 DEF Adding, Rows
  <2>4. records.seq \in Seq(Rows)
    BY DEF RecInv, Log
  <2>5. Len(row.idx) = Len(row.names) /\ Stand(strings.seq, row.idx, row.names)
    BY <1>1
  <2> HIDE DEF row
  <2>6. /\ records'.seq \in Seq(Rows) /\ Len(records'.seq) = Len(records.seq) + 1 /\ Len(records.seq) \in Nat
        /\ records'.seq[Len(records.seq) + 1] = row
        /\ \A k \in 1..Len(records.seq) : records'.seq[k] = records.seq[k]
    BY <2>2, <2>3, <2>4, AppendProperties, LenProperties
  <2>7. ASSUME NEW k \in 1..Len(records'.seq)
        PROVE  /\ Len(records'.seq[k].idx) = Len(records'.seq[k].names)
               /\ Stand(strings.seq, records'.seq[k].idx, records'.seq[k].names)
    <3>1. CASE k \in 1..Len(records.seq)
      BY <2>6, <3>1 DEF RecInv, Log
    <3>2. CASE k \notin 1..Len(records.seq)
      <4>1. k = Len(records.seq) + 1
        BY <2>6, <3>2
      <4> QED
        BY <2>5, <2>6, <4>1
    <3> QED
      BY <3>1, <3>2
  <2>8. Log'
    BY <1>1, <2>2, <2>6, <2>7 DEF Log
  <2>9. Writers'
    BY <1>1, <1>2, <1>3 DEF Writers, RecInv
  <2> QED
    BY <1>1, <2>8, <2>9 DEF RecInv, Pool
<1> QED
  BY <1>4, <1>5

\* The steps of an output and of the calls change no record that is being made.
LEMMA PutOutResolves ==
    ASSUME RecInv, NEW t \in Threads, rec[t].at # "adding", NEW x, NEW n, NEW next, NEW onFail,
           next # "adding", onFail # "adding", PutOut(t, x, n, next, onFail)
    PROVE  /\ DOMAIN rec' = Threads /\ \A u \in Threads : u # t => rec'[u] = rec[u]
           /\ "at" \in DOMAIN rec'[t] /\ rec'[t].at # "adding"
<1>1. DOMAIN rec = Threads /\ "at" \in DOMAIN rec[t]
  BY DEF RecInv, Writers
<1>2. CASE rec' = [Go(t, next) EXCEPT ![t].out.seq = Append(@, x), ![t].i = @ + 1]
  BY <1>1, <1>2 DEF Go
<1>3. CASE \E y : rec' = [Go(t, next) EXCEPT ![t].out = y, ![t].i = @ + 1]
  BY <1>1, <1>3 DEF Go
<1>4. CASE \E b : rec' = [Go(t, onFail) EXCEPT ![t].failed = TRUE,
                            ![t].out = IF b THEN [@ EXCEPT !.seq = <<>>, !.freed = TRUE] ELSE @]
  BY <1>1, <1>4 DEF Go
<1>5. CASE UNCHANGED rec
  BY <1>1, <1>5
<1> QED
  BY <1>2, <1>3, <1>4, <1>5 DEF PutOut

LEMMA RecorderStepResolves ==
    ASSUME RecInv, NEW t \in Threads, RecorderStep(t) PROVE RecInv'
<1>1. DOMAIN rec = Threads /\ "at" \in DOMAIN rec[t]
  BY DEF RecInv, Writers
<1>2. CASE AddStr(t) \/ AddRecord(t)
  BY <1>2, AddStrResolves, AddRecordResolves
<1>3. CASE LockRecords(t)
  <2>1. /\ DOMAIN rec' = Threads /\ \A u \in Threads : u # t => rec'[u] = rec[u]
        /\ "at" \in DOMAIN rec'[t] /\ rec'[t].at # "adding"
    BY <1>1, <1>3 DEF LockRecords, Go
  <2> QED
    BY <1>3, <2>1, RecStaysAway DEF LockRecords, OutUnchanged
<1>4. CASE LockStrings(t)
  <2>1. /\ DOMAIN rec' = Threads /\ \A u \in Threads : u # t => rec'[u] = rec[u]
        /\ "at" \in DOMAIN rec'[t] /\ rec'[t].at # "adding"
    BY <1>1, <1>4 DEF LockStrings, Go
  <2> QED
    BY <1>4, <2>1, RecStaysAway DEF LockStrings, OutUnchanged
<1>5. CASE OutLine(t)
  <2>1. /\ DOMAIN rec' = Threads /\ \A u \in Threads : u # t => rec'[u] = rec[u]
        /\ "at" \in DOMAIN rec'[t] /\ rec'[t].at # "adding"
    BY <1>5, PutOutResolves DEF OutLine
  <2> QED
    BY <1>5, <2>1, RecStaysAway DEF OutLine, OutUnchanged
<1>6. CASE OutUnlock(t)
  <2>1. /\ DOMAIN rec' = Threads /\ \A u \in Threads : u # t => rec'[u] = rec[u]
        /\ "at" \in DOMAIN rec'[t] /\ rec'[t].at # "adding"
    BY <1>1, <1>6 DEF OutUnlock, Go
  <2> QED
    BY <1>6, <2>1, RecStaysAway DEF OutUnlock, OutUnchanged
<1>7. CASE OutErrorLine(t)
  <2>1. /\ DOMAIN rec' = Threads /\ \A u \in Threads : u # t => rec'[u] = rec[u]
        /\ "at" \in DOMAIN rec'[t] /\ rec'[t].at # "adding"
    <3>1. CASE error
      BY <1>7, <3>1, PutOutResolves DEF OutErrorLine
    <3>2. CASE ~error
      BY <1>1, <1>7, <3>2 DEF OutErrorLine, Go
    <3> QED
      BY <3>1, <3>2
  <2> QED
    BY <1>7, <2>1, RecStaysAway DEF OutErrorLine, OutUnchanged
<1>8. CASE OutFinish(t)
  <2>1. /\ DOMAIN rec' = Threads /\ \A u \in Threads : u # t => rec'[u] = rec[u]
        /\ "at" \in DOMAIN rec'[t] /\ rec'[t].at # "adding"
    <3>1. CASE rec[t].to = "string"
      BY <1>8, <3>1, PutOutResolves DEF OutFinish
    <3>2. CASE rec[t].to # "string"
      BY <1>1, <1>8, <3>2 DEF OutFinish, Go
    <3> QED
      BY <3>1, <3>2
  <2> QED
    BY <1>8, <2>1, RecStaysAway DEF OutFinish, OutUnchanged
<1> QED
  BY <1>2, <1>3, <1>4, <1>5, <1>6, <1>7, <1>8 DEF RecorderStep

\* A hook or an unhook hands its names to the recorder.
LEMMA RecordResolves ==
    ASSUME RecInv, NEW t \in Threads, NEW op \in {"hook", "unhook"}, NEW ok \in BOOLEAN,
           NEW stub \in Args, NEW names \in Seq(Names), Record(t, op, ok, stub, names),
           UNCHANGED <<strings, records>>
    PROVE  RecInv'
<1>1. DOMAIN rec = Threads
  BY DEF RecInv, Writers
<1>2. CASE UNCHANGED rec
  BY <1>1, <1>2, RecStays DEF RecInv, Writers
<1>3. CASE rec' = [rec EXCEPT ![t] = [at |-> "adding", op |-> op, ok |-> ok, stub |-> stub,
                                      names |-> names, idx |-> <<>>]]
  <2> DEFINE r == [at |-> "adding", op |-> op, ok |-> ok, stub |-> stub, names |-> names, idx |-> <<>>]
  <2>1. <<>> \in Seq(Nat) /\ Len(<<>>) = 0
    BY EmptySeq
  <2>2. r \in Adding /\ "at" \in DOMAIN r
    BY <2>1 DEF Adding
  <2>3. Stand(strings.seq, r.idx, r.names)
    BY <2>1, LenProperties DEF Stand
  <2> HIDE DEF r
  <2>4. DOMAIN rec' = Threads /\ rec'[t] = r /\ \A u \in Threads : u # t => rec'[u] = rec[u]
    BY <1>1, <1>3 DEF r
  <2>5. Writers'
    BY <2>2, <2>3, <2>4 DEF RecInv, Writers
  <2> QED
    BY <2>5 DEF RecInv, Pool, Log
<1> QED
  BY <1>2, <1>3 DEF Record

LEMMA InitResolves ==
    ASSUME Init PROVE RecInv
<1>1. <<>> \in Seq(Names) /\ <<>> \in Seq(Rows) /\ Len(<<>>) = 0
  BY EmptySeq
<1> QED
  BY <1>1 DEF Init, RecorderInit, NoBuf, RecInv, Pool, Log, Writers, Quiet

LEMMA StepResolves ==
    ASSUME OnceInv, RecInv, [Next]_vars PROVE RecInv'
<1>1. Typed
  BY DEF OnceInv
<1>2. ASSUME UNCHANGED recorderVars PROVE RecInv'
  BY <1>2 DEF recorderVars, RecInv, Pool, Log, Writers
<1>3. ASSUME NEW t \in Threads, Step(t), ~UNCHANGED recorderVars
      PROVE  RecInv'
  <2>1. DOMAIN rec = Threads
    BY DEF RecInv, Writers
  <2>2. CASE HookSwitch(t)
    <3>1. PICK ok \in BOOLEAN : Record(t, "hook", ok, call[t].stub, <<"lib", call[t].arg, CallerLib(t)>>)
      <4> HIDE DEF Record, CallerLib
      <4> QED
        BY <2>2 DEF HookSwitch
    <3>2. call[t].stub \in Args /\ call[t].arg \in Args
      BY <1>1 DEF Typed, Calls
    <3>3. <<"lib", call[t].arg, CallerLib(t)>> \in Seq(Names)
      BY <3>2 DEF Names, CallerLib
    <3>4. UNCHANGED <<strings, records>>
      BY <2>2 DEF HookSwitch
    <3> HIDE DEF CallerLib
    <3> QED
      BY <3>1, <3>2, <3>3, <3>4, RecordResolves
  <2>3. CASE UnhookSwitch(t)
    <3>1. PICK ok \in BOOLEAN : Record(t, "unhook", ok, call[t].arg, <<CallerLib(t)>>)
      <4> HIDE DEF Record, CallerLib
      <4> QED
        BY <2>3 DEF UnhookSwitch
    <3>2. call[t].arg \in Args
      BY <1>1 DEF Typed, Calls
    <3>3. <<CallerLib(t)>> \in Seq(Names)
      BY DEF Names, CallerLib
    <3>4. UNCHANGED <<strings, records>>
      BY <2>3 DEF UnhookSwitch
    <3> HIDE DEF CallerLib
    <3> QED
      BY <3>1, <3>2, <3>3, <3>4, RecordResolves
  <2>4. CASE GetRecords(t)
    <3>1. UNCHANGED <<strings, records>> /\ Output(t, call[t].arg)
      BY <2>4 DEF GetRecords
    <3>2. CASE UNCHANGED rec
      BY <2>1, <3>1, <3>2, RecStays DEF RecInv, Writers
    <3>3. CASE ~UNCHANGED rec
      <4>1. PICK to : rec' = [rec EXCEPT ![t] = [at |-> "lock records", to |-> to, out |-> NoOutput,
                                                i |-> 1, upto |-> 0, failed |-> FALSE]]
        BY <3>1, <3>3 DEF Output
      <4>2. /\ DOMAIN rec' = Threads /\ \A u \in Threads : u # t => rec'[u] = rec[u]
            /\ "at" \in DOMAIN rec'[t] /\ rec'[t].at # "adding"
        BY <2>1, <4>1
      <4> QED
        BY <3>1, <4>2, RecStaysAway
    <3> QED
      BY <3>2, <3>3
  <2>5. CASE GotRecords(t)
    <3>1. UNCHANGED <<strings, records>> /\ rec' = [rec EXCEPT ![t] = Quiet]
      BY <2>5 DEF GotRecords
    <3>2. /\ DOMAIN rec' = Threads /\ \A u \in Threads : u # t => rec'[u] = rec[u]
          /\ "at" \in DOMAIN rec'[t] /\ rec'[t].at # "adding"
      BY <2>1, <3>1 DEF Quiet
    <3> QED
      BY <3>1, <3>2, RecStaysAway
  <2>6. CASE SetRecordable(t)
    <3>1. UNCHANGED <<strings, records, rec>>
      BY <2>6 DEF SetRecordable
    <3> QED
      BY <3>1 DEF RecInv, Pool, Log, Writers
  <2>7. CASE Recording(t)
    BY <2>7, RecorderStepResolves DEF Recording
  <2>8. CASE ~(\/ HookSwitch(t) \/ UnhookSwitch(t) \/ GetRecords(t) \/ GotRecords(t)
               \/ SetRecordable(t) \/ Recording(t))
    BY <1>3, <2>8 DEF Step, InitCheck, InitBody, InitEnd, HookCreate, HookEnd, UnhookEnd, Hooker,
                      HookerHook, UnHook, SetHookerModle
  <2> QED
    BY <2>2, <2>3, <2>4, <2>5, <2>6, <2>7, <2>8
<1>4. ASSUME NEW t, NEW w, NEW x, Begin(t, w, x) PROVE UNCHANGED recorderVars
  BY <1>4 DEF Begin
<1>5. CASE UNCHANGED vars
  BY <1>2, <1>5 DEF vars
<1> QED
  BY <1>2, <1>3, <1>4, <1>5, BeginCases

\* Whatever threads write and in whatever order their sections run, a record's
\* indices stand for its strings: for all sizes and limits of the two buffers.
THEOREM Resolved == Spec => []RecordsResolve
<1>1. Spec => [](OnceInv /\ RecInv)
  BY InitOnce, InitResolves, StepOnce, StepResolves, PTL DEF Spec
<1>2. ASSUME RecInv PROVE RecordsResolve
  <2>1. /\ DOMAIN strings.seq = 1..Len(strings.seq) /\ DOMAIN records.seq = 1..Len(records.seq)
        /\ Len(strings.seq) \in Nat
    BY <1>2, LenProperties DEF RecInv, Pool, Log
  <2>2. ASSUME NEW idx \in Seq(Nat), NEW names \in Seq(Names), Stand(strings.seq, idx, names)
        PROVE  \A k \in DOMAIN idx : FindStr(idx[k]) = names[k]
    <3>1. DOMAIN idx = 1..Len(idx) /\ \A k \in 1..Len(idx) : idx[k] \in Nat
      BY LenProperties, ElementOfSeq
    <3> QED
      BY <2>1, <2>2, <3>1 DEF Stand, FindStr
  <2>3. ASSUME NEW n \in DOMAIN records.seq
        PROVE  LET row == records.seq[n]
               IN  Len(row.idx) = Len(row.names)
                   /\ \A k \in DOMAIN row.idx : FindStr(row.idx[k]) = row.names[k]
    <3>1. records.seq[n].idx \in Seq(Nat) /\ records.seq[n].names \in Seq(Names)
      <4>1. records.seq[n] \in Rows
        BY <1>2, <2>1, ElementOfSeq DEF RecInv, Log
      <4> QED
        BY <4>1 DEF Rows
    <3> QED
      BY <1>2, <2>1, <2>2, <3>1 DEF RecInv, Log
  <2>4. ASSUME NEW t \in Threads, rec[t].at = "adding"
        PROVE  \A k \in DOMAIN rec[t].idx : FindStr(rec[t].idx[k]) = rec[t].names[k]
    BY <1>2, <2>2, <2>4 DEF RecInv, Writers, Adding
  <2> QED
    BY <1>2, <2>1, <2>3, <2>4 DEF RecordsResolve, RecInv, Pool
<1> QED
  BY <1>1, <1>2, PTL
-----------------------------------------------------------------------------
(* The tasks, the switches and the list of HookUtils *)

Task(t, a) == [by |-> t, addr |-> a]

\* A task stands for a hook when its thread is neither on the way to the hook
\* nor past the unhook.
Busy == {"hook switch", "hook recorded", "unhook recorded"}
Working(t, s) ==
    /\ call[t].stub = s /\ call[t].at \in Busy
    /\ call[t].at = "hook recorded" => ~call[t].ok
Hooked(s) == tasks[s] # NoTask /\ \A t \in Threads : ~Working(t, s)

TasksOK == \A s \in Stubs : tasks[s] = NoTask \/ \E t \in Threads, a \in Funcs : tasks[s] = Task(t, a)

\* A thread works on its own tasks.
MineOf(t) ==
    /\ call[t].at = "hook" => call[t].arg \in Funcs
    /\ call[t].at \in {"hook switch", "hook recorded"} =>
         call[t].stub \in Stubs /\ call[t].arg \in Funcs /\ tasks[call[t].stub] = Task(t, call[t].arg)
    /\ call[t].at = "unhook" => call[t].arg \in Stubs /\ tasks[call[t].arg].by = t
    /\ call[t].at = "unhook recorded" => call[t].stub \in Stubs /\ tasks[call[t].stub].by = t
Mine == \A t \in Threads : MineOf(t)

\* The proxies in the switches are those of the tasks, one for each.
Proxies ==
    /\ switches \in [Funcs -> SUBSET Threads]
    /\ \A s \in Stubs : Hooked(s) => tasks[s].by \in switches[tasks[s].addr]
    /\ \A a \in Funcs : \A t \in switches[a] : \E s \in Stubs : Hooked(s) /\ tasks[s] = Task(t, a)
    /\ \A s, r \in Stubs : Hooked(s) /\ Hooked(r) /\ tasks[s] = tasks[r] => s = r
    /\ mode = "unique" => \A a \in Funcs : \A t, u \in switches[a] : t = u

TaskInv == TasksOK /\ Mine /\ Proxies

\* Only the calls of Main come from HookUtils.
ServedOf(t) ==
    IF t # Main THEN call[t].back = "user"
    ELSE /\ call[t].at \in {"init", "init lock", "init mods", "hook", "hook switch", "hook recorded"} =>
              call[t].back = "Hooker"
         /\ call[t].at \in {"unhook", "unhook recorded"} => call[t].back = "unHook"
         /\ call[t].at \in {"Hooker", "Hooker list", "init", "init lock", "init mods"} =>
              call[t].arg \in Funcs
Served == \A t \in Threads : ServedOf(t)

\* What Main asks for: to hook a function that is not listed, to unhook a listed task.
Asks ==
    /\ call[Main].at \in {"hook", "hook switch", "hook recorded"} => ~Listed(call[Main].arg)
    /\ call[Main].at = "unhook" => \E i \in DOMAIN hookedList : hookedList[i].ret = call[Main].arg
    /\ call[Main].at = "unhook recorded" =>
         \E i \in DOMAIN hookedList : hookedList[i].ret = call[Main].stub

\* Entries name hooks; the one of the unhook that Main is in stays till it ends.
Leaving(s) == call[Main].at = "unhook recorded" /\ call[Main].stub = s
Entry(e) ==
    /\ e.module = "dobby" => e.ret = NULL /\ e.orig \in dobby
    /\ e.module = "shadowhook" =>
         /\ e.ret \in Stubs /\ e.orig \in Funcs /\ tasks[e.ret] = Task(Main, e.orig)
         /\ Hooked(e.ret) \/ Leaving(e.ret)
Listing ==
    /\ \A i \in DOMAIN hookedList : Entry(hookedList[i])
    /\ \A i, j \in DOMAIN hookedList : hookedList[i].orig = hookedList[j].orig => i = j

\* As long as unHook asked the right framework.
Arriving(a) == call[Main].at = "hook recorded" /\ call[Main].ok /\ call[Main].arg = a
Pure == ~mixed =>
    /\ \A a \in Funcs : a \in dobby \/ Main \in switches[a] => Listed(a) \/ Arriving(a)
    /\ \A a \in Funcs : ~(a \in dobby /\ Main \in switches[a])
    /\ call[Main].at = "unhook recorded" =>
         LET a == tasks[call[Main].stub].addr IN a \notin dobby /\ Main \notin switches[a]

ListInv == Served /\ Asks /\ Listing /\ Pure

LEMMA TaskFields ==
    ASSUME NEW t, NEW a
    PROVE  /\ Task(t, a).by = t /\ Task(t, a).addr = a
           /\ t \in Threads => Task(t, a) # NoTask
<1>1. Task(t, a).by = t /\ Task(t, a).addr = a
  BY DEF Task
<1>2. NoTask.by = Nobody
  BY DEF NoTask
<1> HIDE DEF Nobody
<1>3. t \in Threads => t # Nobody
  BY ThreadsAssumption
<1>4. t \in Threads => Task(t, a) # NoTask
  BY <1>1, <1>2, <1>3
<1> QED
  BY <1>1, <1>4

\* A task of t is by t; nobody but its thread works on it.
LEMMA WorksOnOwn ==
    ASSUME TaskInv, NEW t \in Threads, NEW s \in Stubs, Working(t, s)
    PROVE  tasks[s].by = t /\ tasks[s] # NoTask
<1>1. tasks[s].by = t
  <2>1. CASE call[t].at = "unhook recorded"
    BY <2>1 DEF TaskInv, Mine, MineOf, Working
  <2>2. CASE call[t].at # "unhook recorded"
    <3>1. tasks[s] = Task(t, call[t].arg)
      BY <2>2 DEF TaskInv, Mine, MineOf, Working, Busy
    <3> QED
      BY <3>1, TaskFields
  <2> QED
    BY <2>1, <2>2
<1>2. t # Nobody
  OBVIOUS
<1>3. NoTask.by = Nobody
  BY DEF NoTask
<1> QED
  BY <1>1, <1>2, <1>3

LEMMA HookedSame ==
    ASSUME NEW t \in Threads, CallStep(t), NEW s, tasks'[s] = tasks[s],
           ~Working(t, s), ~Working(t, s)'
    PROVE  Hooked(s)' <=> Hooked(s)
<1>1. \A u \in Threads : Working(u, s)' <=> Working(u, s)
  BY DEF CallStep, Working
<1> QED
  BY <1>1 DEF Hooked

LEMMA TaskFrame ==
    ASSUME TaskInv, NEW t \in Threads, CallStep(t), UNCHANGED <<tasks, switches>>,
           call[t].at \notin Busy, call'[t].at \notin Busy, MineOf(t)',
           mode' = mode \/ \A s \in Stubs : tasks[s] = NoTask
    PROVE  TaskInv' /\ \A s : Hooked(s)' <=> Hooked(s)
<1>1. \A s : Hooked(s)' <=> Hooked(s)
  BY HookedSame DEF Working
<1>2. Mine'
  <2>1. ASSUME NEW u \in Threads, u # t PROVE MineOf(u)'
    <3>1. MineOf(u) /\ call'[u] = call[u] /\ tasks' = tasks
      BY <2>1 DEF TaskInv, Mine, CallStep
    <3> QED
      BY <3>1 DEF MineOf
  <2> QED
    BY <2>1 DEF Mine
<1>3. Proxies'
  <2>1. CASE mode' = mode
    BY <1>1, <2>1 DEF TaskInv, Proxies
  <2>2. CASE \A s \in Stubs : tasks[s] = NoTask
    <3>1. \A s \in Stubs : ~Hooked(s)
      BY <2>2 DEF Hooked
    <3>2. \A a \in Funcs : switches[a] = {}
      BY <3>1 DEF TaskInv, Proxies
    <3> QED
      BY <1>1, <3>1, <3>2 DEF TaskInv, Proxies
  <2> QED
    BY <2>1, <2>2
<1> QED
  BY <1>1, <1>2, <1>3 DEF TaskInv, TasksOK

LEMMA ListFrame ==
    ASSUME TaskInv, ListInv, NEW t \in Threads, CallStep(t),
           UNCHANGED <<tasks, switches, hookedList, dobby>>, mixed' <=> mixed,
           \A s : Hooked(s)' <=> Hooked(s),
           call[t].at \notin Busy, call'[t].at \notin Busy,
           ServedOf(t)', t = Main => Asks'
    PROVE  ListInv'
<1>1. Served'
  BY DEF ListInv, Served, ServedOf, CallStep
<1>2. \A s : Leaving(s)' <=> Leaving(s)
  BY DEF CallStep, Leaving, Busy
<1>3. \A a : (Arriving(a)' <=> Arriving(a)) /\ (Listed(a)' <=> Listed(a))
  BY DEF CallStep, Arriving, Busy, Listed
<1>4. Asks'
  BY <1>3 DEF ListInv, Asks, CallStep
<1>5. Listing'
  BY <1>2 DEF ListInv, Listing, Entry
<1>6. Pure'
  BY <1>3 DEF ListInv, Pure, CallStep, Busy
<1> QED
  BY <1>1, <1>4, <1>5, <1>6 DEF ListInv

\* Another thread than Main does not touch what HookUtils holds.
LEMMA ListAway ==
    ASSUME TaskInv, ListInv, NEW t \in Threads, t # Main, CallStep(t),
           UNCHANGED <<hookedList, dobby, mixed>>, call'[t].back = "user",
           \A s \in Stubs : tasks[s].by = Main =>
              tasks'[s] = tasks[s] /\ (Hooked(s) => Hooked(s)'),
           \A a \in Funcs : Main \in switches'[a] <=> Main \in switches[a]
    PROVE  ListInv'
<1>1. call'[Main] = call[Main]
  BY DEF CallStep
<1>2. Served'
  BY <1>1 DEF ListInv, Served, ServedOf, CallStep
<1>3. Asks'
  BY <1>1 DEF ListInv, Asks, Listed
<1>4. Listing'
  <2>1. ASSUME NEW i \in DOMAIN hookedList PROVE Entry(hookedList[i])'
    <3> DEFINE e == hookedList[i]
    <3>1. Entry(e)
      BY DEF ListInv, Listing
    <3>2. CASE e.module # "shadowhook"
      BY <3>1, <3>2 DEF Entry
    <3>3. CASE e.module = "shadowhook"
      <4>1. e.ret \in Stubs /\ tasks[e.ret] = Task(Main, e.orig) /\ e.orig \in Funcs
        BY <3>1, <3>3 DEF Entry
      <4>2. tasks[e.ret].by = Main
        BY <4>1, TaskFields
      <4>3. tasks'[e.ret] = tasks[e.ret] /\ (Hooked(e.ret) => Hooked(e.ret)')
        BY <4>1, <4>2
      <4>4. Hooked(e.ret)' \/ Leaving(e.ret)'
        BY <1>1, <3>1, <3>3, <4>3 DEF Entry, Leaving
      <4> QED
        BY <3>3, <4>1, <4>3, <4>4 DEF Entry
    <3> QED
      BY <3>2, <3>3
  <2> QED
    BY <2>1 DEF ListInv, Listing
<1>5. Pure'
  <2>1. call[Main].at = "unhook recorded" =>
          /\ tasks'[call[Main].stub] = tasks[call[Main].stub]
          /\ tasks[call[Main].stub].addr \in Funcs
    <3>1. SUFFICES ASSUME call[Main].at = "unhook recorded"
                   PROVE  /\ tasks'[call[Main].stub] = tasks[call[Main].stub]
                          /\ tasks[call[Main].stub].addr \in Funcs
      OBVIOUS
    <3>2. call[Main].stub \in Stubs /\ tasks[call[Main].stub].by = Main
      BY <3>1 DEF TaskInv, Mine, MineOf
    <3>3. NoTask.by # Main
      BY DEF NoTask
    <3>4. PICK u \in Threads, a \in Funcs : tasks[call[Main].stub] = Task(u, a)
      BY <3>2, <3>3 DEF TaskInv, TasksOK
    <3>5. tasks[call[Main].stub].addr = a
      BY <3>4, TaskFields
    <3> QED
      BY <3>2, <3>5
  <2>2. \A a : (Listed(a)' <=> Listed(a)) /\ (Arriving(a)' <=> Arriving(a))
    BY <1>1 DEF Listed, Arriving
  <2>3. CASE mixed
    BY <2>3 DEF Pure
  <2>4. CASE ~mixed
    <3>1. \A a \in Funcs : a \in dobby' \/ Main \in switches'[a] => Listed(a)' \/ Arriving(a)'
      BY <2>2, <2>4 DEF ListInv, Pure
    <3>2. \A a \in Funcs : ~(a \in dobby' /\ Main \in switches'[a])
      BY <2>4 DEF ListInv, Pure
    <3>3. call'[Main].at = "unhook recorded" =>
            LET a == tasks'[call'[Main].stub].addr IN a \notin dobby' /\ Main \notin switches'[a]
      BY <1>1, <2>1, <2>4 DEF ListInv, Pure
    <3> QED
      BY <3>1, <3>2, <3>3 DEF Pure
  <2> QED
    BY <2>3, <2>4
<1> QED
  BY <1>2, <1>3, <1>4, <1>5 DEF ListInv

\* The work of t leaves the other threads theirs.
LEMMA OthersMine ==
    ASSUME TaskInv, NEW t \in Threads, CallStep(t), MineOf(t)',
           \A s \in Stubs : tasks[s].by \in Threads /\ tasks[s].by # t => tasks'[s] = tasks[s]
    PROVE  Mine'
<1>1. ASSUME NEW u \in Threads, u # t PROVE MineOf(u)'
  <2>1. MineOf(u) /\ call'[u] = call[u]
    BY <1>1 DEF TaskInv, Mine, CallStep
  <2>2. \A s \in Stubs : tasks[s].by = u => tasks'[s] = tasks[s]
    BY <1>1
  <2>3. call[u].at \in {"hook switch", "hook recorded"} => tasks[call[u].stub].by = u
    <3>1. Task(u, call[u].arg).by = u
      BY TaskFields
    <3> QED
      BY <2>1, <3>1 DEF MineOf
  <2> QED
    BY <2>1, <2>2, <2>3 DEF MineOf
<1> QED
  BY <1>1 DEF Mine

LEMMA TaskIs ==
    ASSUME NEW s, NEW t \in Threads, NEW a, tasks[s] = Task(t, a)
    PROVE  tasks[s].by = t /\ tasks[s].addr = a /\ tasks[s] # NoTask
BY TaskFields

\* A task that a thread made is hooked on a function.
LEMMA TaskOf ==
    ASSUME TaskInv, NEW s \in Stubs, tasks[s].by \in Threads
    PROVE  tasks[s].addr \in Funcs /\ tasks[s] = Task(tasks[s].by, tasks[s].addr) /\ tasks[s] # NoTask
<1>1. tasks[s] # NoTask
  BY DEF NoTask
<1>2. PICK u \in Threads, a \in Funcs : tasks[s] = Task(u, a)
  BY <1>1 DEF TaskInv, TasksOK
<1>3. tasks[s].by = u /\ tasks[s].addr = a
  BY <1>2, TaskFields
<1> QED
  BY <1>1, <1>2, <1>3

LEMMA HookedByThread ==
    ASSUME TaskInv, NEW s \in Stubs, tasks[s] # NoTask
    PROVE  tasks[s].by \in Threads
<1>1. PICK u \in Threads, a \in Funcs : tasks[s] = Task(u, a)
  BY DEF TaskInv, TasksOK
<1> QED
  BY <1>1, TaskFields

\* The same tasks are hooked, and by the same proxies.
LEMMA SameProxies ==
    ASSUME TaskInv, UNCHANGED <<switches, mode>>,
           \A r \in Stubs : (Hooked(r)' <=> Hooked(r)) /\ (Hooked(r) => tasks'[r] = tasks[r])
    PROVE  Proxies'
<1>1. Proxies
  BY DEF TaskInv
<1>2. \A s \in Stubs : Hooked(s)' => tasks'[s].by \in switches'[tasks'[s].addr]
  BY <1>1 DEF Proxies
<1>3. \A a \in Funcs : \A t \in switches'[a] : \E s \in Stubs : Hooked(s)' /\ tasks'[s] = Task(t, a)
  <2>1. SUFFICES ASSUME NEW a \in Funcs, NEW t \in switches[a]
                 PROVE  \E s \in Stubs : Hooked(s)' /\ tasks'[s] = Task(t, a)
    OBVIOUS
  <2>2. PICK s \in Stubs : Hooked(s) /\ tasks[s] = Task(t, a)
    BY <1>1 DEF Proxies
  <2> QED
    BY <2>2
<1>4. \A s, r \in Stubs : Hooked(s)' /\ Hooked(r)' /\ tasks'[s] = tasks'[r] => s = r
  BY <1>1 DEF Proxies
<1>5. switches' \in [Funcs -> SUBSET Threads]
      /\ (mode' = "unique" => \A a \in Funcs : \A t, u \in switches'[a] : t = u)
  BY <1>1 DEF Proxies
<1> QED
  BY <1>2, <1>3, <1>4, <1>5 DEF Proxies

LEMMA CreateTasks ==
    ASSUME Typed, TaskInv, DOMAIN tasks = Stubs, NEW t \in Threads, NEW s \in Stubs, Free(s),
           tasks' = [tasks EXCEPT ![s] = [by |-> t, addr |-> call[t].arg]],
           UNCHANGED <<switches, mode>>, CallStep(t), call[t].at = "hook",
           call'[t].at = "hook switch", call'[t].stub = s, call'[t].arg = call[t].arg
    PROVE  /\ TaskInv'
           /\ \A r \in Stubs : tasks[r].by \in Threads =>
                tasks'[r] = tasks[r] /\ (Hooked(r)' <=> Hooked(r))
<1>1. tasks'[s] = Task(t, call[t].arg) /\ \A r \in Stubs : r # s => tasks'[r] = tasks[r]
  BY DEF Task
<1>2. NoTask.by \notin Threads /\ tasks[s] = NoTask
  BY DEF NoTask, Free
<1>3. call[t].arg \in Funcs
  BY DEF TaskInv, Mine, MineOf
<1>4. ASSUME NEW r \in Stubs, r # s PROVE Hooked(r)' <=> Hooked(r)
  BY <1>1, <1>4, HookedSame DEF Working, Busy
<1>5. ~Hooked(s) /\ ~Hooked(s)'
  BY <1>2 DEF Hooked, Working, Busy
<1>6. MineOf(t)'
  BY <1>1, <1>3 DEF MineOf
<1>7. Mine'
  BY <1>1, <1>2, <1>6, OthersMine
<1>8. TasksOK'
  <2>1. \A r \in Stubs : tasks[r] = NoTask \/ \E u \in Threads, b \in Funcs : tasks[r] = Task(u, b)
    BY DEF TaskInv, TasksOK
  <2>2. \A r \in Stubs : tasks'[r] = NoTask \/ \E u \in Threads, b \in Funcs : tasks'[r] = Task(u, b)
    <3>1. ASSUME NEW r \in Stubs, r # s
          PROVE  tasks'[r] = NoTask \/ \E u \in Threads, b \in Funcs : tasks'[r] = Task(u, b)
      BY <1>1, <2>1, <3>1
    <3>2. tasks'[s] = NoTask \/ \E u \in Threads, b \in Funcs : tasks'[s] = Task(u, b)
      BY <1>1, <1>3
    <3> QED
      BY <3>1, <3>2
  <2> QED
    BY <2>2 DEF TasksOK
<1>9. \A r \in Stubs : (Hooked(r)' <=> Hooked(r)) /\ (Hooked(r) => tasks'[r] = tasks[r])
  BY <1>1, <1>4, <1>5
<1>10. Proxies'
  BY <1>9, SameProxies
<1> QED
  BY <1>1, <1>2, <1>7, <1>8, <1>9, <1>10 DEF TaskInv

\* The proxy of t goes into the switch of a, and out of it.
Enters(t, s, a, ok) ==
    /\ call[t].at = "hook switch" /\ call[t].stub = s /\ call[t].arg = a
    /\ CallStep(t) /\ UNCHANGED <<tasks, mode>>
    /\ call'[t].at = "hook recorded" /\ call'[t].stub = s /\ call'[t].arg = a
    /\ call'[t].ok = ok
    /\ ok => t \notin switches[a] /\ (mode = "unique" => switches[a] = {})
    /\ switches' = IF ok THEN [switches EXCEPT ![a] = switches[a] \union {t}] ELSE switches
Leaves(t, s, a) ==
    /\ call[t].at = "unhook" /\ call[t].arg = s /\ tasks[s].addr = a
    /\ CallStep(t) /\ UNCHANGED <<tasks, mode>>
    /\ call'[t].at = "unhook recorded" /\ call'[t].stub = s
    /\ switches' = [switches EXCEPT ![a] = IF mode = "unique" THEN {} ELSE switches[a] \ {t}]

LEMMA SwitchTasks ==
    ASSUME TaskInv, NEW t \in Threads, NEW s, NEW a, NEW ok \in BOOLEAN, Enters(t, s, a, ok)
    PROVE  /\ TaskInv'
           /\ \A r \in Stubs : r # s => (Hooked(r)' <=> Hooked(r))
           /\ \A r \in Stubs : Hooked(r) => Hooked(r)'
           /\ ok => Hooked(s)'
<1>0. CallStep(t) /\ tasks' = tasks /\ mode' = mode
  BY DEF Enters
<1>1. s \in Stubs /\ a \in Funcs /\ tasks[s] = Task(t, a)
  <2>1. MineOf(t)
    BY DEF TaskInv, Mine
  <2> QED
    BY <2>1 DEF MineOf, Enters
<1>2. tasks[s].by = t /\ tasks[s].addr = a /\ tasks[s] # NoTask
  <2>1. Task(t, a).by = t /\ Task(t, a).addr = a
    BY TaskFields
  <2>2. Task(t, a) # NoTask
    BY TaskFields
  <2> QED
    BY <1>1, <2>1, <2>2
<1>3. ASSUME NEW r \in Stubs, r # s PROVE Hooked(r)' <=> Hooked(r)
  <2>1. ~Working(t, r) /\ ~Working(t, r)'
    BY <1>3 DEF Working, Enters
  <2>2. tasks'[r] = tasks[r]
    BY <1>0
  <2> QED
    BY <1>0, <2>1, <2>2, HookedSame
<1>4. ~Hooked(s)
  BY DEF Hooked, Working, Busy, Enters
<1>5. Hooked(s)' <=> ok
  <2>1. \A u \in Threads : u # t => ~Working(u, s)'
    <3>1. SUFFICES ASSUME NEW u \in Threads, u # t PROVE ~Working(u, s)'
      OBVIOUS
    <3>2. ~Working(u, s)
      BY <1>1, <1>2, <3>1, WorksOnOwn
    <3> QED
      BY <1>0, <3>1, <3>2 DEF Working, CallStep
  <2>2. Working(t, s)' <=> ~ok
    BY DEF Working, Busy, Enters
  <2>3. tasks'[s] # NoTask
    BY <1>0, <1>2
  <2> QED
    BY <2>1, <2>2, <2>3 DEF Hooked
<1>6. MineOf(t)'
  BY <1>0, <1>1 DEF MineOf, Enters
<1>7. Mine'
  BY <1>0, <1>6, OthersMine
<1>8. Proxies'
  <2>1. CASE ~ok
    <3>1. \A r \in Stubs : Hooked(r)' <=> Hooked(r)
      BY <1>3, <1>4, <1>5, <2>1
    <3>2. switches' = switches
      BY <2>1 DEF Enters
    <3> QED
      BY <1>0, <3>1, <3>2 DEF TaskInv, Proxies
  <2>2. CASE ok
    <3>1. switches \in [Funcs -> SUBSET Threads]
      BY DEF TaskInv, Proxies
    <3>2. /\ switches' \in [Funcs -> SUBSET Threads]
          /\ switches'[a] = switches[a] \union {t} /\ t \notin switches[a]
          /\ \A b \in Funcs : b # a => switches'[b] = switches[b]
      BY <1>1, <2>2, <3>1 DEF Enters
    <3>3. \A r \in Stubs : Hooked(r)' => tasks'[r].by \in switches'[tasks'[r].addr]
      <4>1. SUFFICES ASSUME NEW r \in Stubs, Hooked(r)'
                     PROVE  tasks[r].by \in switches'[tasks[r].addr]
        BY <1>0
      <4>2. CASE r = s
        BY <1>2, <3>2, <4>2
      <4>3. CASE r # s
        <5>1. Hooked(r)
          BY <1>3, <4>1, <4>3
        <5>2. tasks[r].addr \in Funcs
          BY <5>1, HookedByThread, TaskOf DEF Hooked
        <5> QED
          BY <3>2, <5>1, <5>2 DEF TaskInv, Proxies
      <4> QED
        BY <4>2, <4>3
    <3>4. \A b \in Funcs : \A u \in switches'[b] : \E r \in Stubs : Hooked(r)' /\ tasks'[r] = Task(u, b)
      <4>1. SUFFICES ASSUME NEW b \in Funcs, NEW u \in switches'[b]
                     PROVE  \E r \in Stubs : Hooked(r)' /\ tasks[r] = Task(u, b)
        BY <1>0
      <4>2. CASE u \in switches[b]
        <5>1. PICK r \in Stubs : Hooked(r) /\ tasks[r] = Task(u, b)
          BY <4>2 DEF TaskInv, Proxies
        <5> QED
          BY <1>3, <1>4, <5>1
      <4>3. CASE u \notin switches[b]
        <5>0. b = a
          BY <3>2, <4>3
        <5>1. u = t /\ b = a
          BY <3>2, <4>3, <5>0
        <5> QED
          BY <1>1, <1>5, <2>2, <5>1
      <4> QED
        BY <4>2, <4>3
    <3>5. \A r, q \in Stubs : Hooked(r)' /\ Hooked(q)' /\ tasks'[r] = tasks'[q] => r = q
      <4>1. \A r \in Stubs : r # s /\ Hooked(r)' => tasks[r] # tasks[s]
        <5>1. SUFFICES ASSUME NEW r \in Stubs, r # s, Hooked(r)', tasks[r] = tasks[s] PROVE FALSE
          OBVIOUS
        <5>2. tasks[r].by \in switches[tasks[r].addr]
          BY <1>3, <5>1 DEF TaskInv, Proxies
        <5>3. tasks[r].by = t /\ tasks[r].addr = a
          BY <1>2, <5>1
        <5> QED
          BY <3>2, <5>2, <5>3
      <4> QED
        BY <1>0, <1>3, <4>1 DEF TaskInv, Proxies
    <3>6. mode' = "unique" => \A b \in Funcs : \A u, v \in switches'[b] : u = v
      <4>1. ASSUME mode = "unique", NEW b \in Funcs PROVE \A u, v \in switches'[b] : u = v
        <5>1. CASE b = a
          <6>1. switches[a] = {}
            BY <2>2, <4>1 DEF Enters
          <6> QED
            BY <3>2, <5>1, <6>1
        <5>2. CASE b # a
          <6>1. switches'[b] = switches[b]
            BY <3>2, <5>2
          <6>2. \A u, v \in switches[b] : u = v
            BY <4>1 DEF TaskInv, Proxies
          <6> QED
            BY <6>1, <6>2
        <5> QED
          BY <5>1, <5>2
      <4> QED
        BY <1>0, <4>1
    <3> QED
      BY <3>2, <3>3, <3>4, <3>5, <3>6 DEF Proxies
  <2> QED
    BY <2>1, <2>2
<1> QED
  BY <1>0, <1>3, <1>4, <1>5, <1>7, <1>8 DEF TaskInv, TasksOK

\* The end of a call that gives its task up, or of a hook that keeps it.
LEMMA EndTasks ==
    ASSUME TaskInv, DOMAIN tasks = Stubs, NEW t \in Threads, NEW s, call[t].stub = s,
           call[t].at \in {"hook recorded", "unhook recorded"},
           tasks' = IF call[t].at = "hook recorded" /\ call[t].ok THEN tasks
                    ELSE [tasks EXCEPT ![s] = NoTask],
           UNCHANGED <<switches, mode>>, CallStep(t), call'[t].at = "idle"
    PROVE  /\ TaskInv'
           /\ \A r \in Stubs : Hooked(r)' <=> Hooked(r)
           /\ \A r \in Stubs : Hooked(r) \/ tasks[r].by \in Threads \ {t} => tasks'[r] = tasks[r]
<1>1. s \in Stubs /\ tasks[s].by = t
  <2>1. Task(t, call[t].arg).by = t
    BY TaskFields
  <2> QED
    BY <2>1 DEF TaskInv, Mine, MineOf
<1>2. \A r \in Stubs : r # s => tasks'[r] = tasks[r]
  OBVIOUS
<1>3. ~Working(t, s)' /\ \A r \in Stubs : r # s => ~Working(t, r) /\ ~Working(t, r)'
  BY DEF Working, Busy
<1>4. \A r \in Stubs : Hooked(r)' <=> Hooked(r)
  <2>1. ASSUME NEW r \in Stubs, r # s PROVE Hooked(r)' <=> Hooked(r)
    BY <1>2, <1>3, <2>1, HookedSame
  <2>2. CASE call[t].at = "hook recorded" /\ call[t].ok
    <3>1. ~Working(t, s) /\ tasks' = tasks
      BY <2>2 DEF Working
    <3>2. tasks'[s] = tasks[s]
      BY <3>1
    <3>3. Hooked(s)' <=> Hooked(s)
      BY <1>3, <3>1, <3>2, HookedSame
    <3> QED
      BY <2>1, <3>3
  <2>3. CASE ~(call[t].at = "hook recorded" /\ call[t].ok)
    <3>1. tasks'[s] = NoTask
      BY <1>1, <2>3
    <3>2. Working(t, s)
      BY <2>3 DEF Working, Busy
    <3> QED
      BY <2>1, <3>1, <3>2 DEF Hooked
  <2> QED
    BY <2>2, <2>3
<1>5. \A r \in Stubs : Hooked(r) => tasks'[r] = tasks[r]
  <2>1. CASE call[t].at = "hook recorded" /\ call[t].ok
    BY <2>1
  <2>2. CASE ~(call[t].at = "hook recorded" /\ call[t].ok)
    <3>1. ~Hooked(s)
      BY <2>2 DEF Hooked, Working, Busy
    <3> QED
      BY <1>2, <3>1
  <2> QED
    BY <2>1, <2>2
<1>6. \A r \in Stubs : tasks[r].by \in Threads /\ tasks[r].by # t => tasks'[r] = tasks[r]
  BY <1>1, <1>2
<1>7. MineOf(t)'
  BY DEF MineOf
<1>8. Mine'
  BY <1>6, <1>7, OthersMine
<1>9. Proxies'
  BY <1>4, <1>5, SameProxies
<1>10. TasksOK'
  <2>1. \A r \in Stubs : tasks[r] = NoTask \/ \E u \in Threads, b \in Funcs : tasks[r] = Task(u, b)
    BY DEF TaskInv, TasksOK
  <2>2. tasks'[s] = NoTask \/ tasks'[s] = tasks[s]
    BY <1>1
  <2>3. ASSUME NEW r \in Stubs
        PROVE  tasks'[r] = NoTask \/ \E u \in Threads, b \in Funcs : tasks'[r] = Task(u, b)
    BY <1>2, <2>1, <2>2
  <2> QED
    BY <2>3 DEF TasksOK
<1> QED
  BY <1>4, <1>5, <1>6, <1>8, <1>9, <1>10 DEF TaskInv

LEMMA UnhookTasks ==
    ASSUME TaskInv, NEW t \in Threads, NEW s, NEW a, Leaves(t, s, a)
    PROVE  /\ TaskInv'
           /\ s \in Stubs /\ a \in Funcs /\ tasks[s] = Task(t, a) /\ Hooked(s)
           /\ \A r \in Stubs : r # s => (Hooked(r)' <=> Hooked(r))
           /\ switches'[a] = switches[a] \ {t} /\ t \in switches[a]
           /\ \A b \in Funcs : b # a => switches'[b] = switches[b]
<1>0. CallStep(t) /\ tasks' = tasks /\ mode' = mode /\ tasks[s].addr = a
  BY DEF Leaves
<1>1. s \in Stubs /\ tasks[s].by = t
  <2>1. MineOf(t)
    BY DEF TaskInv, Mine
  <2> QED
    BY <2>1 DEF MineOf, Leaves
<1>2. a \in Funcs /\ tasks[s] = Task(t, a) /\ tasks[s] # NoTask
  BY <1>0, <1>1, TaskOf
<1>3. Hooked(s)
  <2>1. ASSUME NEW u \in Threads PROVE ~Working(u, s)
    <3>1. CASE u = t
      BY <3>1 DEF Working, Busy, Leaves
    <3>2. CASE u # t
      BY <1>1, <3>2, WorksOnOwn
    <3> QED
      BY <3>1, <3>2
  <2> QED
    BY <1>2, <2>1 DEF Hooked
<1>4. ASSUME NEW r \in Stubs, r # s PROVE Hooked(r)' <=> Hooked(r)
  <2>1. ~Working(t, r) /\ ~Working(t, r)'
    BY <1>4 DEF Working, Busy, Leaves
  <2>2. tasks'[r] = tasks[r]
    BY <1>0
  <2> QED
    BY <1>0, <2>1, <2>2, HookedSame
<1>5. ~Hooked(s)'
  <2>1. Working(t, s)'
    BY DEF Working, Busy, Leaves
  <2> QED
    BY <2>1 DEF Hooked
<1>6. switches \in [Funcs -> SUBSET Threads] /\ t \in switches[a]
  <2>1. Proxies
    BY DEF TaskInv
  <2>2. tasks[s].by \in switches[tasks[s].addr]
    BY <1>1, <1>3, <2>1 DEF Proxies
  <2> QED
    BY <1>0, <1>1, <2>1, <2>2 DEF Proxies
<1>7. mode = "unique" => switches[a] \ {t} = {}
  <2>1. mode = "unique" => \A u, v \in switches[a] : u = v
    BY <1>2 DEF TaskInv, Proxies
  <2> QED
    BY <1>6, <2>1
<1>8. switches' = [switches EXCEPT ![a] = switches[a] \ {t}]
  BY <1>7 DEF Leaves
<1>9. switches'[a] = switches[a] \ {t} /\ \A b \in Funcs : b # a => switches'[b] = switches[b]
  BY <1>2, <1>6, <1>8
<1>10. switches' \in [Funcs -> SUBSET Threads]
  BY <1>2, <1>6, <1>8
<1>11. MineOf(t)'
  BY <1>0, <1>1 DEF MineOf, Leaves
<1>12. Mine'
  BY <1>0, <1>11, OthersMine
<1>13. Proxies'
  <2>1. \A r \in Stubs : Hooked(r)' => tasks'[r].by \in switches'[tasks'[r].addr]
    <3>1. SUFFICES ASSUME NEW r \in Stubs, Hooked(r)' PROVE tasks[r].by \in switches'[tasks[r].addr]
      BY <1>0
    <3>2. r # s /\ Hooked(r)
      BY <1>4, <1>5, <3>1
    <3>3. tasks[r] # tasks[s] /\ tasks[r].by \in switches[tasks[r].addr]
      BY <1>1, <1>3, <3>2 DEF TaskInv, Proxies
    <3>4. tasks[r].addr \in Funcs /\ tasks[r] = Task(tasks[r].by, tasks[r].addr)
      BY <3>2, HookedByThread, TaskOf DEF Hooked
    <3>5. CASE tasks[r].addr = a
      BY <1>2, <1>9, <3>3, <3>4, <3>5
    <3>6. CASE tasks[r].addr # a
      BY <1>9, <3>3, <3>4, <3>6
    <3> QED
      BY <3>5, <3>6
  <2>2. \A b \in Funcs : \A u \in switches'[b] : \E r \in Stubs : Hooked(r)' /\ tasks'[r] = Task(u, b)
    <3>1. SUFFICES ASSUME NEW b \in Funcs, NEW u \in switches'[b]
                   PROVE  \E r \in Stubs : Hooked(r)' /\ tasks[r] = Task(u, b)
      BY <1>0
    <3>2. u \in switches[b] /\ (b = a => u # t)
      BY <1>9
    <3>3. PICK r \in Stubs : Hooked(r) /\ tasks[r] = Task(u, b)
      BY <3>2 DEF TaskInv, Proxies
    <3>4. r # s
      <4>1. Task(u, b).by = u /\ Task(u, b).addr = b
        BY TaskFields
      <4>2. Task(t, a).by = t /\ Task(t, a).addr = a
        BY TaskFields
      <4>3. r = s => Task(u, b) = Task(t, a)
        BY <1>2, <3>3
      <4> QED
        BY <3>2, <4>1, <4>2, <4>3
    <3> QED
      BY <1>4, <3>3, <3>4
  <2>3. \A r, q \in Stubs : Hooked(r)' /\ Hooked(q)' /\ tasks'[r] = tasks'[q] => r = q
    <3>1. \A r \in Stubs : Hooked(r)' => Hooked(r)
      BY <1>4, <1>5
    <3>2. \A r, q \in Stubs : Hooked(r) /\ Hooked(q) /\ tasks[r] = tasks[q] => r = q
      BY DEF TaskInv, Proxies
    <3> QED
      BY <1>0, <3>1, <3>2
  <2>4. mode' = "unique" => \A b \in Funcs : \A u, v \in switches'[b] : u = v
    <3>1. \A b \in Funcs : switches'[b] \subseteq switches[b]
      BY <1>9
    <3>2. mode = "unique" => \A b \in Funcs : \A u, v \in switches[b] : u = v
      BY DEF TaskInv, Proxies
    <3> QED
      BY <1>0, <3>1, <3>2
  <2> QED
    BY <1>10, <2>1, <2>2, <2>3, <2>4 DEF Proxies
<1>14. TasksOK'
  BY <1>0 DEF TaskInv, TasksOK
<1>15. TaskInv'
  BY <1>12, <1>13, <1>14 DEF TaskInv
<1> QED
  BY <1>1, <1>2, <1>3, <1>4, <1>6, <1>9, <1>15

HookInv == TaskInv /\ ListInv

LEMMA HookFrame ==
    ASSUME HookInv, NEW t \in Threads, CallStep(t),
           UNCHANGED <<tasks, switches, hookedList, dobby>>, mixed' <=> mixed,
           call[t].at \notin Busy, call'[t].at \notin Busy, MineOf(t)', ServedOf(t)',
           t = Main => Asks', mode' = mode \/ \A s \in Stubs : tasks[s] = NoTask
    PROVE  HookInv'
<1>1. TaskInv' /\ \A s : Hooked(s)' <=> Hooked(s)
  BY TaskFrame DEF HookInv
<1>2. ListInv'
  BY <1>1, ListFrame DEF HookInv
<1> QED
  BY <1>1, <1>2 DEF HookInv

\* A call that is over, or at a point where it holds nothing.
LEMMA IdleAsks ==
    ASSUME NEW t \in Threads, call'[t] = Idle
    PROVE  MineOf(t)' /\ ServedOf(t)' /\ (t = Main => Asks') /\ call'[t].at \notin Busy
<1>1. call'[t].at = "idle" /\ call'[t].back = "user"
  BY IdleCall
<1> QED
  BY <1>1 DEF MineOf, ServedOf, Asks, Busy

LEMMA BeginHook ==
    ASSUME Typed, HookInv, NEW t \in Threads, NEW w, NEW x, Begin(t, w, x),
           \/ t = Main /\ BegunByMain(w, x)
           \/ t # Main /\ BegunByUser(t, w, x)
    PROVE  HookInv'
<1>1. w \in CallPoints /\ x \in Args
  BY BegunIsCall
<1>2. /\ call[t].at = "idle"
      /\ CallStep(t) /\ call'[t].at = w /\ call'[t].arg = x /\ call'[t].back = call[t].back
  BY <1>1, BeginChanges
<1>3. UNCHANGED <<tasks, switches, hookedList, dobby, mixed, mode>>
  BY DEF Begin, hookVars, utilVars, initVars
<1>4. CASE t = Main
  <2>1. w \in {"Hooker", "unHook", "set model"} /\ (w = "Hooker" => x \in Funcs)
    BY <1>4 DEF BegunByMain
  <2>2. MineOf(t)' /\ ServedOf(t)' /\ Asks' /\ call'[t].at \notin Busy /\ call[t].at \notin Busy
    BY <1>2, <1>4, <2>1 DEF MineOf, ServedOf, Asks, Busy
  <2> QED
    BY <1>2, <1>3, <2>2, HookFrame
<1>5. CASE t # Main
  <2>1. /\ w \in {"init", "hook", "unhook", "records", "set recordable"}
        /\ w = "hook" => x \in Funcs
        /\ w = "unhook" => x \in Stubs /\ tasks[x].by = t
    BY <1>5 DEF BegunByUser
  <2>2. call[t].back = "user"
    BY <1>5 DEF HookInv, ListInv, Served, ServedOf
  <2>3. MineOf(t)'
    BY <1>2, <1>3, <2>1 DEF MineOf
  <2>4. ServedOf(t)' /\ call'[t].at \notin Busy /\ call[t].at \notin Busy
    BY <1>2, <1>5, <2>1, <2>2 DEF ServedOf, Busy
  <2> QED
    BY <1>2, <1>3, <1>5, <2>3, <2>4, HookFrame
<1> QED
  BY <1>4, <1>5

LEMMA InitReturnHook ==
    ASSUME Typed, HookInv, NEW t \in Threads, NEW r, InitReturn(t, r),
           call[t].at \in {"init", "init lock", "init mods"}, UNCHANGED <<tasks, switches, mode>>
    PROVE  HookInv'
<1>1. /\ CallStep(t) /\ UNCHANGED <<hookedList, dobby, mixed>>
      /\ call[t].back = "Hooker" => call'[t] = [call[t] EXCEPT !.at = "Hooker list"]
      /\ call[t].back # "Hooker" => call'[t] = Idle
  BY InitReturnChanges
<1>2. call[t].at \notin Busy
  BY DEF Busy
<1>3. CASE call[t].back # "Hooker"
  BY <1>1, <1>2, <1>3, IdleAsks, HookFrame
<1>4. CASE call[t].back = "Hooker"
  <2>1. t = Main /\ call[t].arg \in Funcs
    BY <1>4 DEF HookInv, ListInv, Served, ServedOf
  <2>2. call'[t].at = "Hooker list" /\ call'[t].arg = call[t].arg
    BY <1>1, <1>4 DEF Typed, Calls
  <2>3. MineOf(t)' /\ ServedOf(t)' /\ Asks' /\ call'[t].at \notin Busy
    BY <2>1, <2>2 DEF MineOf, ServedOf, Asks, Busy
  <2> QED
    BY <1>1, <1>2, <2>3, HookFrame
<1> QED
  BY <1>3, <1>4

LEMMA InitHook ==
    ASSUME OnceInv, HookInv, NEW t \in Threads, InitCheck(t) \/ InitBody(t) \/ InitEnd(t)
    PROVE  HookInv'
<1>0. Typed
  BY DEF OnceInv
<1>1. ASSUME CallStep(t), call[t].at \in {"init", "init lock"}, NEW w \in {"init lock", "init mods"},
             call'[t] = [call[t] EXCEPT !.at = w],
             UNCHANGED <<tasks, switches, hookedList, dobby, mixed>>,
             mode' = mode \/ \A s \in Stubs : tasks[s] = NoTask
      PROVE  HookInv'
  <2>1. call'[t].at = w /\ call'[t].arg = call[t].arg /\ call'[t].back = call[t].back
    <3>1. call[t] \in Calls
      BY <1>0 DEF Typed
    <3>2. call'[t].at = w
      BY <1>1, <3>1 DEF Calls
    <3>3. call'[t].arg = call[t].arg
      BY <1>1, <3>1 DEF Calls
    <3>4. call'[t].back = call[t].back
      BY <1>1, <3>1 DEF Calls
    <3> QED
      BY <3>2, <3>3, <3>4
  <2>2. ServedOf(t)
    BY DEF HookInv, ListInv, Served
  <2>3. MineOf(t)' /\ ServedOf(t)' /\ (t = Main => Asks')
    BY <1>1, <2>1, <2>2 DEF MineOf, ServedOf, Asks
  <2>4. call[t].at \notin Busy /\ call'[t].at \notin Busy
    BY <1>1, <2>1 DEF Busy
  <2> QED
    BY <1>1, <2>3, <2>4, HookFrame
<1>2. CASE InitCheck(t)
  <2>1. call[t].at = "init" /\ UNCHANGED <<tasks, switches, mode>>
    BY <1>0, <1>2, InitCheckChanges DEF initVars, hookVars
  <2>2. CASE InitReturn(t, initErrno)
    BY <1>0, <2>1, <2>2, InitReturnHook
  <2>3. CASE /\ CallStep(t) /\ call'[t] = [call[t] EXCEPT !.at = "init lock"]
             /\ UNCHANGED utilVars
    BY <1>1, <2>1, <2>3 DEF utilVars
  <2> QED
    BY <1>0, <1>2, <2>2, <2>3, InitCheckChanges
<1>3. CASE InitBody(t)
  <2>1. call[t].at = "init lock" /\ UNCHANGED <<tasks, switches>>
    BY <1>0, <1>3, InitBodyChanges DEF hookVars
  <2>2. CASE initErrno # "uninit"
    <3>1. UNCHANGED mode /\ InitReturn(t, initErrno)
      BY <1>0, <1>3, <2>2, InitBodyChanges DEF initVars
    <3> QED
      BY <1>0, <2>1, <3>1, InitReturnHook
  <2>3. CASE initErrno = "uninit"
    <3>1. CallStep(t) /\ call'[t] = [call[t] EXCEPT !.at = "init mods"] /\ UNCHANGED utilVars
      BY <1>0, <1>3, <2>3, InitBodyChanges
    <3>2. \A s \in Stubs : tasks[s] = NoTask
      BY <2>3 DEF OnceInv, Once
    <3> QED
      BY <1>1, <2>1, <3>1, <3>2 DEF utilVars
  <2> QED
    BY <2>2, <2>3
<1>4. CASE InitEnd(t)
  <2>1. call[t].at = "init mods" /\ UNCHANGED <<tasks, switches, mode>> /\ \E r : InitReturn(t, r)
    BY <1>4 DEF InitEnd, At, hookVars
  <2> QED
    BY <1>0, <2>1, InitReturnHook
<1> QED
  BY <1>2, <1>3, <1>4

LEMMA PlainHook ==
    ASSUME OnceInv, HookInv, NEW t \in Threads,
           GetRecords(t) \/ GotRecords(t) \/ SetRecordable(t) \/ Recording(t)
    PROVE  HookInv'
<1>0. Typed
  BY DEF OnceInv
<1>1. CASE Recording(t)
  <2>1. UNCHANGED <<tasks, switches, hookedList, dobby, mixed, mode, call>>
    BY <1>0, <1>1, PlainChanges DEF hookVars, utilVars, initVars
  <2>2. (\A u, s : Working(u, s)' <=> Working(u, s)) /\ (\A u \in Threads : MineOf(u)' <=> MineOf(u))
        /\ (\A u \in Threads : ServedOf(u)' <=> ServedOf(u))
    BY <2>1 DEF Working, MineOf, ServedOf
  <2>3. \A s : Hooked(s)' <=> Hooked(s)
    BY <2>1, <2>2 DEF Hooked
  <2>4. TaskInv'
    BY <2>1, <2>2, <2>3, SameProxies DEF HookInv, TaskInv, TasksOK, Mine
  <2>5. Served' /\ Asks'
    BY <2>1, <2>2 DEF HookInv, ListInv, Served, Asks, Listed
  <2>6. Listing'
    BY <2>1, <2>3 DEF HookInv, ListInv, Listing, Entry, Leaving
  <2>7. Pure'
    BY <2>1 DEF HookInv, ListInv, Pure, Arriving, Listed
  <2> QED
    BY <2>4, <2>5, <2>6, <2>7 DEF HookInv, ListInv
<1>2. CASE ~Recording(t)
  <2>1. /\ CallStep(t) /\ call[t].at \in {"records", "records got", "set recordable"}
        /\ UNCHANGED <<tasks, switches, hookedList, dobby, mixed, mode>>
        /\ call'[t] = Idle \/ (call[t].at = "records" /\ call'[t] = [call[t] EXCEPT !.at = "records got"])
    BY <1>0, <1>2, PlainChanges DEF hookVars, utilVars, initVars
  <2>2. call[t].at \notin Busy
    BY <2>1 DEF Busy
  <2>3. CASE call'[t] = Idle
    BY <2>1, <2>2, <2>3, IdleAsks, HookFrame
  <2>4. CASE call[t].at = "records" /\ call'[t] = [call[t] EXCEPT !.at = "records got"]
    <3>1. call'[t].at = "records got" /\ call'[t].back = call[t].back
      <4>1. call[t] \in Calls
        BY <1>0 DEF Typed
      <4>2. call'[t].at = "records got"
        BY <2>4, <4>1 DEF Calls
      <4>3. call'[t].back = call[t].back
        BY <2>4, <4>1 DEF Calls
      <4> QED
        BY <4>2, <4>3
    <3>2. ServedOf(t)
      BY DEF HookInv, ListInv, Served
    <3>3. MineOf(t)' /\ ServedOf(t)' /\ (t = Main => Asks') /\ call'[t].at \notin Busy
      BY <3>1, <3>2 DEF MineOf, ServedOf, Asks, Busy
    <3> QED
      BY <2>1, <2>2, <3>3, HookFrame
  <2> QED
    BY <2>1, <2>3, <2>4
<1> QED
  BY <1>1, <1>2

LEMMA EntryStays ==
    ASSUME NEW e, Entry(e), e.module = "dobby" => e.orig \in dobby',
           \A s \in Stubs : s = e.ret /\ tasks[s].by = Main /\ (Hooked(s) \/ Leaving(s)) =>
              tasks'[s] = tasks[s] /\ (Hooked(s)' \/ Leaving(s)')
    PROVE  Entry(e)'
<1>1. CASE e.module # "shadowhook"
  BY <1>1 DEF Entry
<1>2. CASE e.module = "shadowhook"
  <2>1. e.ret \in Stubs /\ e.orig \in Funcs /\ tasks[e.ret] = Task(Main, e.orig)
        /\ (Hooked(e.ret) \/ Leaving(e.ret))
    BY <1>2 DEF Entry
  <2>2. tasks[e.ret].by = Main
    BY <2>1, TaskIs
  <2>3. tasks'[e.ret] = tasks[e.ret] /\ (Hooked(e.ret)' \/ Leaving(e.ret)')
    BY <2>1, <2>2
  <2> QED
    BY <1>2, <2>1, <2>3 DEF Entry
<1> QED
  BY <1>1, <1>2

LEMMA ListingStays ==
    ASSUME Listing, UNCHANGED hookedList, dobby \subseteq dobby',
           \A s \in Stubs : tasks[s].by = Main /\ (Hooked(s) \/ Leaving(s)) =>
              tasks'[s] = tasks[s] /\ (Hooked(s)' \/ Leaving(s)')
    PROVE  Listing'
<1>1. ASSUME NEW i \in DOMAIN hookedList PROVE Entry(hookedList[i])'
  <2> DEFINE e == hookedList[i]
  <2>1. Entry(e) /\ (e.module = "dobby" => e.orig \in dobby')
    BY DEF Listing, Entry
  <2>2. \A f : f = e => Entry(f)'
    BY <2>1, EntryStays
  <2>3. e' = e
    OBVIOUS
  <2> QED
    BY <2>2, <2>3 DEF Entry
<1> QED
  BY <1>1 DEF Listing

LEMMA ListingAppends ==
    ASSUME Listing, hookedList \in Seq(Entries), NEW e \in Entries,
           hookedList' = Append(hookedList, e), ~Listed(e.orig), Entry(e)',
           dobby \subseteq dobby',
           \A s \in Stubs : tasks[s].by = Main /\ (Hooked(s) \/ Leaving(s)) =>
              tasks'[s] = tasks[s] /\ (Hooked(s)' \/ Leaving(s)')
    PROVE  Listing' /\ \A a : Listed(a)' <=> Listed(a) \/ a = e.orig
<1> DEFINE n == Len(hookedList)
<1>1. /\ n \in Nat /\ DOMAIN hookedList = 1..n /\ DOMAIN hookedList' = 1..n + 1
      /\ hookedList'[n + 1] = e /\ \A i \in 1..n : hookedList'[i] = hookedList[i]
  BY AppendProperties, LenProperties
<1> HIDE DEF n
<1>2. ASSUME NEW i \in 1..n PROVE Entry(hookedList[i]) /\ \A f : f = hookedList[i] => Entry(f)'
  <2>1. Entry(hookedList[i]) /\ (hookedList[i].module = "dobby" => hookedList[i].orig \in dobby')
    BY <1>1 DEF Listing, Entry
  <2> QED
    BY <2>1, EntryStays
<1>3. \A i \in 1..n + 1 : \A f : f = hookedList'[i] => Entry(f)'
  <2>1. SUFFICES ASSUME NEW i \in 1..n + 1, NEW f, f = hookedList'[i] PROVE Entry(f)'
    OBVIOUS
  <2>2. CASE i \in 1..n
    BY <1>1, <1>2, <2>1, <2>2
  <2>3. CASE i \notin 1..n
    <3>1. f = e
      BY <1>1, <2>1, <2>3
    <3> QED
      BY <3>1
  <2> QED
    BY <2>2, <2>3
<1>4. \A i \in 1..n + 1 : Entry(hookedList[i])'
  BY <1>3 DEF Entry
<1>5. \A i, j \in 1..n + 1 : hookedList'[i].orig = hookedList'[j].orig => i = j
  <2>1. \A i \in 1..n : hookedList[i].orig # e.orig
    BY <1>1 DEF Listed
  <2>2. \A i, j \in 1..n : hookedList[i].orig = hookedList[j].orig => i = j
    BY <1>1 DEF Listing
  <2>3. \A i \in 1..n + 1 : i \in 1..n \/ i = n + 1
    BY <1>1
  <2> QED
    BY <1>1, <2>1, <2>2, <2>3
<1>6. Listing'
  BY <1>1, <1>4, <1>5 DEF Listing
<1>7. \A a : Listed(a)' <=> Listed(a) \/ a = e.orig
  <2>1. \A i \in 1..n + 1 : i \in 1..n \/ i = n + 1
    BY <1>1
  <2>2. n + 1 \in 1..n + 1 /\ 1..n \subseteq 1..n + 1
    BY <1>1
  <2> QED
    BY <1>1, <2>1, <2>2 DEF Listed
<1> QED
  BY <1>6, <1>7

LEMMA WithoutAt ==
    ASSUME NEW S, NEW list \in Seq(S), NEW i \in 1..Len(list)
    PROVE  /\ Len(Without(list, i)) = Len(list) - 1
           /\ \A k \in 1..Len(list) - 1 : Without(list, i)[k] = list[IF k < i THEN k ELSE k + 1]
<1>1. i \in Nat /\ Len(list) \in Nat
  BY LenProperties
<1> DEFINE u == SubSeq(list, 1, i - 1)
<1> DEFINE v == SubSeq(list, i + 1, Len(list))
<1>2. u \in Seq(S) /\ Len(u) = i - 1 /\ \A k \in 1..i - 1 : u[k] = list[k]
  <2>1. \A k \in 1..i - 1 : list[k] \in S
    BY <1>1, ElementOfSeq
  <2> QED
    BY <1>1, <2>1, SubSeqProperties
<1>3. v \in Seq(S) /\ Len(v) = Len(list) - i /\ \A k \in 1..Len(list) - i : v[k] = list[i + k]
  <2>1. \A k \in i + 1..Len(list) : list[k] \in S
    BY <1>1, ElementOfSeq
  <2> QED
    BY <1>1, <2>1, SubSeqProperties
<1> HIDE DEF u, v
<1>4. Len(u \o v) = Len(list) - 1
  BY <1>1, <1>2, <1>3, ConcatProperties
<1>5. ASSUME NEW k \in 1..Len(list) - 1 PROVE (u \o v)[k] = list[IF k < i THEN k ELSE k + 1]
  <2>1. (u \o v)[k] = IF k <= Len(u) THEN u[k] ELSE v[k - Len(u)]
    BY <1>1, <1>2, <1>3, ConcatProperties
  <2>2. CASE k < i
    BY <1>1, <1>2, <2>1, <2>2
  <2>3. CASE ~(k < i)
    <3>1. k - Len(u) = k - i + 1 /\ k - i + 1 \in 1..Len(list) - i /\ i + (k - i + 1) = k + 1
      BY <1>1, <1>2, <2>3
    <3> QED
      BY <1>1, <1>2, <1>3, <2>1, <2>3, <3>1
  <2> QED
    BY <2>2, <2>3
<1> QED
  BY <1>4, <1>5 DEF Without, u, v

LEMMA ListingRemoves ==
    ASSUME Listing, hookedList \in Seq(Entries), NEW i \in DOMAIN hookedList,
           hookedList' = Without(hookedList, i),
           dobby \ {hookedList[i].orig} \subseteq dobby',
           \A s \in Stubs : s # hookedList[i].ret /\ tasks[s].by = Main /\ (Hooked(s) \/ Leaving(s)) =>
              tasks'[s] = tasks[s] /\ (Hooked(s)' \/ Leaving(s)')
    PROVE  Listing' /\ \A a : a # hookedList[i].orig => (Listed(a)' <=> Listed(a))
<1> DEFINE n == Len(hookedList)
<1> DEFINE at(k) == IF k < i THEN k ELSE k + 1
<1>1. n \in Nat /\ DOMAIN hookedList = 1..n /\ i \in 1..n /\ i \in Nat
  BY LenProperties
<1>2. /\ DOMAIN hookedList' = 1..n - 1
      /\ \A k \in 1..n - 1 : hookedList'[k] = hookedList[at(k)]
  <2>1. Len(hookedList') = n - 1 /\ \A k \in 1..n - 1 : hookedList'[k] = hookedList[at(k)]
    BY <1>1, WithoutAt
  <2>2. hookedList' \in Seq(Entries)
    BY Shorter
  <2> QED
    BY <2>1, <2>2, LenProperties
<1>3. \A k \in 1..n - 1 : at(k) \in 1..n /\ at(k) # i
  BY <1>1
<1>4. \A k, m \in 1..n - 1 : at(k) = at(m) => k = m
  BY <1>1
<1>5. \A k \in 1..n : k # i => \E m \in 1..n - 1 : at(m) = k
  <2>1. SUFFICES ASSUME NEW k \in 1..n, k # i PROVE \E m \in 1..n - 1 : at(m) = k
    OBVIOUS
  <2>2. CASE k < i
    BY <1>1, <2>2
  <2>3. CASE ~(k < i)
    <3>1. k - 1 \in 1..n - 1 /\ at(k - 1) = k
      BY <1>1, <2>1, <2>3
    <3> QED
      BY <3>1
  <2> QED
    BY <2>2, <2>3
<1> HIDE DEF at, n
<1>6. \A k \in 1..n : k # i => hookedList[k].orig # hookedList[i].orig
  BY <1>1 DEF Listing
<1>7. ASSUME NEW k \in 1..n, k # i, NEW f, f = hookedList[k] PROVE Entry(f)'
  <2>1. PICK g : g = hookedList[i]
    OBVIOUS
  <2>2. Entry(f) /\ Entry(g) /\ f.orig # g.orig /\ g \in Entries
    BY <1>1, <1>6, <1>7, <2>1, ElementOfSeq DEF Listing
  <2>3. f.module = "dobby" => f.orig \in dobby'
    BY <2>1, <2>2 DEF Entry
  <2>4. f.module = "shadowhook" => f.ret # g.ret
    <3>1. SUFFICES ASSUME f.module = "shadowhook", f.ret = g.ret PROVE FALSE
      OBVIOUS
    <3>2. f.ret \in Stubs /\ tasks[f.ret] = Task(Main, f.orig)
      BY <2>2, <3>1 DEF Entry
    <3>3. g.module = "shadowhook"
      BY <2>2, <3>1, <3>2 DEF Entry, Entries
    <3>4. tasks[f.ret] = Task(Main, g.orig)
      BY <2>2, <3>1, <3>3 DEF Entry
    <3>5. tasks[f.ret].addr = f.orig /\ tasks[f.ret].addr = g.orig
      <4>1. \A a : Task(Main, a).addr = a
        BY TaskFields
      <4> QED
        BY <3>2, <3>4, <4>1
    <3> QED
      BY <2>2, <3>5
  <2>5. CASE f.module = "shadowhook"
    <3>1. \A s \in Stubs : s = f.ret /\ tasks[s].by = Main /\ (Hooked(s) \/ Leaving(s)) =>
              tasks'[s] = tasks[s] /\ (Hooked(s)' \/ Leaving(s)')
      BY <2>1, <2>4, <2>5
    <3> QED
      BY <2>2, <2>3, <3>1, EntryStays
  <2>6. CASE f.module # "shadowhook"
    BY <2>2, <2>3, <2>6 DEF Entry
  <2> QED
    BY <2>5, <2>6
<1>8. \A k \in 1..n - 1 : Entry(hookedList[k])'
  <2>1. \A k \in 1..n - 1 : \A f : f = hookedList'[k] => Entry(f)'
    BY <1>2, <1>3, <1>7
  <2> QED
    BY <2>1 DEF Entry
<1>9. \A k, m \in 1..n - 1 : hookedList'[k].orig = hookedList'[m].orig => k = m
  <2>1. \A k, m \in 1..n : hookedList[k].orig = hookedList[m].orig => k = m
    BY <1>1 DEF Listing
  <2> QED
    BY <1>2, <1>3, <1>4, <2>1
<1>10. Listing'
  BY <1>2, <1>8, <1>9 DEF Listing
<1>11. \A a : a # hookedList[i].orig => (Listed(a)' <=> Listed(a))
  <2>1. ASSUME NEW a, a # hookedList[i].orig, Listed(a) PROVE Listed(a)'
    <3>1. PICK k \in 1..n : hookedList[k].orig = a
      BY <1>1, <2>1 DEF Listed
    <3>2. PICK m \in 1..n - 1 : at(m) = k
      BY <1>5, <2>1, <3>1
    <3> QED
      BY <1>2, <3>1, <3>2 DEF Listed
  <2>2. ASSUME NEW a, Listed(a)' PROVE Listed(a)
    <3>1. PICK m \in 1..n - 1 : hookedList'[m].orig = a
      BY <1>2, <2>2 DEF Listed
    <3> QED
      BY <1>1, <1>2, <1>3, <3>1 DEF Listed
  <2> QED
    BY <2>1, <2>2
<1> QED
  BY <1>10, <1>11

\* In a hook or an unhook Main is served as HookUtils asks for.
LEMMA CreateHook ==
    ASSUME OnceInv, HookInv, NEW t \in Threads, HookCreate(t) PROVE HookInv'
<1>0. Typed /\ DOMAIN tasks = Stubs /\ hookedList \in Seq(Entries)
  BY DEF OnceInv, Once, Typed
<1>1. call[t].at = "hook" /\ UNCHANGED <<switches, mode>>
  BY <1>0, HookCreateChanges DEF initVars
<1>2. CASE HookReturn(t, FALSE) /\ UNCHANGED tasks
  <2>1. CallStep(t) /\ call'[t] = Idle /\ UNCHANGED <<dobby, mixed, hookedList>>
    BY <1>0, <1>2, HookReturnChanges
  <2>2. call[t].at \notin Busy
    BY <1>1 DEF Busy
  <2> QED
    BY <1>1, <1>2, <2>1, <2>2, IdleAsks, HookFrame
<1>3. CASE ~(HookReturn(t, FALSE) /\ UNCHANGED tasks)
  <2>1. PICK s \in Stubs :
           /\ Free(s)
           /\ tasks' = [tasks EXCEPT ![s] = [by |-> t, addr |-> call[t].arg]]
           /\ CallStep(t) /\ call'[t] = [call[t] EXCEPT !.at = "hook switch", !.stub = s]
           /\ UNCHANGED utilVars
    BY <1>0, <1>3, HookCreateChanges
  <2>2. call'[t].at = "hook switch"
    BY <1>0, <2>1 DEF Typed, Calls
  <2>3. call'[t].stub = s
    BY <1>0, <2>1 DEF Typed, Calls
  <2>4. call'[t].arg = call[t].arg
    BY <1>0, <2>1 DEF Typed, Calls
  <2>5. call'[t].back = call[t].back
    BY <1>0, <2>1 DEF Typed, Calls
  <2>6. /\ TaskInv'
        /\ \A r \in Stubs : tasks[r].by \in Threads => tasks'[r] = tasks[r] /\ (Hooked(r)' <=> Hooked(r))
    BY <1>0, <1>1, <2>1, <2>2, <2>3, <2>4, CreateTasks DEF HookInv
  <2>7. UNCHANGED <<hookedList, dobby, mixed>>
    BY <2>1 DEF utilVars
  <2>8. ListInv /\ Served /\ Asks /\ Listing /\ Pure
    BY DEF HookInv, ListInv
  <2>9. CASE t # Main
    <3>1. call'[t].back = "user"
      BY <2>5, <2>8, <2>9 DEF Served, ServedOf
    <3>2. ListInv'
      BY <1>1, <2>1, <2>6, <2>7, <2>8, <2>9, <3>1, ListAway DEF HookInv
    <3> QED
      BY <2>6, <3>2 DEF HookInv
  <2>10. CASE t = Main
    <3>1. Served'
      <4>1. \A u \in Threads : u # t => (ServedOf(u)' <=> ServedOf(u))
        BY <2>1 DEF ServedOf, CallStep
      <4>2. ServedOf(t)'
        BY <1>1, <2>2, <2>4, <2>5, <2>8, <2>10 DEF Served, ServedOf
      <4> QED
        BY <2>8, <4>1, <4>2 DEF Served
    <3>2. \A a : Listed(a)' <=> Listed(a)
      BY <2>7 DEF Listed
    <3>3. Asks'
      BY <1>1, <2>2, <2>4, <2>8, <2>10, <3>2 DEF Asks
    <3>4. \A r : ~Leaving(r)
      BY <1>1, <2>10 DEF Leaving
    <3>5. Listing'
      BY <2>6, <2>7, <2>8, <3>4, ListingStays
    <3>6. (\A a : ~Arriving(a)) /\ call'[Main].at # "unhook recorded"
      BY <1>1, <2>2, <2>10 DEF Arriving
    <3>7. Pure'
      BY <1>1, <2>7, <2>8, <3>2, <3>6 DEF Pure
    <3> QED
      BY <2>6, <3>1, <3>3, <3>5, <3>7 DEF HookInv, ListInv
  <2> QED
    BY <2>9, <2>10
<1> QED
  BY <1>2, <1>3

LEMMA SwitchHook ==
    ASSUME OnceInv, HookInv, NEW t \in Threads, HookSwitch(t) PROVE HookInv'
<1>0. Typed /\ DOMAIN tasks = Stubs /\ hookedList \in Seq(Entries)
  BY DEF OnceInv, Once, Typed
<1>1. PICK s, a : s = call[t].stub /\ a = call[t].arg
  OBVIOUS
<1>2. call[t].at = "hook switch" /\ UNCHANGED <<tasks, mode, hookedList, dobby, mixed>>
  BY <1>0, HookSwitchChanges DEF initVars, utilVars
<1>3. PICK ok \in BOOLEAN :
        /\ ok => t \notin switches[a] /\ (mode = "unique" => switches[a] = {})
        /\ ok => switches' = [switches EXCEPT ![a] = switches[a] \union {t}]
        /\ ~ok => switches' = switches
        /\ CallStep(t) /\ call'[t] = [call[t] EXCEPT !.at = "hook recorded", !.ok = ok]
  BY <1>0, <1>1, HookSwitchChanges
<1>4. call'[t].at = "hook recorded"
  BY <1>0, <1>3 DEF Typed, Calls
<1>5. call'[t].stub = s
  BY <1>0, <1>1, <1>3 DEF Typed, Calls
<1>6. call'[t].arg = a
  BY <1>0, <1>1, <1>3 DEF Typed, Calls
<1>7. call'[t].back = call[t].back
  BY <1>0, <1>3 DEF Typed, Calls
<1>8. call'[t].ok = ok
  BY <1>0, <1>3 DEF Typed, Calls
<1>9. /\ TaskInv'
      /\ \A r \in Stubs : Hooked(r) => Hooked(r)'
  <2>1. TaskInv
    BY DEF HookInv
  <2>2. Enters(t, s, a, ok)
    BY <1>1, <1>2, <1>3, <1>4, <1>5, <1>6, <1>8 DEF Enters
  <2> QED
    BY <2>1, <2>2, SwitchTasks
<1>10. Served /\ Asks /\ Listing /\ Pure /\ ListInv
  BY DEF HookInv, ListInv
<1>11. a \in Funcs /\ switches \in [Funcs -> SUBSET Threads]
  BY <1>1, <1>2 DEF HookInv, TaskInv, Mine, MineOf, Proxies
<1>12. \A b \in Funcs : switches'[b] = IF ok /\ b = a THEN switches[b] \union {t} ELSE switches[b]
  BY <1>3, <1>11
<1>13. CASE t # Main
  <2>1. call'[t].back = "user"
    BY <1>7, <1>10, <1>13 DEF Served, ServedOf
  <2>2. \A b \in Funcs : Main \in switches'[b] <=> Main \in switches[b]
    BY <1>12, <1>13
  <2>3. ListInv'
    BY <1>2, <1>3, <1>9, <1>10, <1>13, <2>1, <2>2, ListAway DEF HookInv
  <2> QED
    BY <1>9, <2>3 DEF HookInv
<1>14. CASE t = Main
  <2>1. Served'
    <3>1. \A u \in Threads : u # t => (ServedOf(u)' <=> ServedOf(u))
      BY <1>3 DEF ServedOf, CallStep
    <3>2. ServedOf(t)'
      BY <1>2, <1>4, <1>7, <1>10, <1>14 DEF Served, ServedOf
    <3> QED
      BY <1>10, <3>1, <3>2 DEF Served
  <2>2. \A b : Listed(b)' <=> Listed(b)
    BY <1>2 DEF Listed
  <2>3. ~Listed(a)
    BY <1>1, <1>2, <1>10, <1>14 DEF Asks
  <2>4. Asks'
    BY <1>4, <1>6, <1>14, <2>2, <2>3 DEF Asks
  <2>5. \A r : ~Leaving(r)
    BY <1>2, <1>14 DEF Leaving
  <2>6. Listing'
    BY <1>2, <1>9, <1>10, <2>5, ListingStays
  <2>7. Pure'
    <3>1. SUFFICES ASSUME ~mixed PROVE Pure'
      BY <1>2 DEF Pure
    <3>2. \A b : ~Arriving(b)
      BY <1>2, <1>14 DEF Arriving
    <3>3. \A b : Arriving(b)' <=> ok /\ b = a
      BY <1>4, <1>6, <1>8, <1>14 DEF Arriving
    <3>4. \A b \in Funcs : b \in dobby \/ Main \in switches[b] => Listed(b)
      BY <1>10, <3>1, <3>2 DEF Pure
    <3>5. \A b \in Funcs : b \in dobby \/ Main \in switches'[b] => Listed(b) \/ (ok /\ b = a)
      BY <1>12, <3>4
    <3>6. \A b \in Funcs : ~(b \in dobby /\ Main \in switches'[b])
      <4>1. a \notin dobby
        BY <1>11, <2>3, <3>4
      <4>2. \A b \in Funcs : ~(b \in dobby /\ Main \in switches[b])
        BY <1>10, <3>1 DEF Pure
      <4> QED
        BY <1>12, <4>1, <4>2
    <3>7. call'[Main].at # "unhook recorded"
      BY <1>4, <1>14
    <3> QED
      BY <1>2, <2>2, <3>3, <3>5, <3>6, <3>7 DEF Pure
  <2> QED
    BY <1>9, <2>1, <2>4, <2>6, <2>7 DEF HookInv, ListInv
<1> QED
  BY <1>13, <1>14

LEMMA HookEndHook ==
    ASSUME OnceInv, HookInv, NEW t \in Threads, HookEnd(t) PROVE HookInv'
<1>0. Typed /\ DOMAIN tasks = Stubs /\ hookedList \in Seq(Entries)
  BY DEF OnceInv, Once, Typed
<1>1a. PICK s : s = call[t].stub
  OBVIOUS
<1>1b. PICK a : a = call[t].arg
  OBVIOUS
<1>1c. PICK ok \in BOOLEAN : ok = call[t].ok
  BY <1>0 DEF Typed, Calls
<1>1. s = call[t].stub /\ a = call[t].arg /\ ok = call[t].ok
  BY <1>1a, <1>1b, <1>1c
<1>2. /\ call[t].at = "hook recorded" /\ UNCHANGED <<switches, mode>> /\ HookReturn(t, ok)
      /\ tasks' = IF ok THEN tasks ELSE [tasks EXCEPT ![s] = NoTask]
  BY <1>1 DEF HookEnd, At, initVars
<1>3. /\ CallStep(t) /\ call'[t] = Idle /\ UNCHANGED <<dobby, mixed>>
      /\ hookedList' = IF call[t].back = "Hooker" /\ ok
                       THEN Append(hookedList, [orig |-> a, ret |-> s, module |-> "shadowhook"])
                       ELSE hookedList
  BY <1>0, <1>1, <1>2, HookReturnChanges
<1>4. call'[t].at = "idle" /\ call'[t].back = "user" /\ ServedOf(t)' /\ (t = Main => Asks')
  BY <1>3, IdleCall, IdleAsks
<1>5. /\ TaskInv'
      /\ \A r \in Stubs : Hooked(r)' <=> Hooked(r)
      /\ \A r \in Stubs : Hooked(r) \/ tasks[r].by \in Threads \ {t} => tasks'[r] = tasks[r]
  BY <1>0, <1>1, <1>2, <1>3, <1>4, EndTasks DEF HookInv
<1>6. Served /\ Asks /\ Listing /\ Pure /\ ListInv
  BY DEF HookInv, ListInv
<1>7. CASE t # Main
  <2>1. call[t].back = "user"
    BY <1>6, <1>7 DEF Served, ServedOf
  <2>2. UNCHANGED hookedList
    BY <1>3, <2>1
  <2>3. ListInv'
    BY <1>2, <1>3, <1>4, <1>5, <1>6, <1>7, <2>2, ListAway DEF HookInv
  <2> QED
    BY <1>5, <2>3 DEF HookInv
<1>8. CASE t = Main
  <2>1. Served'
    <3>1. \A u \in Threads : u # t => (ServedOf(u)' <=> ServedOf(u))
      BY <1>3 DEF ServedOf, CallStep
    <3> QED
      BY <1>4, <1>6, <3>1 DEF Served
  <2>2. call[t].back = "Hooker" /\ ~Listed(a)
    BY <1>1, <1>2, <1>6, <1>8 DEF Served, ServedOf, Asks
  <2>3. s \in Stubs /\ a \in Funcs /\ tasks[s] = Task(Main, a)
    BY <1>1, <1>2, <1>8 DEF HookInv, TaskInv, Mine, MineOf
  <2>4. \A r : ~Leaving(r)
    BY <1>2, <1>8 DEF Leaving
  <2>5. (\A b : ~Arriving(b)') /\ call'[Main].at # "unhook recorded"
    BY <1>4, <1>8 DEF Arriving
  <2>6. (\A b : Arriving(b) <=> ok /\ b = a)
    BY <1>1, <1>2, <1>8 DEF Arriving
  <2>7. CASE ok
    <3> DEFINE e == [orig |-> a, ret |-> s, module |-> "shadowhook"]
    <3>1. hookedList' = Append(hookedList, e) /\ tasks' = tasks
      BY <1>2, <1>3, <2>2, <2>7
    <3>2. e \in Entries /\ e.orig = a /\ e.ret = s /\ e.module = "shadowhook"
      BY <2>3 DEF Entries, Args
    <3> HIDE DEF e
    <3>3. Hooked(s)
      <4>1. ~Working(t, s)
        BY <1>1, <1>2, <2>7 DEF Working
      <4>2. tasks[s].by = Main /\ tasks[s] # NoTask
        BY <2>3, TaskIs
      <4>3. \A u \in Threads : u # t => ~Working(u, s)
        BY <1>8, <2>3, <4>2, WorksOnOwn DEF HookInv
      <4> QED
        BY <4>1, <4>2, <4>3 DEF Hooked
    <3>4. Hooked(s)'
      BY <1>5, <2>3, <3>3
    <3>5. tasks'[s] = Task(Main, a)
      BY <2>3, <3>1
    <3>6. \A f : f = e => Entry(f)'
      BY <2>3, <3>2, <3>4, <3>5 DEF Entry
    <3>7. PICK f : f = e
      OBVIOUS
    <3>8. Entry(f)' /\ f \in Entries /\ hookedList' = Append(hookedList, f) /\ f.orig = a
      BY <3>1, <3>2, <3>6, <3>7
    <3>9. Listing' /\ \A b : Listed(b)' <=> Listed(b) \/ b = a
      BY <1>0, <1>3, <1>5, <1>6, <2>2, <2>4, <3>1, <3>8, ListingAppends
    <3>10. Pure'
      <4>1. SUFFICES ASSUME ~mixed PROVE Pure'
        BY <1>3 DEF Pure
      <4>2. \A b \in Funcs : b \in dobby \/ Main \in switches[b] => Listed(b) \/ b = a
        BY <1>6, <2>6, <4>1 DEF Pure
      <4>3. \A b \in Funcs : ~(b \in dobby /\ Main \in switches[b])
        BY <1>6, <4>1 DEF Pure
      <4> QED
        BY <1>2, <1>3, <2>5, <3>9, <4>2, <4>3 DEF Pure
    <3> QED
      BY <1>4, <1>5, <1>8, <2>1, <3>9, <3>10 DEF HookInv, ListInv
  <2>8. CASE ~ok
    <3>1. UNCHANGED hookedList
      BY <1>3, <2>8
    <3>2. \A b : Listed(b)' <=> Listed(b)
      BY <3>1 DEF Listed
    <3>3. Listing'
      BY <1>3, <1>5, <1>6, <2>4, <3>1, ListingStays
    <3>4. Pure'
      <4>1. SUFFICES ASSUME ~mixed PROVE Pure'
        BY <1>3 DEF Pure
      <4>2. \A b \in Funcs : b \in dobby \/ Main \in switches[b] => Listed(b)
        BY <1>6, <2>6, <2>8, <4>1 DEF Pure
      <4>3. \A b \in Funcs : ~(b \in dobby /\ Main \in switches[b])
        BY <1>6, <4>1 DEF Pure
      <4> QED
        BY <1>2, <1>3, <2>5, <3>2, <4>2, <4>3 DEF Pure
    <3> QED
      BY <1>4, <1>5, <1>8, <2>1, <3>3, <3>4 DEF HookInv, ListInv
  <2> QED
    BY <2>7, <2>8
<1> QED
  BY <1>7, <1>8

LEMMA UnhookHook ==
    ASSUME OnceInv, HookInv, NEW t \in Threads, UnhookSwitch(t) PROVE HookInv'
<1>0. Typed /\ hookedList \in Seq(Entries)
  BY DEF OnceInv, Typed
<1>1. PICK s : s = call[t].arg
  OBVIOUS
<1>2. PICK a : a = tasks[s].addr
  OBVIOUS
<1>3. call[t].at = "unhook" /\ UNCHANGED <<tasks, mode, hookedList, dobby, mixed>>
  BY <1>0, UnhookSwitchChanges DEF initVars, utilVars
<1>4. PICK ok \in BOOLEAN :
        /\ switches' = [switches EXCEPT ![a] = IF mode = "unique" THEN {} ELSE switches[a] \ {t}]
        /\ CallStep(t)
        /\ call'[t] = [call[t] EXCEPT !.at = "unhook recorded", !.stub = s, !.ok = ok]
  BY <1>0, <1>1, <1>2, UnhookSwitchChanges
<1>5. call'[t].at = "unhook recorded"
  BY <1>0, <1>4 DEF Typed, Calls
<1>6. call'[t].stub = s
  BY <1>0, <1>4 DEF Typed, Calls
<1>7. call'[t].back = call[t].back
  BY <1>0, <1>4 DEF Typed, Calls
<1>8. /\ TaskInv'
      /\ s \in Stubs /\ a \in Funcs /\ tasks[s] = Task(t, a) /\ Hooked(s)
      /\ \A r \in Stubs : r # s => (Hooked(r)' <=> Hooked(r))
      /\ switches'[a] = switches[a] \ {t} /\ t \in switches[a]
      /\ \A b \in Funcs : b # a => switches'[b] = switches[b]
  <2>1. TaskInv
    BY DEF HookInv
  <2>2. Leaves(t, s, a)
    BY <1>1, <1>2, <1>3, <1>4, <1>5, <1>6 DEF Leaves
  <2> QED
    <3>1. TaskInv' /\ s \in Stubs /\ a \in Funcs /\ tasks[s] = Task(t, a) /\ Hooked(s)
      BY <2>1, <2>2, UnhookTasks
    <3>2. \A r \in Stubs : r # s => (Hooked(r)' <=> Hooked(r))
      BY <2>1, <2>2, UnhookTasks
    <3>3. switches'[a] = switches[a] \ {t} /\ t \in switches[a]
      BY <2>1, <2>2, UnhookTasks
    <3>4. \A b \in Funcs : b # a => switches'[b] = switches[b]
      BY <2>1, <2>2, UnhookTasks
    <3> QED
      BY <3>1, <3>2, <3>3, <3>4
<1>9. Served /\ Asks /\ Listing /\ Pure /\ ListInv
  BY DEF HookInv, ListInv
<1>10. tasks[s].by = t
  BY <1>8, TaskIs
<1>11. CASE t # Main
  <2>1. call'[t].back = "user"
    BY <1>7, <1>9, <1>11 DEF Served, ServedOf
  <2>2. \A b \in Funcs : Main \in switches'[b] <=> Main \in switches[b]
    BY <1>8, <1>11
  <2>3. \A r \in Stubs : tasks[r].by = Main => tasks'[r] = tasks[r] /\ (Hooked(r) => Hooked(r)')
    BY <1>3, <1>8, <1>10, <1>11
  <2>4. ListInv'
    BY <1>3, <1>4, <1>9, <1>11, <2>1, <2>2, <2>3, ListAway DEF HookInv
  <2> QED
    BY <1>8, <2>4 DEF HookInv
<1>12. CASE t = Main
  <2>1. Served'
    <3>1. \A u \in Threads : u # t => (ServedOf(u)' <=> ServedOf(u))
      BY <1>4 DEF ServedOf, CallStep
    <3>2. ServedOf(t)'
      BY <1>3, <1>5, <1>7, <1>9, <1>12 DEF Served, ServedOf
    <3> QED
      BY <1>9, <3>1, <3>2 DEF Served
  <2>2. \A b : Listed(b)' <=> Listed(b)
    BY <1>3 DEF Listed
  <2>3. Asks'
    BY <1>1, <1>3, <1>5, <1>6, <1>9, <1>12 DEF Asks
  <2>4. (\A r : ~Leaving(r)) /\ (\A r : Leaving(r)' <=> r = s)
    BY <1>3, <1>5, <1>6, <1>12 DEF Leaving
  <2>5. Listing'
    BY <1>3, <1>8, <1>9, <2>4, ListingStays
  <2>6. Pure'
    <3>1. SUFFICES ASSUME ~mixed PROVE Pure'
      BY <1>3 DEF Pure
    <3>2. \A b : ~Arriving(b) /\ ~Arriving(b)'
      BY <1>3, <1>5, <1>12 DEF Arriving
    <3>3. \A b \in Funcs : switches'[b] \subseteq switches[b]
      BY <1>8
    <3>4. \A b \in Funcs : b \in dobby \/ Main \in switches[b] => Listed(b)
      BY <1>9, <3>1, <3>2 DEF Pure
    <3>5. \A b \in Funcs : ~(b \in dobby /\ Main \in switches[b])
      BY <1>9, <3>1 DEF Pure
    <3>6. tasks'[call'[Main].stub].addr = a /\ a \notin dobby /\ Main \notin switches'[a]
      BY <1>2, <1>3, <1>6, <1>8, <1>12, <3>5
    <3> QED
      BY <1>3, <2>2, <3>3, <3>4, <3>5, <3>6 DEF Pure
  <2> QED
    BY <1>8, <2>1, <2>3, <2>5, <2>6 DEF HookInv, ListInv
<1> QED
  BY <1>11, <1>12

LEMMA UnhookEndHook ==
    ASSUME OnceInv, HookInv, NEW t \in Threads, UnhookEnd(t) PROVE HookInv'
<1>0. Typed /\ DOMAIN tasks = Stubs /\ hookedList \in Seq(Entries)
  BY DEF OnceInv, Once, Typed
<1>1. PICK s : s = call[t].stub
  OBVIOUS
<1>2. /\ call[t].at = "unhook recorded" /\ UNCHANGED <<switches, mode>> /\ UnhookReturn(t)
      /\ tasks' = [tasks EXCEPT ![s] = NoTask]
  BY <1>1 DEF UnhookEnd, At, initVars
<1>3. /\ CallStep(t) /\ call'[t] = Idle /\ UNCHANGED <<dobby, mixed>>
      /\ call[t].back # "unHook" => hookedList' = hookedList
      /\ call[t].back = "unHook" =>
           \E i \in DOMAIN hookedList : hookedList[i].ret = s /\ hookedList' = Without(hookedList, i)
  BY <1>0, <1>1, <1>2, UnhookReturnChanges
<1>4. call'[t].at = "idle" /\ call'[t].back = "user" /\ ServedOf(t)' /\ (t = Main => Asks')
  BY <1>3, IdleCall, IdleAsks
<1>5. /\ TaskInv'
      /\ \A r \in Stubs : Hooked(r)' <=> Hooked(r)
      /\ \A r \in Stubs : Hooked(r) \/ tasks[r].by \in Threads \ {t} => tasks'[r] = tasks[r]
  BY <1>0, <1>1, <1>2, <1>3, <1>4, EndTasks DEF HookInv
<1>6. Served /\ Asks /\ Listing /\ Pure /\ ListInv
  BY DEF HookInv, ListInv
<1>7. CASE t # Main
  <2>1. call[t].back = "user"
    BY <1>6, <1>7 DEF Served, ServedOf
  <2>2. UNCHANGED hookedList
    BY <1>3, <2>1
  <2>3. ListInv'
    BY <1>2, <1>3, <1>4, <1>5, <1>6, <1>7, <2>2, ListAway DEF HookInv
  <2> QED
    BY <1>5, <2>3 DEF HookInv
<1>8. CASE t = Main
  <2>1. Served'
    <3>1. \A u \in Threads : u # t => (ServedOf(u)' <=> ServedOf(u))
      BY <1>3 DEF ServedOf, CallStep
    <3> QED
      BY <1>4, <1>6, <3>1 DEF Served
  <2>2. call[t].back = "unHook"
    BY <1>2, <1>6, <1>8 DEF Served, ServedOf
  <2>3. PICK i \in DOMAIN hookedList : hookedList[i].ret = s /\ hookedList' = Without(hookedList, i)
    BY <1>3, <2>2
  <2>4. s \in Stubs
    BY <1>1, <1>2, <1>8 DEF HookInv, TaskInv, Mine, MineOf
  <2>5. PICK g : g = hookedList[i]
    OBVIOUS
  <2>6. g \in Entries /\ Entry(g) /\ g.ret = s
    BY <1>0, <1>6, <2>3, <2>5, ElementOfSeq, LenProperties DEF Listing
  <2>7. g.module = "shadowhook"
    BY <2>4, <2>6 DEF Entry, Entries
  <2>8. tasks[s] = Task(Main, g.orig) /\ g.orig \in Funcs
    BY <2>6, <2>7 DEF Entry
  <2>9. tasks[s].addr = g.orig
    BY <2>8, TaskIs
  <2>10. \A r \in Stubs : r # s /\ tasks[r].by = Main /\ (Hooked(r) \/ Leaving(r)) =>
             tasks'[r] = tasks[r] /\ (Hooked(r)' \/ Leaving(r)')
    BY <1>0, <1>1, <1>2, <1>5, <1>8 DEF Leaving
  <2>11. Listing' /\ \A a : a # g.orig => (Listed(a)' <=> Listed(a))
    BY <1>0, <1>3, <1>6, <2>3, <2>5, <2>6, <2>10, ListingRemoves
  <2>12. Pure'
    <3>1. SUFFICES ASSUME ~mixed PROVE Pure'
      BY <1>3 DEF Pure
    <3>2. (\A b : ~Arriving(b)) /\ call'[Main].at # "unhook recorded"
      BY <1>2, <1>4, <1>8 DEF Arriving
    <3>3. g.orig \notin dobby /\ Main \notin switches[g.orig]
      BY <1>1, <1>2, <1>6, <1>8, <2>9, <3>1 DEF Pure
    <3>4. \A b \in Funcs : b \in dobby \/ Main \in switches[b] => Listed(b)
      BY <1>6, <3>1, <3>2 DEF Pure
    <3>5. \A b \in Funcs : ~(b \in dobby /\ Main \in switches[b])
      BY <1>6, <3>1 DEF Pure
    <3>6. \A b \in Funcs : b \in dobby \/ Main \in switches[b] => Listed(b)'
      BY <2>11, <3>3, <3>4
    <3> QED
      BY <1>2, <1>3, <3>2, <3>5, <3>6 DEF Pure
  <2> QED
    BY <1>4, <1>5, <1>8, <2>1, <2>11, <2>12 DEF HookInv, ListInv
<1> QED
  BY <1>7, <1>8
-----------------------------------------------------------------------------
(* The rest of HookUtils *)

LEMMA HookerKeeps ==
    ASSUME OnceInv, HookInv, Hooker PROVE HookInv'
<1>0. Typed /\ call[Main] \in Calls
  BY DEF OnceInv, Typed
<1>1. /\ call[Main].at = "Hooker" /\ CallStep(Main)
      /\ UNCHANGED <<tasks, switches, mode, hookedList, dobby, mixed>>
  BY <1>0, HookerChanges DEF initVars, hookVars
<1>2. call[Main].arg \in Funcs
  BY <1>1 DEF HookInv, ListInv, Served, ServedOf
<1>3. CASE call'[Main] = [call[Main] EXCEPT !.at = "init", !.back = "Hooker"]
  <2>1. call'[Main].at = "init"
    BY <1>0, <1>3 DEF Calls
  <2>2. call'[Main].back = "Hooker"
    BY <1>0, <1>3 DEF Calls
  <2>3. call'[Main].arg = call[Main].arg
    BY <1>0, <1>3 DEF Calls
  <2>4. MineOf(Main)' /\ ServedOf(Main)' /\ Asks' /\ call'[Main].at \notin Busy /\ call[Main].at \notin Busy
    BY <1>1, <1>2, <2>1, <2>2, <2>3 DEF MineOf, ServedOf, Asks, Busy
  <2> QED
    BY <1>1, <2>4, HookFrame
<1>4. CASE call'[Main] = [call[Main] EXCEPT !.at = "Hooker list"]
  <2>1. call'[Main].at = "Hooker list"
    BY <1>0, <1>4 DEF Calls
  <2>2. call'[Main].arg = call[Main].arg
    BY <1>0, <1>4 DEF Calls
  <2>3. MineOf(Main)' /\ ServedOf(Main)' /\ Asks' /\ call'[Main].at \notin Busy /\ call[Main].at \notin Busy
    BY <1>1, <1>2, <2>1, <2>2 DEF MineOf, ServedOf, Asks, Busy
  <2> QED
    BY <1>1, <2>3, HookFrame
<1> QED
  BY <1>0, <1>3, <1>4, HookerChanges

LEMMA HookerHookKeeps ==
    ASSUME OnceInv, HookInv, HookerHook PROVE HookInv'
<1>0. Typed /\ call[Main] \in Calls /\ hookedList \in Seq(Entries)
  BY DEF OnceInv, Typed
<1>1. PICK a : a = call[Main].arg
  OBVIOUS
<1>2. /\ call[Main].at = "Hooker list" /\ CallStep(Main)
      /\ UNCHANGED <<tasks, switches, mode, mixed>>
  BY <1>0, HookerHookChanges DEF initVars, hookVars
<1>3. a \in Funcs
  BY <1>1, <1>2 DEF HookInv, ListInv, Served, ServedOf
<1>4. CASE call'[Main] = Idle /\ UNCHANGED <<hookedList, dobby>>
  <2>1. call[Main].at \notin Busy
    BY <1>2 DEF Busy
  <2> QED
    BY <1>2, <1>4, <2>1, IdleAsks, HookFrame
<1>5. CASE /\ call'[Main] = [call[Main] EXCEPT !.at = "hook", !.back = "Hooker"]
           /\ ~Listed(a) /\ UNCHANGED <<hookedList, dobby>>
  <2>1. call'[Main].at = "hook"
    BY <1>0, <1>5 DEF Calls
  <2>2. call'[Main].back = "Hooker"
    BY <1>0, <1>5 DEF Calls
  <2>3. call'[Main].arg = a
    BY <1>0, <1>1, <1>5 DEF Calls
  <2>4. MineOf(Main)' /\ ServedOf(Main)' /\ call'[Main].at \notin Busy /\ call[Main].at \notin Busy
    BY <1>2, <1>3, <2>1, <2>2, <2>3 DEF MineOf, ServedOf, Busy
  <2>5. \A i \in DOMAIN hookedList' : hookedList'[i].orig # call'[Main].arg
    BY <1>5, <2>3 DEF Listed
  <2>6. Asks'
    BY <2>1, <2>5 DEF Asks, Listed
  <2> QED
    BY <1>2, <1>5, <2>4, <2>6, HookFrame
<1>6. CASE /\ call'[Main] = Idle
           /\ ~Listed(a) /\ dobby' = dobby \union {a}
           /\ hookedList' = Append(hookedList, [orig |-> a, ret |-> NULL, module |-> "dobby"])
  <2>1. /\ call'[Main].at = "idle" /\ MineOf(Main)' /\ ServedOf(Main)' /\ Asks'
        /\ call'[Main].at \notin Busy /\ call[Main].at \notin Busy
    BY <1>2, <1>6, IdleAsks, IdleCall DEF Busy
  <2>2. TaskInv' /\ \A s : Hooked(s)' <=> Hooked(s)
    BY <1>2, <2>1, TaskFrame DEF HookInv
  <2>3. Served /\ Asks /\ Listing /\ Pure
    BY DEF HookInv, ListInv
  <2>4. Served'
    <3>1. \A u \in Threads : u # Main => (ServedOf(u)' <=> ServedOf(u))
      BY <1>2 DEF ServedOf, CallStep
    <3> QED
      BY <2>1, <2>3, <3>1 DEF Served
  <2>5. PICK e : e = [orig |-> a, ret |-> NULL, module |-> "dobby"]
    OBVIOUS
  <2>6. e.orig = a /\ e.ret = NULL /\ e.module = "dobby" /\ e \in Entries
    BY <1>3, <2>5 DEF Entries, Args
  <2>7. Entry(e)'
    BY <1>6, <2>6 DEF Entry
  <2>8. \A s : ~Leaving(s)
    BY <1>2 DEF Leaving
  <2>9. Listing' /\ \A b : Listed(b)' <=> Listed(b) \/ b = a
    BY <1>0, <1>2, <1>6, <2>2, <2>3, <2>5, <2>6, <2>7, <2>8, ListingAppends
  <2>10. Pure'
    <3>1. SUFFICES ASSUME ~mixed PROVE Pure'
      BY <1>2 DEF Pure
    <3>2. (\A b : ~Arriving(b)) /\ call'[Main].at # "unhook recorded"
      BY <1>2, <2>1 DEF Arriving
    <3>3. \A b \in Funcs : b \in dobby \/ Main \in switches[b] => Listed(b)
      BY <2>3, <3>1, <3>2 DEF Pure
    <3>4. \A b \in Funcs : ~(b \in dobby /\ Main \in switches[b])
      BY <2>3, <3>1 DEF Pure
    <3>5. Main \notin switches[a]
      BY <1>3, <1>6, <3>3
    <3>6. \A b \in Funcs : b \in dobby' \/ Main \in switches'[b] => Listed(b)'
      BY <1>2, <1>6, <2>9, <3>3
    <3>7. \A b \in Funcs : ~(b \in dobby' /\ Main \in switches'[b])
      BY <1>2, <1>6, <3>4, <3>5
    <3> QED
      BY <3>2, <3>6, <3>7 DEF Pure
  <2> QED
    BY <2>1, <2>2, <2>4, <2>9, <2>10 DEF HookInv, ListInv
<1> QED
  BY <1>0, <1>1, <1>4, <1>5, <1>6, HookerHookChanges

\* What unHook takes for an entry of ShadowHook, and what it removes at once.
LEMMA EntriesAsked ==
    ASSUME OnceInv, Listing, NEW e \in Entries, Entry(e), ~Leaving(e.ret)
    PROVE  /\ e.ret # NULL => e.module = "shadowhook"
           /\ e.module = "shadowhook" =>
                /\ e.ret # NULL /\ e.ret \in Stubs /\ e.orig \in Funcs
                /\ tasks[e.ret] = Task(Main, e.orig) /\ tasks[e.ret].by = Main
                /\ Hooked(e.ret) /\ initErrno = "ok"
           /\ e.module = "dobby" => e.orig \in dobby
<1>1. e.module \in {"dobby", "shadowhook"}
  BY DEF Entries
<1>2. CASE e.module = "dobby"
  BY <1>2 DEF Entry
<1>3. CASE e.module = "shadowhook"
  <2>1. e.ret \in Stubs /\ e.orig \in Funcs /\ tasks[e.ret] = Task(Main, e.orig) /\ Hooked(e.ret)
    BY <1>3 DEF Entry
  <2>2. tasks[e.ret].by = Main /\ tasks[e.ret] # NoTask
    BY <2>1, TaskIs
  <2>3. initErrno = "ok"
    BY <2>1, <2>2 DEF OnceInv, Once
  <2>4. e.ret # NULL
    BY <2>1
  <2> QED
    BY <1>3, <2>1, <2>2, <2>3, <2>4
<1> QED
  BY <1>1, <1>2, <1>3

LEMMA UnHookKeeps ==
    ASSUME OnceInv, HookInv, UnHook PROVE HookInv'
<1>0. Typed /\ call[Main] \in Calls /\ hookedList \in Seq(Entries)
  BY DEF OnceInv, Typed
<1>1. /\ call[Main].at = "unHook" /\ CallStep(Main) /\ UNCHANGED <<tasks, switches, mode, model>>
  BY <1>0, UnHookChanges DEF initVars, hookVars
<1>2. call[Main].at \notin Busy /\ \A s : ~Leaving(s)
  BY <1>1 DEF Busy, Leaving
<1>3. CASE call'[Main] = Idle /\ UNCHANGED <<hookedList, dobby, mixed>>
  BY <1>1, <1>2, <1>3, IdleAsks, HookFrame
<1>4. Served /\ Asks /\ Listing /\ Pure
  BY DEF HookInv, ListInv
<1>5. ASSUME NEW i \in DOMAIN hookedList, mixed' = (mixed \/ hookedList[i].module # model),
             model = "shadowhook" /\ hookedList[i].ret # NULL,
             call'[Main] = [call[Main] EXCEPT !.at = "unhook", !.arg = hookedList[i].ret,
                                              !.back = "unHook"],
             UNCHANGED <<hookedList, dobby>>
      PROVE  HookInv'
  <2>1. PICK e : e = hookedList[i]
    OBVIOUS
  <2>2. e \in Entries
    BY <1>0, <2>1, ElementOfSeq, LenProperties
  <2>3. Entry(e) /\ ~Leaving(e.ret)
    BY <1>2, <1>4, <2>1 DEF Listing
  <2>4. e.module = "shadowhook" /\ e.ret \in Stubs /\ tasks[e.ret].by = Main
    BY <1>4, <1>5, <2>1, <2>2, <2>3, EntriesAsked
  <2>5. mixed' <=> mixed
    BY <1>5, <2>1, <2>4
  <2>6. PICK r : r = e.ret
    OBVIOUS
  <2>7. call'[Main] = [call[Main] EXCEPT !.at = "unhook", !.arg = r, !.back = "unHook"]
    BY <1>5, <2>1, <2>6
  <2>8. call'[Main].at = "unhook"
    BY <1>0, <2>7 DEF Calls
  <2>9. call'[Main].arg = r
    BY <1>0, <2>7 DEF Calls
  <2>10. call'[Main].back = "unHook"
    BY <1>0, <2>7 DEF Calls
  <2>11. MineOf(Main)' /\ ServedOf(Main)' /\ call'[Main].at \notin Busy
    BY <1>1, <2>4, <2>6, <2>8, <2>9, <2>10 DEF MineOf, ServedOf, Busy
  <2>12. Asks'
    <3>1. hookedList'[i].ret = call'[Main].arg /\ i \in DOMAIN hookedList'
      BY <1>5, <2>1, <2>6, <2>9
    <3> QED
      BY <2>8, <3>1 DEF Asks
  <2>13. UNCHANGED <<tasks, switches, hookedList, dobby>> /\ mode' = mode
    BY <1>1, <1>5
  <2> QED
    BY <1>1, <1>2, <2>5, <2>11, <2>12, <2>13, HookFrame
<1>6. ASSUME NEW i \in DOMAIN hookedList, mixed' = (mixed \/ hookedList[i].module # model),
             model # "shadowhook" \/ hookedList[i].ret = NULL \/ initErrno # "ok",
             dobby' = IF model = "dobby" THEN dobby \ {hookedList[i].orig} ELSE dobby,
             hookedList' = Without(hookedList, i), call'[Main] = Idle
      PROVE  HookInv'
  <2>1. PICK e : e = hookedList[i]
    OBVIOUS
  <2>2. e \in Entries
    BY <1>0, <2>1, ElementOfSeq, LenProperties
  <2>3. Entry(e) /\ ~Leaving(e.ret)
    BY <1>2, <1>4, <2>1 DEF Listing
  <2>4. /\ call'[Main].at = "idle" /\ MineOf(Main)' /\ ServedOf(Main)' /\ Asks'
        /\ call'[Main].at \notin Busy
    BY <1>6, IdleAsks, IdleCall
  <2>5. TaskInv' /\ \A s : Hooked(s)' <=> Hooked(s)
    BY <1>1, <1>2, <2>4, TaskFrame DEF HookInv
  <2>6. Served'
    <3>1. \A u \in Threads : u # Main => (ServedOf(u)' <=> ServedOf(u))
      BY <1>1 DEF ServedOf, CallStep
    <3> QED
      BY <1>4, <2>4, <3>1 DEF Served
  <2>7. dobby \ {e.orig} \subseteq dobby' /\ dobby' \subseteq dobby
    BY <1>6, <2>1
  <2>8. Listing' /\ \A a : a # e.orig => (Listed(a)' <=> Listed(a))
    BY <1>0, <1>1, <1>2, <1>4, <1>6, <2>1, <2>5, <2>7, ListingRemoves
  <2>9. Pure'
    <3>1. SUFFICES ASSUME ~mixed' PROVE Pure'
      BY DEF Pure
    <3>2. ~mixed /\ e.module = model
      BY <1>6, <2>1, <3>1
    <3>3. e.module = "dobby" /\ e.orig \in dobby
      <4>1. model # "shadowhook"
        BY <1>4, <1>6, <2>1, <2>2, <2>3, <3>2, EntriesAsked
      <4> QED
        BY <1>4, <2>2, <2>3, <3>2, <4>1, EntriesAsked DEF Entries
    <3>4. dobby' = dobby \ {e.orig}
      BY <1>6, <2>1, <3>2, <3>3
    <3>5. (\A b : ~Arriving(b)) /\ call'[Main].at # "unhook recorded"
      BY <1>1, <2>4 DEF Arriving
    <3>6. \A b \in Funcs : b \in dobby \/ Main \in switches[b] => Listed(b)
      BY <1>4, <3>2, <3>5 DEF Pure
    <3>7. \A b \in Funcs : ~(b \in dobby /\ Main \in switches[b])
      BY <1>4, <3>2 DEF Pure
    <3>8. \A b \in Funcs : b \in dobby' \/ Main \in switches[b] => b # e.orig
      BY <3>3, <3>4, <3>7
    <3>9. \A b \in Funcs : b \in dobby' \/ Main \in switches[b] => Listed(b)'
      BY <2>7, <2>8, <3>6, <3>8
    <3>10. \A b \in Funcs : ~(b \in dobby' /\ Main \in switches[b])
      BY <2>7, <3>7
    <3> QED
      BY <1>1, <3>5, <3>9, <3>10 DEF Pure
  <2> QED
    BY <2>4, <2>5, <2>6, <2>8, <2>9 DEF HookInv, ListInv
<1> QED
  BY <1>0, <1>3, <1>5, <1>6, UnHookChanges

LEMMA SetHookerModleKeeps ==
    ASSUME OnceInv, HookInv, SetHookerModle PROVE HookInv'
<1>1. Typed
  BY DEF OnceInv
<1>2. /\ call[Main].at = "set model" /\ CallStep(Main) /\ call'[Main] = Idle
      /\ UNCHANGED <<tasks, switches, mode, hookedList, dobby, mixed>>
  BY <1>1, SetHookerModleChanges DEF initVars, hookVars
<1>3. call[Main].at \notin Busy
  BY <1>2 DEF Busy
<1> QED
  BY <1>2, <1>3, IdleAsks, HookFrame

-----------------------------------------------------------------------------
LEMMA InitHooks ==
    ASSUME Init PROVE HookInv
<1>1. /\ \A t \in Threads : call[t].at = "idle" /\ call[t].back = "user"
      /\ \A s \in Stubs : tasks[s] = NoTask
      /\ switches = [a \in Funcs |-> {}] /\ hookedList = <<>> /\ dobby = {}
  BY DEF Init, Idle
<1>2. TaskInv
  BY <1>1 DEF TaskInv, TasksOK, Mine, MineOf, Proxies, Hooked
<1>3. Served
  BY <1>1 DEF Served, ServedOf
<1>4a. Asks
  BY <1>1 DEF Asks
<1>4b. DOMAIN hookedList = {}
  BY <1>1
<1>4. Asks /\ Listing
  BY <1>4a, <1>4b DEF Listing
<1>5. Pure
  BY <1>1 DEF Pure, Arriving
<1> QED
  BY <1>2, <1>3, <1>4, <1>5 DEF HookInv, ListInv

LEMMA StepHooks ==
    ASSUME OnceInv, HookInv, [Next]_vars PROVE HookInv'
<1>0. Typed
  BY DEF OnceInv
<1>1. ASSUME NEW w, NEW x, BegunByMain(w, x), Begin(Main, w, x) PROVE HookInv'
  BY <1>0, <1>1, BeginHook
<1>2. ASSUME NEW t \in Threads, t # Main, NEW w, NEW x, BegunByUser(t, w, x), Begin(t, w, x)
      PROVE  HookInv'
  BY <1>0, <1>2, BeginHook
<1>3. ASSUME NEW t \in Threads, Step(t) PROVE HookInv'
  <2>1. CASE InitCheck(t) \/ InitBody(t) \/ InitEnd(t)
    BY <2>1, InitHook
  <2>2. CASE HookCreate(t)
    BY <2>2, CreateHook
  <2>3. CASE HookSwitch(t)
    BY <2>3, SwitchHook
  <2>4. CASE HookEnd(t)
    BY <2>4, HookEndHook
  <2>5. CASE UnhookSwitch(t)
    BY <2>5, UnhookHook
  <2>6. CASE UnhookEnd(t)
    BY <2>6, UnhookEndHook
  <2>7. CASE GetRecords(t) \/ GotRecords(t) \/ SetRecordable(t) \/ Recording(t)
    BY <2>7, PlainHook
  <2>8. CASE Hooker \/ HookerHook \/ UnHook \/ SetHookerModle
    BY <2>8, HookerKeeps, HookerHookKeeps, UnHookKeeps, SetHookerModleKeeps
  <2> QED
    BY <1>3, <2>1, <2>2, <2>3, <2>4, <2>5, <2>6, <2>7, <2>8 DEF Step
<1>4. CASE UNCHANGED vars
  <2>1. UNCHANGED <<tasks, switches, hookedList, dobby, mixed, mode, call>>
    BY <1>4 DEF vars, hookVars, utilVars, initVars
  <2>2. (\A u, s : Working(u, s)' <=> Working(u, s)) /\ (\A u \in Threads : MineOf(u)' <=> MineOf(u))
        /\ (\A u \in Threads : ServedOf(u)' <=> ServedOf(u))
    BY <2>1 DEF Working, MineOf, ServedOf
  <2>3. \A s : Hooked(s)' <=> Hooked(s)
    BY <2>1, <2>2 DEF Hooked
  <2>4. TaskInv'
    BY <2>1, <2>2, <2>3, SameProxies DEF HookInv, TaskInv, TasksOK, Mine
  <2>5. Served' /\ Asks'
    BY <2>1, <2>2 DEF HookInv, ListInv, Served, Asks, Listed
  <2>6. Listing'
    BY <2>1, <2>3 DEF HookInv, ListInv, Listing, Entry, Leaving
  <2>7. Pure'
    BY <2>1 DEF HookInv, ListInv, Pure, Arriving, Listed
  <2> QED
    BY <2>4, <2>5, <2>6, <2>7 DEF HookInv, ListInv
<1> QED
  BY <1>1, <1>2, <1>3, <1>4, BeginCases

\* HookUtils hooks no function with both frameworks as long as unHook meets only
\* entries of the current model, whatever the other threads do with ShadowHook.
THEOREM OneFramework == Spec => []OneHookPerFunction
<1>1. Spec => [](OnceInv /\ HookInv)
  BY InitOnce, InitHooks, StepOnce, StepHooks, PTL DEF Spec
<1>2. HookInv => OneHookPerFunction
  BY DEF HookInv, ListInv, Pure, OneHookPerFunction
<1> QED
  BY <1>1, <1>2, PTL

\* Between two calls of HookUtils every entry of its list is a hook in force, and
\* no hook of its thread is missing as long as unHook asked the right framework.
THEOREM ListIsTrue == Spec => []ListMatchesHooks
<1>1. Spec => [](OnceInv /\ HookInv)
  BY InitOnce, InitHooks, StepOnce, StepHooks, PTL DEF Spec
<1>2. ASSUME OnceInv, HookInv PROVE ListMatchesHooks
  <2>1. SUFFICES ASSUME call[Main].at = "idle"
                 PROVE  /\ \A i \in DOMAIN hookedList :
                             LET e == hookedList[i]
                             IN  IF e.module = "dobby" THEN e.orig \in dobby
                                 ELSE /\ tasks[e.ret] = [by |-> Main, addr |-> e.orig]
                                      /\ Main \in switches[e.orig]
                        /\ ~mixed => \A a \in Funcs : a \in dobby \/ Main \in switches[a] => Listed(a)
    BY DEF ListMatchesHooks
  <2>2. Listing /\ Pure /\ Proxies /\ hookedList \in Seq(Entries)
    BY <1>2 DEF OnceInv, Typed, HookInv, ListInv, TaskInv
  <2>3. ASSUME NEW i \in DOMAIN hookedList, NEW e, e = hookedList[i]
        PROVE  IF e.module = "dobby" THEN e.orig \in dobby
               ELSE tasks[e.ret] = Task(Main, e.orig) /\ Main \in switches[e.orig]
    <3>1. e \in Entries
      BY <2>2, <2>3, ElementOfSeq, LenProperties
    <3>2. Entry(e) /\ ~Leaving(e.ret)
      BY <2>1, <2>2, <2>3 DEF Listing, Leaving
    <3>3. CASE e.module = "dobby"
      BY <3>2, <3>3 DEF Entry
    <3>4. CASE e.module = "shadowhook"
      <4>1. e.ret \in Stubs /\ tasks[e.ret] = Task(Main, e.orig) /\ Hooked(e.ret)
        BY <3>2, <3>4 DEF Entry
      <4>2. tasks[e.ret].by = Main /\ tasks[e.ret].addr = e.orig
        BY <4>1, TaskIs
      <4> QED
        BY <2>2, <3>4, <4>1, <4>2 DEF Proxies
    <3> QED
      BY <3>1, <3>3, <3>4 DEF Entries
  <2>4. ~mixed => \A a \in Funcs : a \in dobby \/ Main \in switches[a] => Listed(a)
    BY <2>1, <2>2 DEF Pure, Arriving
  <2> QED
    BY <2>3, <2>4 DEF Task
<1> QED
  BY <1>1, <1>2, PTL
-----------------------------------------------------------------------------
(* What an output shows *)

Lines == [op : {"hook", "unhook"}, ok : BOOLEAN, stub : Args, names : Seq(Names)]
         \union {ErrorLine, End, "garbage"}
Outs == {"lock records", "lock strings", "lines", "unlock", "error line", "finish", "got"}
OutBufs == [seq : Seq(Lines), cap : Nat, sz : Nat, freed : BOOLEAN]
Outputting == [at : Outs, to : {"string", "fd"}, out : OutBufs, i : Nat, upto : Nat,
               failed : BOOLEAN]

\* The lines of the first m records of a log, as they should be.
Plain(row) == [op |-> row.op, ok |-> row.ok, stub |-> row.stub, names |-> row.names]
Told(log, m) == [n \in 1..m |-> Plain(log[n])]
Lost == {<<>>, <<ErrorLine>>}
Ending(to) == IF to = "string" THEN <<End>> ELSE <<>>

Finishing(r, log) == \E lost \in Lost : r.out.seq = Told(log, r.upto) \o lost
Finished(r, log) == \E lost \in Lost : r.out.seq = Told(log, r.upto) \o lost \o Ending(r.to)

\* An output that has not failed shows the records it has passed, and no record
\* is added between its locks; what it frees, it has failed on.
OutGood(r, log) ==
    /\ r.upto <= Len(log) /\ (r.out.freed => r.failed)
    /\ r.at \in {"lock records", "lock strings"} => ~r.failed /\ r.i = 1 /\ r.out.seq = <<>>
    /\ r.at \in {"lock strings", "lines"} => r.upto = Len(log)
    /\ r.at = "lines" => ~r.failed /\ r.i \in 1..r.upto + 1 /\ r.out.seq = Told(log, r.i - 1)
    /\ r.at = "unlock" => r.failed
    /\ r.at = "error line" /\ ~r.failed => r.out.seq = Told(log, r.upto)
    /\ r.at = "finish" /\ ~r.failed => Finishing(r, log)
    /\ r.at = "got" /\ ~r.failed => Finished(r, log)
Outputs == \A t \in Threads :
    rec[t].at \in Outs => rec[t] \in Outputting /\ OutGood(rec[t], records.seq)

\* Each lock is held by the output that is in its section.
InRecords == {"lock strings", "lines", "unlock"}
InStrings == {"lines", "unlock"}
Locks ==
    /\ recordsLock \in Threads \union {Nobody} /\ stringsLock \in Threads \union {Nobody}
    /\ \A t \in Threads : recordsLock = t <=> rec[t].at \in InRecords
    /\ \A t \in Threads : stringsLock = t <=> rec[t].at \in InStrings

\* A thread is in the recorder only for the call it is in.
Recorded == {"hook recorded", "unhook recorded"}
Duty(t) ==
    /\ rec[t].at = "adding" =>
         /\ call[t].at \in Recorded
         /\ rec[t].stub = call[t].stub /\ rec[t].ok = call[t].ok
         /\ rec[t].op = IF call[t].at = "hook recorded" THEN "hook" ELSE "unhook"
         /\ \A k \in DOMAIN rec[t].names : rec[t].names[k] \in DOMAIN StrSize
    /\ rec[t].at \in Outs => call[t].at = "records got"
    /\ rec[t].at \notin {"adding"} \union Outs => rec[t] = Quiet
Duties == \A t \in Threads : Duty(t)

Crash == crashed => \E t \in Threads : rec[t].at \in Outs /\ rec[t].failed

Numbers(buf, max) ==
    /\ {"seq", "cap", "sz"} \subseteq DOMAIN buf
    /\ buf.cap \in Nat /\ buf.sz \in Nat /\ buf.sz <= buf.cap /\ buf.cap <= max
Buffers == Numbers(strings, StringsMax) /\ Numbers(records, RecordsMax)

OutInv == Outputs /\ Locks /\ Duties /\ Crash /\ Buffers

LEMMA ToldMore ==
    ASSUME NEW log \in Seq(Rows), NEW k \in 1..Len(log)
    PROVE  /\ Plain(log[k]) \in Lines
           /\ Told(log, k - 1) \in Seq(Lines)
           /\ Append(Told(log, k - 1), Plain(log[k])) = Told(log, k)
<1>1. Len(log) \in Nat /\ \A n \in 1..Len(log) : log[n] \in Rows
  BY LenProperties, ElementOfSeq
<1>2. \A n \in 1..Len(log) : Plain(log[n]) \in Lines
  BY <1>1 DEF Plain, Rows, Lines
<1> HIDE DEF Plain
<1>3. PICK T : T = Told(log, k - 1)
  OBVIOUS
<1>4. DOMAIN T = 1..k - 1 /\ T \in [1..k - 1 -> Lines] /\ \A n \in 1..k - 1 : T[n] = Plain(log[n])
  BY <1>1, <1>2, <1>3 DEF Told
<1>5. T \in Seq(Lines) /\ Len(T) = k - 1
  BY <1>1, <1>4
<1>6. PICK l : l = Plain(log[k])
  OBVIOUS
<1>7. l \in Lines
  BY <1>2, <1>6
<1>8. PICK A : A = Append(T, l)
  OBVIOUS
<1>9. A \in Seq(Lines) /\ Len(A) = k /\ A[k] = l /\ \A n \in 1..k - 1 : A[n] = T[n]
  BY <1>5, <1>7, <1>8, AppendProperties
<1>10. DOMAIN A = 1..k /\ A = [n \in 1..k |-> A[n]]
  BY <1>9, LenProperties
<1>11. \A n \in 1..k : A[n] = Plain(log[n])
  BY <1>4, <1>6, <1>9
<1>12. A = Told(log, k)
  BY <1>10, <1>11 DEF Told
<1> QED
  BY <1>2, <1>3, <1>5, <1>6, <1>8, <1>12

LEMMA ToldStays ==
    ASSUME NEW log \in Seq(Rows), NEW row \in Rows, NEW k \in Nat, k <= Len(log)
    PROVE  Told(Append(log, row), k) = Told(log, k)
<1>1. Len(log) \in Nat /\ \A n \in 1..Len(log) : Append(log, row)[n] = log[n]
  BY AppendProperties, LenProperties
<1> QED
  BY <1>1 DEF Told

LEMMA ToldAll ==
    ASSUME NEW log \in Seq(Rows), NEW k \in 0..Len(log)
    PROVE  Told(log, k) \in Seq(Lines)
<1>1. Len(log) \in Nat
  BY LenProperties
<1>2. \A n \in 1..Len(log) : Plain(log[n]) \in Lines
  BY ToldMore
<1> HIDE DEF Plain
<1>3. Told(log, k) \in [1..k -> Lines]
  BY <1>1, <1>2 DEF Told
<1> QED
  BY <1>1, <1>3

\* A line shows its record: the indices stand for the names.
LEMMA LineIsPlain ==
    ASSUME RecInv, NEW n \in 1..Len(records.seq)
    PROVE  Line(records.seq[n]) = Plain(records.seq[n])
<1>1. PICK row : row = records.seq[n]
  OBVIOUS
<1>2. row \in Rows /\ Len(row.idx) = Len(row.names) /\ Stand(strings.seq, row.idx, row.names)
  BY <1>1, ElementOfSeq DEF RecInv, Log
<1>3. row.idx \in Seq(Nat) /\ row.names \in Seq(Names)
  BY <1>2 DEF Rows
<1>4. /\ DOMAIN row.idx = 1..Len(row.idx) /\ DOMAIN row.names = 1..Len(row.names)
      /\ row.names = [k \in 1..Len(row.names) |-> row.names[k]]
      /\ \A k \in 1..Len(row.idx) : row.idx[k] \in Nat
  BY <1>3, LenProperties, ElementOfSeq
<1>5. \A k \in DOMAIN row.idx : FindStr(row.idx[k]) = row.names[k]
  BY <1>2, <1>4 DEF Stand, FindStr
<1> HIDE DEF FindStr
<1>6. [k \in DOMAIN row.idx |-> FindStr(row.idx[k])] = row.names
  BY <1>2, <1>4, <1>5
<1> QED
  BY <1>1, <1>6 DEF Line, Plain

\* An output that goes to w with the buffer p.
Going(r, w, p, j, b) == [r EXCEPT !.at = w, !.out = p, !.i = j, !.failed = b]

LEMMA OutputGoes ==
    ASSUME NEW r \in Outputting, NEW p \in OutBufs, NEW j \in Nat, NEW b \in BOOLEAN,
           NEW w \in Outs, NEW q, q = Going(r, w, p, j, b)
    PROVE  /\ q \in Outputting /\ q.at = w /\ q.out = p /\ q.i = j /\ q.failed = b
           /\ q.upto = r.upto /\ q.to = r.to
<1>1. q \in Outputting
  BY DEF Going, Outputting
<1>2. q.at = w /\ q.out = p
  BY DEF Going, Outputting
<1>3. q.i = j /\ q.failed = b
  BY DEF Going, Outputting
<1>4. q.upto = r.upto /\ q.to = r.to
  BY DEF Going, Outputting
<1> QED
  BY <1>1, <1>2, <1>3, <1>4

Gone(t, r, w, p, j, b) ==
    /\ DOMAIN rec' = Threads /\ \A u \in Threads : u # t => rec'[u] = rec[u]
    /\ rec'[t] \in Outputting /\ rec'[t].upto = r.upto /\ rec'[t].to = r.to
    /\ rec'[t].at = w /\ rec'[t].out = p /\ rec'[t].i = j /\ rec'[t].failed = b

LEMMA OutputGone ==
    ASSUME DOMAIN rec = Threads, NEW t \in Threads, NEW r \in Outputting, NEW p \in OutBufs,
           NEW j \in Nat, NEW b \in BOOLEAN, NEW w \in Outs,
           rec' = [rec EXCEPT ![t] = Going(r, w, p, j, b)]
    PROVE  Gone(t, r, w, p, j, b)
<1>1. /\ DOMAIN rec' = Threads /\ \A u \in Threads : u # t => rec'[u] = rec[u]
      /\ rec'[t] = Going(r, w, p, j, b)
  OBVIOUS
<1>2. PICK q : q = rec'[t]
  OBVIOUS
<1>3. /\ q \in Outputting /\ q.at = w /\ q.out = p /\ q.i = j /\ q.failed = b
      /\ q.upto = r.upto /\ q.to = r.to
  BY <1>1, <1>2, OutputGoes
<1> QED
  BY <1>1, <1>2, <1>3 DEF Gone

\* How an append of an output ends: the line is there, or the output has failed.
Appended(t, r, x, next, onFail) ==
    /\ DOMAIN rec' = Threads /\ \A u \in Threads : u # t => rec'[u] = rec[u]
    /\ rec'[t] \in Outputting /\ rec'[t].upto = r.upto /\ rec'[t].to = r.to
    /\ (r.failed => rec'[t].failed) /\ (rec'[t].out.freed => rec'[t].failed)
    /\ \/ /\ rec'[t].at = next /\ crashed' = crashed /\ rec'[t].failed = r.failed
          /\ ~rec'[t].failed => rec'[t].out.seq = Append(r.out.seq, x) /\ rec'[t].i = r.i + 1
       \/ rec'[t].at = onFail /\ rec'[t].failed /\ crashed' = crashed
       \/ rec' = rec /\ crashed' = TRUE /\ r.failed

LEMMA PutOutEnds ==
    ASSUME DOMAIN rec = Threads, NEW t \in Threads, NEW r, r = rec[t], r \in Outputting,
           NEW x \in Lines, NEW n \in Nat, NEW next \in Outs, NEW onFail \in Outs,
           r.out.freed => r.failed, PutOut(t, x, n, next, onFail)
    PROVE  Appended(t, r, x, next, onFail)
<1>1. PICK o : o = r.out
  OBVIOUS
<1>2. /\ o \in OutBufs
      /\ r.i \in Nat /\ r.upto \in Nat /\ r.failed \in BOOLEAN /\ r.to \in {"string", "fd"}
      /\ o.freed => r.failed
  BY <1>1 DEF Outputting
<1>3. CASE /\ rec' = [Go(t, next) EXCEPT ![t].out.seq = Append(@, x), ![t].i = @ + 1]
           /\ UNCHANGED crashed
  <2>1. PICK p : p = [o EXCEPT !.seq = Append(o.seq, x)]
    OBVIOUS
  <2>2. /\ p \in OutBufs
        /\ p.seq = Append(o.seq, x) /\ p.freed = o.freed
    <3>1. Append(o.seq, x) \in Seq(Lines)
      BY <1>2, AppendProperties DEF OutBufs
    <3> QED
      BY <1>2, <2>1, <3>1 DEF OutBufs
  <2>3. rec' = [rec EXCEPT ![t] = Going(r, next, p, r.i + 1, r.failed)]
    BY <1>1, <1>2, <1>3, <2>1 DEF Go, Going, Outputting
  <2>4. r.i + 1 \in Nat
    BY <1>2
  <2>5. Gone(t, r, next, p, r.i + 1, r.failed)
    <3>1. PICK b, j : b = r.failed /\ j = r.i + 1
      OBVIOUS
    <3>2. b \in BOOLEAN /\ j \in Nat /\ p \in OutBufs /\ rec' = [rec EXCEPT ![t] = Going(r, next, p, j, b)]
      BY <1>2, <3>1, <2>2, <2>3, <2>4
    <3>3. Gone(t, r, next, p, j, b)
      BY <3>2, OutputGone
    <3> QED
      BY <3>1, <3>3
  <2> QED
    BY <1>1, <1>2, <1>3, <2>2, <2>5 DEF Gone, Appended
<1>4. ASSUME NEW fresh, fresh = IF o.freed /\ o.sz > 0 THEN [o EXCEPT !.seq = <<"garbage">>] ELSE o,
             rec' = [Go(t, next) EXCEPT ![t].out = [Put(fresh, OutputStep, x, n) EXCEPT !.freed = FALSE],
                                        ![t].i = @ + 1],
             UNCHANGED crashed
      PROVE  /\ DOMAIN rec' = Threads /\ \A u \in Threads : u # t => rec'[u] = rec[u]
             /\ rec'[t] \in Outputting /\ rec'[t].upto = r.upto /\ rec'[t].to = r.to
             /\ (r.failed => rec'[t].failed) /\ (rec'[t].out.freed => rec'[t].failed)
             /\ rec'[t].at = next /\ rec'[t].failed = r.failed
             /\ ~rec'[t].failed => rec'[t].out.seq = Append(r.out.seq, x) /\ rec'[t].i = r.i + 1
  <2>1. /\ fresh \in OutBufs
        /\ ~r.failed => fresh.seq = o.seq
    <3>1. <<"garbage">> \in Seq(Lines)
      BY DEF Lines
    <3> QED
      BY <1>2, <1>4, <3>1 DEF OutBufs
  <2>2. PICK p : p = [Put(fresh, OutputStep, x, n) EXCEPT !.freed = FALSE]
    OBVIOUS
  <2>3. /\ p \in OutBufs
        /\ p.seq = Append(fresh.seq, x) /\ p.freed = FALSE
    <3>1. PICK c : c = IF HasRoom(fresh, n) THEN fresh.cap ELSE fresh.cap + OutputStep
      OBVIOUS
    <3>a. fresh.cap \in Nat /\ fresh.sz \in Nat
      BY <2>1 DEF OutBufs
    <3>b. OutputStep \in Nat /\ n \in Nat
      BY SizeAssumption
    <3>2. c \in Nat /\ fresh.sz + n \in Nat
      BY <3>1, <3>a, <3>b
    <3>3. Append(fresh.seq, x) \in Seq(Lines)
      BY <2>1, AppendProperties DEF OutBufs
    <3>4. p = [fresh EXCEPT !.seq = Append(fresh.seq, x), !.sz = fresh.sz + n, !.cap = c, !.freed = FALSE]
      BY <2>1, <2>2, <3>1 DEF Put, OutBufs
    <3> QED
      BY <2>1, <3>2, <3>3, <3>4 DEF OutBufs
  <2>4. rec' = [rec EXCEPT ![t] = Going(r, next, p, r.i + 1, r.failed)]
    BY <1>1, <1>2, <1>4, <2>2 DEF Go, Going, Outputting
  <2>5. r.i + 1 \in Nat
    BY <1>2
  <2>6. Gone(t, r, next, p, r.i + 1, r.failed)
    <3>1. PICK b, j : b = r.failed /\ j = r.i + 1
      OBVIOUS
    <3>2. b \in BOOLEAN /\ j \in Nat /\ p \in OutBufs /\ rec' = [rec EXCEPT ![t] = Going(r, next, p, j, b)]
      BY <1>2, <3>1, <2>3, <2>4, <2>5
    <3>3. Gone(t, r, next, p, j, b)
      BY <3>2, OutputGone
    <3> QED
      BY <3>1, <3>3
  <2> QED
    BY <1>1, <1>2, <2>1, <2>3, <2>6 DEF Gone
<1>5. CASE /\ rec' = [Go(t, onFail) EXCEPT
                        ![t].failed = TRUE,
                        ![t].out = IF r.to = "string" THEN [@ EXCEPT !.seq = <<>>, !.freed = TRUE] ELSE @]
           /\ UNCHANGED crashed
  <2>1. PICK p : p = IF r.to = "string" THEN [o EXCEPT !.seq = <<>>, !.freed = TRUE] ELSE o
    OBVIOUS
  <2>2. p \in OutBufs
    BY <1>2, <2>1, EmptySeq DEF OutBufs
  <2>3. rec' = [rec EXCEPT ![t] = Going(r, onFail, p, r.i, TRUE)]
    BY <1>1, <1>2, <1>5, <2>1 DEF Go, Going, Outputting
  <2>4. Gone(t, r, onFail, p, r.i, TRUE)
    BY <1>2, <2>2, <2>3, OutputGone
  <2> QED
    BY <1>2, <1>5, <2>4 DEF Gone, Appended
<1>6. CASE r.out.freed /\ crashed' = TRUE /\ UNCHANGED rec
  BY <1>1, <1>2, <1>6 DEF Appended
<1> QED
  <2>1. ASSUME NEW fresh, fresh = IF o.freed /\ o.sz > 0 THEN [o EXCEPT !.seq = <<"garbage">>] ELSE o,
               rec' = [Go(t, next) EXCEPT ![t].out = [Put(fresh, OutputStep, x, n) EXCEPT !.freed = FALSE],
                                          ![t].i = @ + 1],
               UNCHANGED crashed
        PROVE  Appended(t, r, x, next, onFail)
    BY <1>4, <2>1 DEF Appended
  <2> QED
    BY <1>1, <1>3, <1>5, <1>6, <2>1 DEF PutOut

LEMMA QuietIs == Quiet.at = "quiet" /\ "at" \in DOMAIN Quiet
BY DEF Quiet

LEMMA OutsAre ==
    /\ "adding" \notin Outs /\ "quiet" \notin Outs /\ InRecords \subseteq Outs /\ InStrings \subseteq InRecords
    /\ "adding" \notin InRecords /\ "quiet" \notin InRecords
BY DEF Outs, InRecords, InStrings

\* Outside its call a thread has nothing to do with the recorder.
LEMMA QuietCalls ==
    ASSUME OutInv, NEW t \in Threads, call[t].at \notin Recorded, call[t].at # "records got"
    PROVE  rec[t] = Quiet
BY DEF OutInv, Duties, Duty

LEMMA OutStaysQuiet ==
    ASSUME OutInv, NEW t \in Threads, CallStep(t), rec[t] = Quiet, UNCHANGED recorderVars
    PROVE  OutInv'
<1>1. rec' = rec /\ strings' = strings /\ records' = records /\ crashed' = crashed
      /\ recordsLock' = recordsLock /\ stringsLock' = stringsLock
  BY DEF recorderVars
<1>2. Outputs' /\ Locks' /\ Crash' /\ Buffers'
  BY <1>1 DEF OutInv, Outputs, Locks, Crash, Buffers
<1>3. ASSUME NEW u \in Threads PROVE Duty(u)'
  <2>1. CASE u = t
    BY <1>1, <2>1, QuietIs, OutsAre DEF Duty
  <2>2. CASE u # t
    <3>1. call'[u] = call[u] /\ Duty(u)
      BY <2>2 DEF CallStep, OutInv, Duties
    <3> QED
      BY <1>1, <3>1 DEF Duty
  <2> QED
    BY <2>1, <2>2
<1> QED
  BY <1>2, <1>3 DEF OutInv, Duties

\* The lock of a section goes to the output that enters it.
Held1(lock, t, here, now) ==
    lock' = IF now THEN t ELSE IF here THEN Nobody ELSE lock

LEMMA OutputMoves ==
    ASSUME RecInv, OutInv, NEW t \in Threads, rec[t].at \in Outs,
           UNCHANGED <<strings, records, call>>, DOMAIN rec' = Threads,
           \A u \in Threads : u # t => rec'[u] = rec[u],
           rec'[t].at \in Outs, rec'[t] \in Outputting, OutGood(rec'[t], records.seq),
           Held1(recordsLock, t, rec[t].at \in InRecords, rec'[t].at \in InRecords),
           Held1(stringsLock, t, rec[t].at \in InStrings, rec'[t].at \in InStrings),
           rec'[t].at \in InRecords => recordsLock \in {t, Nobody},
           rec'[t].at \in InStrings => stringsLock \in {t, Nobody},
           crashed' = crashed /\ (rec[t].failed => rec'[t].failed)
    PROVE  OutInv'
<1>0. Outputs /\ Locks /\ Duties /\ Crash /\ Buffers /\ t # Nobody
  BY DEF OutInv
<1>1. Outputs'
  BY <1>0 DEF Outputs
<1>2. recordsLock' \in Threads \union {Nobody} /\ stringsLock' \in Threads \union {Nobody}
  BY <1>0 DEF Locks, Held1
<1>3. ASSUME NEW u \in Threads PROVE recordsLock' = u <=> rec'[u].at \in InRecords
  BY <1>0 DEF Locks, Held1
<1>4. ASSUME NEW u \in Threads PROVE stringsLock' = u <=> rec'[u].at \in InStrings
  BY <1>0 DEF Locks, Held1
<1>5. ASSUME NEW u \in Threads PROVE Duty(u)'
  <2>1. CASE u = t
    BY <1>0, <2>1, OutsAre DEF Duties, Duty
  <2>2. CASE u # t
    <3>1. call'[u] = call[u] /\ rec'[u] = rec[u] /\ Duty(u)
      BY <1>0, <2>2 DEF Duties
    <3> QED
      BY <3>1 DEF Duty
  <2> QED
    BY <2>1, <2>2
<1>6. Crash'
  <2>1. SUFFICES ASSUME crashed PROVE \E u \in Threads : rec'[u].at \in Outs /\ rec'[u].failed
    BY DEF Crash
  <2>2. PICK u \in Threads : rec[u].at \in Outs /\ rec[u].failed
    BY <1>0, <2>1 DEF Crash
  <2> QED
    BY <2>2
<1>7. Buffers'
  BY <1>0 DEF Buffers
<1> QED
  BY <1>1, <1>2, <1>3, <1>4, <1>5, <1>6, <1>7 DEF OutInv, Locks, Duties

LEMMA LockRecordsGood ==
    ASSUME RecInv, OutInv, NEW t \in Threads, LockRecords(t), UNCHANGED call PROVE OutInv'
<1>1. PICK r : r = rec[t]
  OBVIOUS
<1>2. /\ r.at = "lock records" /\ recordsLock = Nobody /\ recordsLock' = t
      /\ UNCHANGED <<strings, records, stringsLock, crashed>> /\ DOMAIN rec = Threads
  BY <1>1 DEF LockRecords, OutUnchanged, RecInv, Writers
<1>3. r \in Outputting /\ OutGood(r, records.seq)
  BY <1>1, <1>2 DEF OutInv, Outputs, Outs
<1>4. PICK n : n = Len(records.seq)
  OBVIOUS
<1>5. n \in Nat
  BY <1>4, LenProperties DEF RecInv, Log
<1>6. PICK q : q = [r EXCEPT !.at = "lock strings", !.upto = n]
  OBVIOUS
<1>7. rec' = [rec EXCEPT ![t] = q]
  BY <1>1, <1>2, <1>3, <1>4, <1>6 DEF LockRecords, Go, Outputting
<1>8. DOMAIN rec' = Threads /\ rec'[t] = q /\ \A u \in Threads : u # t => rec'[u] = rec[u]
  BY <1>2, <1>7
<1>9. q \in Outputting /\ q.at = "lock strings" /\ q.upto = n
  BY <1>3, <1>5, <1>6 DEF Outputting, Outs
<1>10. q.i = r.i /\ q.out = r.out /\ q.failed = r.failed
  BY <1>3, <1>6 DEF Outputting
<1>11. OutGood(q, records.seq)
  <2>1. r.i = 1 /\ r.out.seq = <<>> /\ ~r.failed /\ ~r.out.freed
    BY <1>2, <1>3 DEF OutGood
  <2>2. q.i = 1 /\ q.out.seq = <<>> /\ ~q.failed /\ ~q.out.freed
    BY <1>10, <2>1
  <2>3. q.upto = Len(records.seq) /\ q.upto <= Len(records.seq)
    <3>1. q.upto = Len(records.seq)
      BY <1>4, <1>9
    <3>2. n <= n
      BY <1>5
    <3> QED
      BY <1>4, <3>1, <3>2
  <2> QED
    BY <1>9, <2>2, <2>3 DEF OutGood
<1>12. rec[t].at \in Outs /\ q.at \in Outs /\ q.at \in InRecords /\ q.at \notin InStrings
       /\ rec[t].at \notin InRecords /\ rec[t].at \notin InStrings
  BY <1>1, <1>2, <1>9 DEF Outs, InRecords, InStrings
<1>13. /\ Held1(recordsLock, t, rec[t].at \in InRecords, rec'[t].at \in InRecords)
       /\ Held1(stringsLock, t, rec[t].at \in InStrings, rec'[t].at \in InStrings)
  BY <1>2, <1>8, <1>12 DEF Held1
<1> QED
  BY <1>1, <1>2, <1>8, <1>9, <1>10, <1>11, <1>12, <1>13, OutputMoves

LEMMA LockStringsGood ==
    ASSUME RecInv, OutInv, NEW t \in Threads, LockStrings(t), UNCHANGED call PROVE OutInv'
<1>1. PICK r : r = rec[t]
  OBVIOUS
<1>2. /\ r.at = "lock strings" /\ stringsLock = Nobody /\ stringsLock' = t
      /\ UNCHANGED <<strings, records, recordsLock, crashed>> /\ DOMAIN rec = Threads
  BY <1>1 DEF LockStrings, OutUnchanged, RecInv, Writers
<1>3. r \in Outputting /\ OutGood(r, records.seq)
  BY <1>1, <1>2 DEF OutInv, Outputs, Outs
<1>4. PICK q : q = [r EXCEPT !.at = "lines"]
  OBVIOUS
<1>5. rec' = [rec EXCEPT ![t] = q]
  BY <1>1, <1>2, <1>3, <1>4 DEF LockStrings, Go, Outputting
<1>6. DOMAIN rec' = Threads /\ rec'[t] = q /\ \A u \in Threads : u # t => rec'[u] = rec[u]
  BY <1>2, <1>5
<1>7. q \in Outputting /\ q.at = "lines" /\ q.upto = r.upto
  BY <1>3, <1>4 DEF Outputting, Outs
<1>8. q.i = r.i /\ q.out = r.out /\ q.failed = r.failed
  BY <1>3, <1>4 DEF Outputting
<1>9. Told(records.seq, 0) = <<>> /\ r.upto \in Nat
  BY <1>3 DEF Told, Outputting
<1>10. OutGood(q, records.seq)
  <2>1. /\ r.i = 1 /\ r.out.seq = <<>> /\ ~r.failed /\ ~r.out.freed
        /\ r.upto = Len(records.seq) /\ r.upto <= Len(records.seq)
    BY <1>2, <1>3 DEF OutGood
  <2>2. /\ q.i = 1 /\ q.out.seq = <<>> /\ ~q.failed /\ ~q.out.freed
        /\ q.upto = Len(records.seq) /\ q.upto <= Len(records.seq)
    BY <1>7, <1>8, <2>1
  <2>3. q.i \in 1..q.upto + 1 /\ q.out.seq = Told(records.seq, q.i - 1)
    <3>1. q.i - 1 = 0
      BY <2>2
    <3> QED
      BY <1>7, <1>9, <2>2, <3>1
  <2> QED
    BY <1>7, <2>2, <2>3 DEF OutGood
<1>11. rec[t].at \in Outs /\ q.at \in Outs /\ q.at \in InRecords /\ q.at \in InStrings
       /\ rec[t].at \in InRecords /\ rec[t].at \notin InStrings
  BY <1>1, <1>2, <1>7 DEF Outs, InRecords, InStrings
<1>12. recordsLock = t
  BY <1>11 DEF OutInv, Locks
<1>13. /\ Held1(recordsLock, t, rec[t].at \in InRecords, rec'[t].at \in InRecords)
       /\ Held1(stringsLock, t, rec[t].at \in InStrings, rec'[t].at \in InStrings)
  BY <1>2, <1>6, <1>11, <1>12 DEF Held1
<1> QED
  BY <1>1, <1>2, <1>6, <1>7, <1>8, <1>10, <1>11, <1>12, <1>13, OutputMoves

\* A step of an output: a new state of its own, or a crash after a failure.
OutputStep1(t, r, q) ==
    /\ r = rec[t] /\ r \in Outputting /\ OutGood(r, records.seq)
    /\ q = rec'[t] /\ q \in Outputting /\ (r.failed => q.failed)
    /\ DOMAIN rec' = Threads /\ (\A u \in Threads : u # t => rec'[u] = rec[u])
    /\ UNCHANGED <<strings, records, call>>

LEMMA CrashGood ==
    ASSUME OutInv, NEW t \in Threads, rec[t].at \in Outs, rec[t].failed, rec' = rec, crashed' = TRUE,
           UNCHANGED <<strings, records, stringsLock, recordsLock, call>>
    PROVE  OutInv'
<1>1. Outputs' /\ Locks' /\ Buffers' /\ Crash'
  BY DEF OutInv, Outputs, Locks, Buffers, Crash
<1>2. Duties'
  BY DEF OutInv, Duties, Duty
<1> QED
  BY <1>1, <1>2 DEF OutInv

LEMMA SeqEnds ==
    ASSUME NEW s \in Seq(Lines), NEW x \in Lines
    PROVE  Append(s, x) = s \o <<x>> /\ s \o <<>> = s /\ s \o <<>> \in Seq(Lines) /\ s \o <<x>> \in Seq(Lines)
OBVIOUS

LEMMA WordsAreLines == ErrorLine \in Lines /\ End \in Lines /\ <<>> \in Lost /\ <<ErrorLine>> \in Lost
BY DEF Lines, Lost

LEMMA OutLineGood ==
    ASSUME RecInv, OutInv, NEW t \in Threads, OutLine(t), UNCHANGED call PROVE OutInv'
<1>1. PICK r, q : r = rec[t] /\ q = rec'[t]
  OBVIOUS
<1>2. PICK log : log = records.seq
  OBVIOUS
<1>3. /\ r.at = "lines" /\ UNCHANGED <<strings, records, stringsLock, recordsLock>>
      /\ r.i <= Len(log) /\ DOMAIN rec = Threads
      /\ PutOut(t, Line(log[r.i]), LineSize, "lines", "unlock")
  BY <1>1, <1>2 DEF OutLine, OutUnchanged, RecInv, Writers
<1>4. r \in Outputting /\ OutGood(r, log)
  BY <1>1, <1>2, <1>3 DEF OutInv, Outputs, Outs
<1>5. /\ r.upto = Len(log) /\ ~r.failed /\ r.i \in 1..r.upto + 1 /\ r.out.seq = Told(log, r.i - 1)
      /\ ~r.out.freed /\ r.upto <= Len(log)
  BY <1>3, <1>4 DEF OutGood
<1>6. log \in Seq(Rows) /\ Len(log) \in Nat
  BY <1>2, LenProperties DEF RecInv, Log
<1>7. r.i \in 1..Len(log) /\ r.upto \in Nat
  BY <1>3, <1>5, <1>6
<1>8. PICK x : x = Line(log[r.i])
  OBVIOUS
<1>9. x = Plain(log[r.i]) /\ x \in Lines /\ Append(r.out.seq, x) = Told(log, r.i)
  BY <1>2, <1>5, <1>6, <1>7, <1>8, LineIsPlain, ToldMore
<1>10. "lines" \in Outs /\ "unlock" \in Outs /\ LineSize \in Nat
  BY SizeAssumption DEF Outs
<1>11. /\ DOMAIN rec' = Threads /\ \A u \in Threads : u # t => rec'[u] = rec[u]
       /\ q \in Outputting /\ q.upto = r.upto
       /\ \/ /\ q.at = "lines" /\ crashed' = crashed /\ q.failed = r.failed
             /\ ~q.failed => q.out.seq = Append(r.out.seq, x) /\ q.i = r.i + 1
          \/ q.at = "unlock" /\ q.failed /\ crashed' = crashed
       /\ q.out.freed => q.failed
  <2>1. PutOut(t, x, LineSize, "lines", "unlock") /\ (r.out.freed => r.failed)
    BY <1>3, <1>5, <1>8
  <2>2. Appended(t, r, x, "lines", "unlock")
    BY <1>1, <1>3, <1>4, <1>9, <1>10, <2>1, PutOutEnds
  <2> QED
    BY <1>1, <1>5, <2>2 DEF Appended
<1>12. OutGood(q, log)
  <2>1. CASE q.at = "lines"
    <3>1. ~q.failed /\ ~q.out.freed
      BY <1>5, <1>11, <2>1
    <3>2. q.i = r.i + 1 /\ q.out.seq = Told(log, r.i)
      BY <1>9, <1>11, <2>1, <3>1
    <3>3. q.i - 1 = r.i /\ q.i \in 1..r.upto + 1
      BY <1>5, <1>7, <3>2
    <3>4. q.i \in 1..q.upto + 1 /\ q.out.seq = Told(log, q.i - 1) /\ q.upto = Len(log) /\ q.upto <= Len(log)
      BY <1>5, <1>11, <3>2, <3>3
    <3> QED
      BY <2>1, <3>1, <3>4 DEF OutGood
  <2>2. CASE q.at = "unlock"
    <3>1. q.failed /\ q.upto <= Len(log)
      BY <1>5, <1>11, <2>2
    <3> QED
      BY <2>2, <3>1 DEF OutGood
  <2> QED
    BY <1>11, <2>1, <2>2
<1>13. /\ r.at \in Outs /\ r.at \in InRecords /\ r.at \in InStrings
       /\ q.at \in Outs /\ q.at \in InRecords /\ q.at \in InStrings
  BY <1>3, <1>11 DEF Outs, InRecords, InStrings
<1>14. recordsLock = t /\ stringsLock = t
  BY <1>1, <1>13 DEF OutInv, Locks
<1>15. /\ Held1(recordsLock, t, r.at \in InRecords, q.at \in InRecords)
       /\ Held1(stringsLock, t, r.at \in InStrings, q.at \in InStrings)
  BY <1>3, <1>13, <1>14 DEF Held1
<1>16. OutputStep1(t, r, q) /\ crashed' = crashed
  BY <1>1, <1>2, <1>3, <1>4, <1>5, <1>11 DEF OutputStep1
<1> QED
  BY <1>1, <1>2, <1>12, <1>13, <1>14, <1>15, <1>16, OutputMoves DEF OutputStep1

LEMMA OutUnlockGood ==
    ASSUME RecInv, OutInv, NEW t \in Threads, OutUnlock(t), UNCHANGED call PROVE OutInv'
<1>1. PICK r, q : r = rec[t] /\ q = [r EXCEPT !.at = "error line"]
  OBVIOUS
<1>2. PICK log : log = records.seq
  OBVIOUS
<1>3. /\ UNCHANGED <<strings, records, crashed>> /\ stringsLock' = Nobody /\ recordsLock' = Nobody
      /\ r.at = "unlock" \/ (r.at = "lines" /\ r.i > Len(log))
      /\ DOMAIN rec = Threads
  BY <1>1, <1>2 DEF OutUnlock, OutUnchanged, RecInv, Writers
<1>4. r.at \in Outs /\ r \in Outputting /\ OutGood(r, log)
  BY <1>1, <1>2, <1>3 DEF OutInv, Outputs, Outs
<1>5. rec' = [rec EXCEPT ![t] = q]
  BY <1>1, <1>3, <1>4 DEF OutUnlock, Go, Outputting
<1>6. DOMAIN rec' = Threads /\ rec'[t] = q /\ \A u \in Threads : u # t => rec'[u] = rec[u]
  BY <1>3, <1>5
<1>7. q \in Outputting /\ q.at = "error line" /\ q.upto = r.upto
  BY <1>1, <1>4 DEF Outputting, Outs
<1>8. q.out = r.out /\ q.failed = r.failed
  BY <1>1, <1>4 DEF Outputting
<1>9. log \in Seq(Rows) /\ Len(log) \in Nat
  BY <1>2, LenProperties DEF RecInv, Log
<1>10. q.failed \/ q.out.seq = Told(log, q.upto)
  <2>1. CASE r.at = "unlock"
    BY <1>4, <1>8, <2>1 DEF OutGood
  <2>2. CASE r.at = "lines"
    <3>1. r.upto = Len(log) /\ r.i \in 1..r.upto + 1 /\ r.out.seq = Told(log, r.i - 1) /\ r.i > Len(log)
      BY <1>3, <1>4, <2>2 DEF OutGood
    <3>2. r.i - 1 = r.upto
      BY <1>9, <3>1
    <3> QED
      BY <1>7, <1>8, <3>1, <3>2
  <2> QED
    BY <1>3, <2>1, <2>2
<1>11. q.upto <= Len(log) /\ (q.out.freed => q.failed)
  BY <1>4, <1>7, <1>8 DEF OutGood
<1>12. OutGood(q, log)
  BY <1>7, <1>10, <1>11 DEF OutGood
<1>13. /\ r.at \in InRecords /\ r.at \in InStrings
       /\ q.at \in Outs /\ q.at \notin InRecords /\ q.at \notin InStrings
  BY <1>3, <1>7 DEF Outs, InRecords, InStrings
<1>14. /\ Held1(recordsLock, t, r.at \in InRecords, q.at \in InRecords)
       /\ Held1(stringsLock, t, r.at \in InStrings, q.at \in InStrings)
  BY <1>3, <1>13 DEF Held1
<1>15. OutputStep1(t, r, q) /\ crashed' = crashed
  BY <1>1, <1>2, <1>3, <1>4, <1>6, <1>7, <1>8 DEF OutputStep1
<1> QED
  BY <1>1, <1>2, <1>4, <1>12, <1>13, <1>14, <1>15, OutputMoves DEF OutputStep1

Ended(r, log) == r.failed \/ IF r.at = "finish" THEN Finishing(r, log) ELSE Finished(r, log)

\* A step after the loop, which holds no lock.
LEMMA EndingGood ==
    ASSUME RecInv, OutInv, NEW t \in Threads, rec[t].at \in {"error line", "finish"},
           UNCHANGED <<strings, records, stringsLock, recordsLock, call>>,
           DOMAIN rec' = Threads, \A u \in Threads : u # t => rec'[u] = rec[u],
           rec'[t] \in Outputting, rec'[t].upto = rec[t].upto,
           rec[t].failed => rec'[t].failed, rec'[t].out.freed => rec'[t].failed,
           rec'[t].at \in {"finish", "got"}, Ended(rec'[t], records.seq), crashed' = crashed
    PROVE  OutInv'
<1>1. PICK r, q, log : r = rec[t] /\ q = rec'[t] /\ log = records.seq
  OBVIOUS
<1>2. /\ r.at \in Outs /\ r.at \notin InRecords /\ r.at \notin InStrings
      /\ q.at \in Outs /\ q.at \notin InRecords /\ q.at \notin InStrings
  BY <1>1 DEF Outs, InRecords, InStrings
<1>3. r.upto <= Len(log)
  BY <1>1, <1>2 DEF OutInv, Outputs, OutGood
<1>4. OutGood(q, log)
  <2>1. /\ q \in Outputting /\ q.at \in {"finish", "got"} /\ Ended(q, log)
        /\ q.upto <= Len(log) /\ (q.out.freed => q.failed)
    BY <1>1, <1>3
  <2>2. q.at \notin {"lock records", "lock strings", "lines", "unlock", "error line"}
    BY <2>1
  <2>3. ~q.failed => (q.at = "finish" => Finishing(q, log)) /\ (q.at = "got" => Finished(q, log))
    BY <2>1 DEF Ended
  <2> QED
    BY <2>1, <2>2, <2>3 DEF OutGood
<1>5. /\ Held1(recordsLock, t, r.at \in InRecords, q.at \in InRecords)
      /\ Held1(stringsLock, t, r.at \in InStrings, q.at \in InStrings)
  BY <1>2 DEF Held1
<1> QED
  BY <1>1, <1>2, <1>4, <1>5, OutputMoves

\* An append after the loop.
LEMMA AppendGood ==
    ASSUME RecInv, OutInv, NEW t \in Threads, rec[t].at \in {"error line", "finish"},
           UNCHANGED <<strings, records, stringsLock, recordsLock, call>>,
           NEW x \in Lines, NEW next \in {"finish", "got"}, Appended(t, rec[t], x, next, "got"),
           rec'[t].at = next /\ ~rec'[t].failed /\ rec'[t].out.seq = Append(rec[t].out.seq, x)
             => Ended(rec'[t], records.seq)
    PROVE  OutInv'
<1>1. CASE rec' = rec /\ crashed' = TRUE /\ rec[t].failed
  <2>1. rec[t].at \in Outs
    BY DEF Outs
  <2> QED
    BY <1>1, <2>1, CrashGood
<1>2. CASE crashed' = crashed /\ rec'[t].at \in {"finish", "got"} /\ Ended(rec'[t], records.seq)
  BY <1>2, EndingGood DEF Appended
<1>3. CASE rec'[t].failed /\ rec'[t].at = "got" /\ crashed' = crashed
  BY <1>2, <1>3 DEF Ended
<1>4. CASE /\ rec'[t].at = next /\ crashed' = crashed /\ rec'[t].failed = rec[t].failed
           /\ ~rec'[t].failed => rec'[t].out.seq = Append(rec[t].out.seq, x)
  <2>1. Ended(rec'[t], records.seq)
    BY <1>4 DEF Ended
  <2> QED
    BY <1>2, <1>4, <2>1
<1> QED
  BY <1>1, <1>3, <1>4 DEF Appended

\* An output that goes on without a line.
LEMMA PassGood ==
    ASSUME RecInv, OutInv, NEW t \in Threads, rec[t].at \in {"error line", "finish"},
           UNCHANGED <<strings, records, stringsLock, recordsLock, call>>,
           NEW next \in {"finish", "got"}, rec' = Go(t, next), crashed' = crashed,
           NEW q, q = [rec[t] EXCEPT !.at = next], Ended(q, records.seq)
    PROVE  OutInv'
<1>1. PICK r : r = rec[t]
  OBVIOUS
<1>2. r.at \in Outs /\ DOMAIN rec = Threads
  BY <1>1 DEF Outs, RecInv, Writers
<1>3. r \in Outputting /\ (r.out.freed => r.failed)
  BY <1>1, <1>2 DEF OutInv, Outputs, OutGood
<1>4. q \in Outputting /\ q.at = next
  BY <1>1, <1>3 DEF Outputting, Outs
<1>5. q.upto = r.upto /\ q.out = r.out /\ q.failed = r.failed
  BY <1>1, <1>3 DEF Outputting
<1>6. rec' = [rec EXCEPT ![t] = q]
  BY <1>1, <1>3 DEF Go, Outputting
<1>7. DOMAIN rec' = Threads /\ rec'[t] = q /\ \A u \in Threads : u # t => rec'[u] = rec[u]
  BY <1>2, <1>6
<1>8. /\ rec'[t] \in Outputting /\ rec'[t].upto = rec[t].upto /\ rec'[t].at \in {"finish", "got"}
      /\ Ended(rec'[t], records.seq)
  BY <1>1, <1>4, <1>5, <1>7
<1>9. (rec[t].failed => rec'[t].failed) /\ (rec'[t].out.freed => rec'[t].failed)
  BY <1>1, <1>3, <1>5, <1>7
<1> QED
  BY <1>7, <1>8, <1>9, EndingGood

LEMMA OutErrorLineGood ==
    ASSUME RecInv, OutInv, NEW t \in Threads, OutErrorLine(t), UNCHANGED call PROVE OutInv'
<1>1. PICK r, log : r = rec[t] /\ log = records.seq
  OBVIOUS
<1>2. /\ r.at = "error line" /\ UNCHANGED <<strings, records, stringsLock, recordsLock, call>>
      /\ DOMAIN rec = Threads
  BY <1>1 DEF OutErrorLine, OutUnchanged, RecInv, Writers
<1>3. r \in Outputting /\ OutGood(r, log)
  BY <1>1, <1>2 DEF OutInv, Outputs, Outs
<1>4. /\ (r.out.freed => r.failed) /\ r.upto <= Len(log)
      /\ (r.failed \/ r.out.seq = Told(log, r.upto)) /\ r.upto \in Nat
  BY <1>2, <1>3 DEF OutGood, Outputting
<1>5. log \in Seq(Rows) /\ Len(log) \in Nat
  BY <1>1, LenProperties DEF RecInv, Log
<1>6. Told(log, r.upto) \in Seq(Lines)
  BY <1>4, <1>5, ToldAll
<1>7. CASE error
  <2>1. PutOut(t, ErrorLine, LineSize, "finish", "got")
    BY <1>7 DEF OutErrorLine
  <2>2. ErrorLine \in Lines /\ LineSize \in Nat /\ "finish" \in Outs /\ "got" \in Outs
    BY WordsAreLines, SizeAssumption DEF Outs
  <2>3. Appended(t, r, ErrorLine, "finish", "got")
    BY <1>1, <1>2, <1>3, <1>4, <2>1, <2>2, PutOutEnds
  <2>4. ASSUME rec'[t].at = "finish", ~rec'[t].failed, rec'[t].out.seq = Append(r.out.seq, ErrorLine)
        PROVE  Ended(rec'[t], log)
    <3>1. r.out.seq = Told(log, r.upto) /\ rec'[t].upto = r.upto
      BY <1>4, <2>3, <2>4 DEF Appended
    <3>2. rec'[t].out.seq = Told(log, rec'[t].upto) \o <<ErrorLine>>
      BY <1>6, <2>2, <2>4, <3>1, SeqEnds
    <3> QED
      BY <2>4, <3>2, WordsAreLines DEF Ended, Finishing
  <2>5. Appended(t, rec[t], ErrorLine, "finish", "got")
    BY <1>1, <2>3
  <2> QED
    BY <1>1, <1>2, <2>2, <2>4, <2>5, AppendGood
<1>8. CASE ~error
  <2>1. rec' = Go(t, "finish") /\ crashed' = crashed
    BY <1>8 DEF OutErrorLine
  <2>2. PICK q : q = [r EXCEPT !.at = "finish"]
    OBVIOUS
  <2>3. q.at = "finish" /\ q.upto = r.upto /\ q.out = r.out /\ q.failed = r.failed
    BY <1>3, <2>2 DEF Outputting
  <2>4. Told(log, r.upto) \o <<>> = Told(log, r.upto)
    BY <1>6
  <2>5. Ended(q, log)
    BY <1>4, <2>3, <2>4, WordsAreLines DEF Ended, Finishing
  <2> QED
    BY <1>1, <1>2, <2>1, <2>2, <2>5, PassGood
<1> QED
  BY <1>7, <1>8

LEMMA OutFinishGood ==
    ASSUME RecInv, OutInv, NEW t \in Threads, OutFinish(t), UNCHANGED call PROVE OutInv'
<1>1. PICK r, log : r = rec[t] /\ log = records.seq
  OBVIOUS
<1>2. /\ r.at = "finish" /\ UNCHANGED <<strings, records, stringsLock, recordsLock, call>>
      /\ DOMAIN rec = Threads
  BY <1>1 DEF OutFinish, OutUnchanged, RecInv, Writers
<1>3. r \in Outputting /\ OutGood(r, log)
  BY <1>1, <1>2 DEF OutInv, Outputs, Outs
<1>4. /\ (r.out.freed => r.failed) /\ r.upto <= Len(log)
      /\ (r.failed \/ Finishing(r, log)) /\ r.upto \in Nat
  BY <1>2, <1>3 DEF OutGood, Outputting
<1>5. log \in Seq(Rows) /\ Len(log) \in Nat
  BY <1>1, LenProperties DEF RecInv, Log
<1>6. Told(log, r.upto) \in Seq(Lines)
  BY <1>4, <1>5, ToldAll
<1>7. \A lost \in Lost : Told(log, r.upto) \o lost \in Seq(Lines)
  <2>1. PICK told : told = Told(log, r.upto)
    OBVIOUS
  <2>2. told \o <<>> \in Seq(Lines) /\ told \o <<ErrorLine>> \in Seq(Lines)
    BY <1>6, <2>1, WordsAreLines, SeqEnds
  <2> QED
    BY <2>1, <2>2 DEF Lost
<1>8. CASE r.to = "string"
  <2>1. PutOut(t, End, 1, "got", "got")
    BY <1>1, <1>8 DEF OutFinish
  <2>2. End \in Lines /\ 1 \in Nat /\ "got" \in Outs
    BY WordsAreLines DEF Outs
  <2>3. Appended(t, r, End, "got", "got")
    BY <1>1, <1>2, <1>3, <1>4, <2>1, <2>2, PutOutEnds
  <2>4. ASSUME rec'[t].at = "got", ~rec'[t].failed, rec'[t].out.seq = Append(r.out.seq, End)
        PROVE  Ended(rec'[t], log)
    <3>1. rec'[t].upto = r.upto /\ rec'[t].to = r.to /\ ~r.failed
      BY <2>3, <2>4 DEF Appended
    <3>2. PICK lost \in Lost : r.out.seq = Told(log, r.upto) \o lost
      BY <1>4, <3>1 DEF Finishing
    <3>3. Append(r.out.seq, End) = r.out.seq \o <<End>>
      BY <1>7, <2>2, <3>2, SeqEnds
    <3>4. rec'[t].out.seq = Told(log, rec'[t].upto) \o lost \o Ending(rec'[t].to)
      BY <1>8, <2>4, <3>1, <3>2, <3>3 DEF Ending
    <3> QED
      BY <2>4, <3>4 DEF Ended, Finished
  <2>5. Appended(t, rec[t], End, "got", "got")
    BY <1>1, <2>3
  <2> QED
    BY <1>1, <1>2, <2>2, <2>4, <2>5, AppendGood
<1>9. CASE r.to # "string"
  <2>1. rec' = Go(t, "got") /\ crashed' = crashed
    BY <1>1, <1>9 DEF OutFinish
  <2>2. PICK q : q = [r EXCEPT !.at = "got"]
    OBVIOUS
  <2>3. q.at = "got" /\ q.upto = r.upto /\ q.out = r.out /\ q.failed = r.failed
    BY <1>3, <2>2 DEF Outputting
  <2>4. q.to = r.to
    BY <1>3, <2>2 DEF Outputting
  <2>5. ASSUME ~r.failed PROVE Finished(q, log)
    <3>1. PICK lost \in Lost : r.out.seq = Told(log, r.upto) \o lost
      BY <1>4, <2>5 DEF Finishing
    <3>2. PICK whole : whole = Told(log, r.upto) \o lost
      OBVIOUS
    <3>3. whole \in Seq(Lines)
      BY <1>7, <3>2
    <3>4. whole \o <<>> = whole
      BY <3>3
    <3>5. q.out.seq = Told(log, q.upto) \o lost \o Ending(q.to)
      BY <1>9, <2>3, <2>4, <3>1, <3>2, <3>4 DEF Ending
    <3> QED
      BY <3>5 DEF Finished
  <2>6. Ended(q, log)
    BY <2>3, <2>5 DEF Ended
  <2> QED
    BY <1>1, <1>2, <2>1, <2>2, <2>6, PassGood
<1> QED
  BY <1>8, <1>9


\* What is added to a buffer fits in it.
LEMMA PutFits ==
    ASSUME NEW buf, NEW max \in Nat, Numbers(buf, max), NEW step \in Nat, NEW n \in Nat, NEW x,
           MayPut(buf, step, max, n)
    PROVE  Numbers(Put(buf, step, x, n), max)
<1>1. PICK c : c = IF HasRoom(buf, n) THEN buf.cap ELSE buf.cap + step
  OBVIOUS
<1>2. /\ {"seq", "cap", "sz"} \subseteq DOMAIN buf
      /\ buf.cap \in Nat /\ buf.sz \in Nat /\ buf.sz <= buf.cap /\ buf.cap <= max
  BY DEF Numbers
<1>3. n <= step /\ (buf.cap - buf.sz >= n \/ buf.cap + step <= max)
      /\ c = IF buf.cap - buf.sz >= n THEN buf.cap ELSE buf.cap + step
  BY <1>1 DEF MayPut, HasRoom
<1>4. c \in Nat /\ buf.sz + n \in Nat /\ buf.sz + n <= c /\ c <= max
  BY <1>2, <1>3
<1>5. PICK b : b = Put(buf, step, x, n)
  OBVIOUS
<1>6. b = [buf EXCEPT !.seq = Append(buf.seq, x), !.sz = buf.sz + n, !.cap = c]
  BY <1>1, <1>2, <1>5 DEF Put
<1>7. DOMAIN b = DOMAIN buf /\ b.sz = buf.sz + n /\ b.cap = c
  BY <1>2, <1>6
<1> QED
  BY <1>2, <1>4, <1>5, <1>7 DEF Numbers

\* A record is added after those that an output has passed.
LEMMA GoodGrows ==
    ASSUME NEW r \in Outputting, NEW log \in Seq(Rows), NEW row \in Rows,
           OutGood(r, log), r.at \notin InRecords
    PROVE  OutGood(r, Append(log, row))
<1>1. PICK more : more = Append(log, row)
  OBVIOUS
<1>2. r.upto \in Nat /\ r.upto <= Len(log)
  BY DEF OutGood, Outputting
<1>3. Len(more) = Len(log) + 1 /\ Len(log) \in Nat
  BY <1>1, AppendProperties, LenProperties
<1>4. Told(more, r.upto) = Told(log, r.upto)
  BY <1>1, <1>2, ToldStays
<1>5. r.upto <= Len(more)
  BY <1>2, <1>3
<1>6. Finishing(r, log) => Finishing(r, more)
  BY <1>4 DEF Finishing
<1>7. Finished(r, log) => Finished(r, more)
  BY <1>4 DEF Finished
<1> QED
  BY <1>1, <1>4, <1>5, <1>6, <1>7 DEF OutGood, InRecords

LEMMA AddingGood ==
    ASSUME RecInv, OutInv, NEW t \in Threads, rec[t].at = "adding",
           UNCHANGED <<stringsLock, recordsLock, crashed, call>>,
           DOMAIN rec' = Threads, \A u \in Threads : u # t => rec'[u] = rec[u],
           \A u \in Threads : rec[u].at \in Outs => OutGood(rec[u], records'.seq),
           \/ rec'[t] = Quiet
           \/ /\ rec'[t].at = "adding" /\ rec'[t].op = rec[t].op /\ rec'[t].ok = rec[t].ok
              /\ rec'[t].stub = rec[t].stub /\ rec'[t].names = rec[t].names,
           Numbers(strings', StringsMax), Numbers(records', RecordsMax)
    PROVE  OutInv'
<1>0. Outputs /\ Locks /\ Duties /\ Crash /\ t # Nobody
  BY DEF OutInv
<1>1. rec'[t].at \notin Outs /\ rec'[t].at \notin InRecords /\ rec'[t].at \notin InStrings
      /\ rec[t].at \notin Outs /\ rec[t].at \notin InRecords /\ rec[t].at \notin InStrings
  BY QuietIs, OutsAre
<1>2. Outputs'
  BY <1>0, <1>1 DEF Outputs
<1>3. Locks'
  BY <1>0, <1>1 DEF Locks
<1>4. ASSUME NEW u \in Threads PROVE Duty(u)'
  <2>1. CASE u = t
    <3>1. CASE rec'[t] = Quiet
      BY <1>1, <2>1, <3>1, QuietIs DEF Duty
    <3>2. CASE rec'[t] # Quiet
      <4>1. Duty(t) /\ call' = call
        BY <1>0 DEF Duties
      <4> QED
        BY <1>1, <2>1, <3>2, <4>1 DEF Duty
    <3> QED
      BY <3>1, <3>2
  <2>2. CASE u # t
    <3>1. call'[u] = call[u] /\ rec'[u] = rec[u] /\ Duty(u)
      BY <1>0, <2>2 DEF Duties
    <3> QED
      BY <3>1 DEF Duty
  <2> QED
    BY <2>1, <2>2
<1>5. Crash'
  <2>1. SUFFICES ASSUME crashed PROVE \E u \in Threads : rec'[u].at \in Outs /\ rec'[u].failed
    BY DEF Crash
  <2>2. PICK u \in Threads : rec[u].at \in Outs /\ rec[u].failed
    BY <1>0, <2>1 DEF Crash
  <2>3. rec'[u] = rec[u]
    BY <1>1, <2>2
  <2> QED
    BY <2>2, <2>3
<1>6. Buffers'
  BY DEF Buffers
<1> QED
  BY <1>2, <1>3, <1>4, <1>5, <1>6 DEF OutInv, Duties

LEMMA AddStrGood ==
    ASSUME RecInv, OutInv, NEW t \in Threads, AddStr(t), UNCHANGED call PROVE OutInv'
<1>1. PICK r : r = rec[t]
  OBVIOUS
<1>2. PICK s : s = r.names[Len(r.idx) + 1]
  OBVIOUS
<1>3. /\ r.at = "adding" /\ Len(r.idx) < Len(r.names)
      /\ UNCHANGED <<records, stringsLock, recordsLock, crashed>> /\ DOMAIN rec = Threads
  BY <1>1 DEF AddStr, RecInv, Writers
<1>4. r \in Adding
  BY <1>1, <1>3 DEF RecInv, Writers
<1>5. s \in DOMAIN StrSize
  <2>1. r.names \in Seq(Names) /\ r.idx \in Seq(Nat)
    BY <1>4 DEF Adding
  <2>2. Len(r.idx) + 1 \in DOMAIN r.names
    BY <1>3, <2>1, LenProperties
  <2>3. Duty(t)
    BY DEF OutInv, Duties
  <2> QED
    BY <1>1, <1>2, <1>3, <2>2, <2>3 DEF Duty
<1>6. StrSize[s] \in Nat /\ StringsStep \in Nat /\ StringsMax \in Nat
  BY <1>5, SizeAssumption
<1>7. /\ Numbers(strings, StringsMax) /\ Numbers(records, RecordsMax)
      /\ \A u \in Threads : rec[u].at \in Outs => OutGood(rec[u], records.seq)
  BY DEF OutInv, Buffers, Outputs
<1>8. Numbers(strings', StringsMax)
  <2>1. \/ strings' = strings
        \/ /\ MayPut(strings, StringsStep, StringsMax, StrSize[s])
           /\ strings' = Put(strings, StringsStep, s, StrSize[s])
    BY <1>1, <1>2 DEF AddStr
  <2> QED
    BY <1>6, <1>7, <2>1, PutFits
<1>9. CASE rec' = [rec EXCEPT ![t] = Quiet]
  <2>1. DOMAIN rec' = Threads /\ rec'[t] = Quiet /\ \A u \in Threads : u # t => rec'[u] = rec[u]
    BY <1>3, <1>9
  <2> QED
    BY <1>1, <1>3, <1>7, <1>8, <2>1, AddingGood
<1>10. CASE \E i : rec' = [rec EXCEPT ![t].idx = Append(@, i)]
  <2>1. PICK i : rec' = [rec EXCEPT ![t].idx = Append(@, i)]
    BY <1>10
  <2>2. PICK q : q = [r EXCEPT !.idx = Append(r.idx, i)]
    OBVIOUS
  <2>3. DOMAIN rec' = Threads /\ rec'[t] = q /\ \A u \in Threads : u # t => rec'[u] = rec[u]
    BY <1>1, <1>3, <2>1, <2>2
  <2>4. q.at = "adding" /\ q.op = r.op /\ q.ok = r.ok
    BY <1>3, <1>4, <2>2 DEF Adding
  <2>5. q.stub = r.stub /\ q.names = r.names
    BY <1>4, <2>2 DEF Adding
  <2> QED
    BY <1>1, <1>3, <1>7, <1>8, <2>3, <2>4, <2>5, AddingGood
<1>11. \/ rec' = [rec EXCEPT ![t] = Quiet]
       \/ \E i : rec' = [rec EXCEPT ![t].idx = Append(@, i)]
  BY DEF AddStr, Indexed, GiveUp
<1> QED
  BY <1>9, <1>10, <1>11

LEMMA AddRecordGood ==
    ASSUME RecInv, OutInv, NEW t \in Threads, AddRecord(t), UNCHANGED call PROVE OutInv'
<1>1. PICK r, log : r = rec[t] /\ log = records.seq
  OBVIOUS
<1>2. /\ r.at = "adding" /\ recordsLock = Nobody /\ UNCHANGED <<strings, stringsLock, recordsLock, crashed>>
      /\ DOMAIN rec = Threads /\ rec' = [rec EXCEPT ![t] = Quiet]
  BY <1>1 DEF AddRecord, GiveUp, RecInv, Writers
<1>3. r \in Adding /\ log \in Seq(Rows) /\ "seq" \in DOMAIN records
  BY <1>1, <1>2 DEF RecInv, Writers, Log
<1>4. /\ Numbers(strings, StringsMax) /\ Numbers(records, RecordsMax)
      /\ \A u \in Threads : rec[u].at \in Outs => rec[u] \in Outputting /\ OutGood(rec[u], log)
  BY <1>1 DEF OutInv, Buffers, Outputs
<1>5. DOMAIN rec' = Threads /\ rec'[t] = Quiet /\ \A u \in Threads : u # t => rec'[u] = rec[u]
  BY <1>2
<1>6. CASE records' = records
  BY <1>1, <1>2, <1>4, <1>5, <1>6, AddingGood
<1>7. CASE records' # records
  <2>1. PICK row : row = [op |-> r.op, ok |-> r.ok, stub |-> r.stub, idx |-> r.idx, names |-> r.names]
    OBVIOUS
  <2>2. PICK n : n = IF r.op = "hook" THEN HookSize ELSE UnhookSize
    OBVIOUS
  <2>3. MayPut(records, RecordsStep, RecordsMax, n) /\ records' = Put(records, RecordsStep, row, n)
    BY <1>1, <1>7, <2>1, <2>2 DEF AddRecord
  <2>4. n \in Nat /\ RecordsStep \in Nat /\ RecordsMax \in Nat
    BY <2>2, SizeAssumption
  <2>5. Numbers(records', RecordsMax)
    BY <1>4, <2>3, <2>4, PutFits
  <2>6. row \in Rows
    BY <1>3, <2>1 DEF Adding, Rows
  <2>7. records'.seq = Append(log, row)
    BY <1>1, <1>3, <2>3 DEF Put
  <2>8. ASSUME NEW u \in Threads, rec[u].at \in Outs PROVE OutGood(rec[u], records'.seq)
    <3>1. rec[u].at \notin InRecords
      BY <1>2 DEF OutInv, Locks
    <3>2. rec[u] \in Outputting /\ OutGood(rec[u], log)
      BY <1>4, <2>8
    <3> QED
      BY <1>3, <2>6, <2>7, <3>1, <3>2, GoodGrows
  <2> QED
    BY <1>1, <1>2, <1>4, <1>5, <2>5, <2>8, AddingGood
<1> QED
  BY <1>6, <1>7


LEMMA RecordingGood ==
    ASSUME RecInv, OutInv, NEW t \in Threads, RecorderStep(t), UNCHANGED call PROVE OutInv'
BY AddStrGood, AddRecordGood, LockRecordsGood, LockStringsGood, OutLineGood, OutUnlockGood,
   OutErrorLineGood, OutFinishGood DEF RecorderStep

\* A call enters the recorder, or leaves it.
LEMMA CallGood ==
    ASSUME OutInv, NEW t \in Threads, ~crashed, ~crashed', CallStep(t),
           UNCHANGED <<strings, records, stringsLock, recordsLock>>,
           \A u \in Threads : u # t => rec'[u] = rec[u],
           rec[t].at \notin InRecords, rec'[t].at \notin InRecords, Duty(t)',
           rec'[t].at \in Outs => rec'[t] \in Outputting /\ OutGood(rec'[t], records.seq)
    PROVE  OutInv'
<1>1. Outputs /\ Locks /\ Duties /\ Buffers /\ t # Nobody
  BY DEF OutInv
<1>2. Outputs'
  BY <1>1 DEF Outputs
<1>3. rec[t].at \notin InStrings /\ rec'[t].at \notin InStrings
  BY OutsAre
<1>4. Locks'
  BY <1>1, <1>3 DEF Locks
<1>5. ASSUME NEW u \in Threads PROVE Duty(u)'
  <2>1. CASE u = t
    BY <2>1
  <2>2. CASE u # t
    <3>1. call'[u] = call[u] /\ rec'[u] = rec[u] /\ Duty(u)
      BY <1>1, <2>2 DEF CallStep, Duties
    <3> QED
      BY <3>1 DEF Duty
  <2> QED
    BY <2>1, <2>2
<1>6. Crash' /\ Buffers'
  BY <1>1 DEF Crash, Buffers
<1> QED
  BY <1>2, <1>4, <1>5, <1>6 DEF OutInv, Duties

\* A hook or an unhook hands its names to the recorder.
LEMMA RecordGood ==
    ASSUME RecInv, OutInv, NEW t \in Threads, ~crashed, ~crashed', CallStep(t), rec[t] = Quiet,
           UNCHANGED <<strings, records, stringsLock, recordsLock>>,
           NEW op \in {"hook", "unhook"}, NEW ok, NEW names,
           \A k \in DOMAIN names : names[k] \in DOMAIN StrSize,
           Record(t, op, ok, call'[t].stub, names), call'[t].ok = ok,
           call'[t].at = IF op = "hook" THEN "hook recorded" ELSE "unhook recorded"
    PROVE  OutInv'
<1>1. DOMAIN rec = Threads
  BY DEF RecInv, Writers
<1>2. rec[t].at \notin InRecords
  BY QuietIs, OutsAre
<1>3. CASE rec' = rec
  <2>1. rec'[t] = Quiet
    BY <1>3
  <2>2. Duty(t)'
    BY <2>1, QuietIs, OutsAre DEF Duty
  <2>3. rec'[t].at \notin InRecords /\ rec'[t].at \notin Outs
    BY <2>1, QuietIs, OutsAre
  <2> QED
    BY <1>2, <1>3, <2>2, <2>3, CallGood
<1>4. CASE rec' # rec
  <2>1. PICK q : q = [at |-> "adding", op |-> op, ok |-> ok, stub |-> call'[t].stub,
                      names |-> names, idx |-> <<>>]
    OBVIOUS
  <2>2. q.at = "adding" /\ q.op = op /\ q.ok = ok /\ q.stub = call'[t].stub /\ q.names = names
    BY <2>1
  <2>3. rec' = [rec EXCEPT ![t] = q]
    BY <1>4, <2>1 DEF Record
  <2>4. rec'[t] = q /\ \A u \in Threads : u # t => rec'[u] = rec[u]
    BY <1>1, <2>3
  <2>5. Duty(t)'
    BY <2>2, <2>4, OutsAre DEF Duty, Recorded
  <2>6. rec'[t].at \notin InRecords /\ rec'[t].at \notin Outs
    BY <2>2, <2>4, OutsAre
  <2> QED
    BY <1>2, <2>4, <2>5, <2>6, CallGood
<1> QED
  BY <1>3, <1>4

LEMMA HookRecordGood ==
    ASSUME Typed, RecInv, OutInv, TaskInv, NEW t \in Threads, HookSwitch(t) PROVE OutInv'
<1>1. PICK a : a = call[t].arg
  OBVIOUS
<1>2. PICK ok \in BOOLEAN :
        /\ Record(t, "hook", ok, call[t].stub, <<"lib", a, CallerLib(t)>>)
        /\ CallStep(t) /\ call'[t] = [call[t] EXCEPT !.at = "hook recorded", !.ok = ok]
  <2>1. PICK ok \in BOOLEAN :
          /\ Record(t, "hook", ok, call[t].stub, <<"lib", a, CallerLib(t)>>)
          /\ call' = [call EXCEPT ![t].at = "hook recorded", ![t].ok = ok]
    <3> HIDE DEF Record, CallerLib
    <3> QED
      BY <1>1 DEF HookSwitch
  <2>2. PICK c : c = [call[t] EXCEPT !.at = "hook recorded", !.ok = ok]
    OBVIOUS
  <2>3. c \in Calls
    BY <2>2 DEF Typed, Calls, CallPoints
  <2>4. call' = [call EXCEPT ![t] = c]
    BY <2>1, <2>2 DEF Typed
  <2>5. CallStep(t) /\ call'[t] = c
    BY <2>3, <2>4, StepOfCall
  <2> QED
    BY <2>1, <2>2, <2>5
<1>3. /\ call[t].at = "hook switch" /\ ~crashed
      /\ UNCHANGED <<strings, records, stringsLock, recordsLock, crashed>>
  BY DEF HookSwitch, At
<1>4. rec[t] = Quiet
  BY <1>3, QuietCalls DEF Recorded
<1>5. call[t] \in Calls
  BY DEF Typed
<1>6. call'[t].stub = call[t].stub /\ call'[t].at = "hook recorded"
  BY <1>2, <1>5 DEF Calls
<1>7. call'[t].ok = ok
  BY <1>2, <1>5 DEF Calls
<1>8. PICK names : names = <<"lib", a, CallerLib(t)>>
  OBVIOUS
<1>9. a \in Funcs
  BY <1>1, <1>3 DEF TaskInv, Mine, MineOf
<1>10. \A k \in DOMAIN names : names[k] \in DOMAIN StrSize
  BY <1>8, <1>9, StringsAssumption DEF CallerLib
<1>11. Record(t, "hook", ok, call'[t].stub, names)
  BY <1>2, <1>6, <1>8
<1> QED
  BY <1>2, <1>3, <1>4, <1>6, <1>7, <1>10, <1>11, RecordGood

LEMMA UnhookRecordGood ==
    ASSUME Typed, RecInv, OutInv, NEW t \in Threads, UnhookSwitch(t) PROVE OutInv'
<1>1. PICK s : s = call[t].arg
  OBVIOUS
<1>2. PICK ok \in BOOLEAN :
        /\ Record(t, "unhook", ok, s, <<CallerLib(t)>>)
        /\ CallStep(t) /\ call'[t] = [call[t] EXCEPT !.at = "unhook recorded", !.stub = s, !.ok = ok]
  <2> HIDE DEF Record, CallStep, CallerLib, UnhookSwitch, Typed
  <2> QED
    BY <1>1, UnhookSwitchChanges, Zenon
<1>3. /\ call[t].at = "unhook" /\ ~crashed
      /\ UNCHANGED <<strings, records, stringsLock, recordsLock, crashed>>
  BY DEF UnhookSwitch, At
<1>4. rec[t] = Quiet
  BY <1>3, QuietCalls DEF Recorded
<1>5. call[t] \in Calls
  BY DEF Typed
<1>6. call'[t].stub = s /\ call'[t].at = "unhook recorded"
  BY <1>2, <1>5 DEF Calls
<1>7. call'[t].ok = ok
  BY <1>2, <1>5 DEF Calls
<1>8. PICK names : names = <<CallerLib(t)>>
  OBVIOUS
<1>9. \A k \in DOMAIN names : names[k] \in DOMAIN StrSize
  BY <1>8, StringsAssumption DEF CallerLib
<1>10. Record(t, "unhook", ok, call'[t].stub, names)
  BY <1>2, <1>6, <1>8
<1> QED
  BY <1>2, <1>3, <1>4, <1>6, <1>7, <1>9, <1>10, RecordGood

LEMMA GetGood ==
    ASSUME Typed, RecInv, OutInv, NEW t \in Threads, GetRecords(t), call[t].arg \in {"string", "fd"}
    PROVE  OutInv'
<1>1. /\ CallStep(t) /\ call[t].at = "records" /\ call'[t] = [call[t] EXCEPT !.at = "records got"]
      /\ ~crashed /\ UNCHANGED <<strings, records, stringsLock, recordsLock, crashed>>
      /\ Output(t, call[t].arg) /\ DOMAIN rec = Threads
  BY PlainChanges DEF GetRecords, At, RecInv, Writers
<1>2. rec[t] = Quiet /\ rec[t].at \notin InRecords
  BY <1>1, QuietCalls, QuietIs, OutsAre DEF Recorded
<1>a. call[t] \in Calls
  BY DEF Typed
<1>3. call'[t].at = "records got"
  BY <1>1, <1>a DEF Calls
<1>4. CASE rec' = rec
  <2>1. rec'[t] = Quiet
    BY <1>2, <1>4
  <2>2. Duty(t)'
    BY <2>1, QuietIs, OutsAre DEF Duty
  <2>3. rec'[t].at \notin InRecords /\ rec'[t].at \notin Outs
    BY <2>1, QuietIs, OutsAre
  <2> QED
    BY <1>1, <1>2, <1>4, <2>2, <2>3, CallGood
<1>5. CASE rec' # rec
  <2>1. PICK q : q = [at |-> "lock records", to |-> call[t].arg, out |-> NoOutput,
                      i |-> 1, upto |-> 0, failed |-> FALSE]
    OBVIOUS
  <2>2. rec' = [rec EXCEPT ![t] = q]
    BY <1>1, <1>5, <2>1 DEF Output
  <2>3. rec'[t] = q /\ \A u \in Threads : u # t => rec'[u] = rec[u]
    BY <1>1, <2>2
  <2>4. NoOutput \in OutBufs /\ NoOutput.seq = <<>> /\ NoOutput.freed = FALSE
    BY EmptySeq DEF NoOutput, OutBufs
  <2>5. q \in Outputting
    BY <2>1, <2>4 DEF Outputting, Outs
  <2>6. q.at = "lock records" /\ q.i = 1 /\ q.upto = 0 /\ q.failed = FALSE /\ q.out = NoOutput
    BY <2>1
  <2>7. OutGood(q, records.seq)
    <3>1. Len(records.seq) \in Nat
      BY LenProperties DEF RecInv, Log
    <3>2. q.upto <= Len(records.seq)
      <4>1. q.upto = 0
        BY <2>6
      <4> QED
        BY <3>1, <4>1
    <3> QED
      BY <2>4, <2>6, <3>2 DEF OutGood
  <2>8. Duty(t)'
    BY <1>3, <2>3, <2>6 DEF Duty, Outs
  <2>9. q.at \notin InRecords
    BY <2>6 DEF InRecords
  <2> QED
    BY <1>1, <1>2, <2>3, <2>5, <2>7, <2>8, <2>9, CallGood
<1> QED
  BY <1>4, <1>5

LEMMA GotGood ==
    ASSUME Typed, RecInv, OutInv, NEW t \in Threads, GotRecords(t) PROVE OutInv'
<1>1. /\ CallStep(t) /\ ~crashed /\ UNCHANGED <<strings, records, stringsLock, recordsLock, crashed>>
      /\ rec[t].at \in {"quiet", "got"} /\ rec' = [rec EXCEPT ![t] = Quiet] /\ DOMAIN rec = Threads
  BY PlainChanges DEF GotRecords, At, RecInv, Writers
<1>2. rec'[t] = Quiet /\ \A u \in Threads : u # t => rec'[u] = rec[u]
  BY <1>1
<1>3. rec[t].at \notin InRecords
  BY <1>1 DEF InRecords
<1>4. Duty(t)'
  BY <1>2, QuietIs, OutsAre DEF Duty
<1>5. rec'[t].at \notin InRecords /\ rec'[t].at \notin Outs
  BY <1>2, QuietIs, OutsAre
<1> QED
  BY <1>1, <1>2, <1>3, <1>4, <1>5, CallGood

LEMMA SetGood ==
    ASSUME Typed, RecInv, OutInv, NEW t \in Threads, SetRecordable(t) PROVE OutInv'
<1>1. /\ CallStep(t) /\ ~crashed /\ UNCHANGED <<strings, records, stringsLock, recordsLock, crashed, rec>>
      /\ call[t].at = "set recordable"
  BY PlainChanges DEF SetRecordable, At
<1>2. rec[t] = Quiet /\ rec'[t] = Quiet
  BY <1>1, QuietCalls DEF Recorded
<1>3. Duty(t)'
  BY <1>2, QuietIs, OutsAre DEF Duty
<1>4. rec'[t].at \notin InRecords /\ rec'[t].at \notin Outs /\ rec[t].at \notin InRecords
  BY <1>2, QuietIs, OutsAre
<1> QED
  BY <1>1, <1>2, <1>3, <1>4, CallGood


\* What a call is about, and when it has a task.
ArgsOf(t) ==
    /\ call[t].at \in {"init", "init lock"} /\ call[t].back # "Hooker" =>
         call[t].arg \in {"shared", "unique"}
    /\ call[t].at = "set model" => call[t].arg \in {"dobby", "shadowhook"}
    /\ call[t].at = "records" => call[t].arg \in {"string", "fd"}
    /\ call[t].at \notin Busy => call[t].stub = NULL
ArgsInv == \A t \in Threads : ArgsOf(t)

\* The steps that touch neither the recorder nor a task.
Quietly(t) ==
    /\ CallStep(t) /\ UNCHANGED <<recorderVars, tasks>>
    /\ call[t].at \notin Busy /\ call[t].at # "records got" /\ call'[t].at \notin Busy

LEMMA QuietEnds ==
    ASSUME Typed, NEW t \in Threads, ArgsOf(t), CallStep(t), UNCHANGED <<recorderVars, tasks>>,
           call[t].at \notin Busy, call[t].at # "records got", call'[t] = Idle
    PROVE  Quietly(t) /\ ArgsOf(t)'
<1>1. Idle.at = "idle" /\ Idle.stub = NULL
  BY DEF Idle
<1>2. call'[t].at = "idle" /\ call'[t].stub = NULL
  BY <1>1
<1> QED
  BY <1>2 DEF Quietly, ArgsOf, Busy

LEMMA QuietMoves ==
    ASSUME Typed, NEW t \in Threads, ArgsOf(t), CallStep(t), UNCHANGED <<recorderVars, tasks>>,
           call[t].at \notin Busy, call[t].at # "records got",
           call'[t].at \in {"Hooker list", "init mods", "hook", "unhook"}, call'[t].stub = call[t].stub
    PROVE  Quietly(t) /\ ArgsOf(t)'
BY DEF Quietly, ArgsOf, Busy

LEMMA QuietBegin ==
    ASSUME Typed, NEW t \in Threads, ArgsOf(t), NEW w, NEW x, Begin(t, w, x),
           BegunByMain(w, x) \/ BegunByUser(t, w, x)
    PROVE  Quietly(t) /\ ArgsOf(t)'
<1>1. w \in CallPoints /\ x \in Args
  BY BegunIsCall
<1>2. call[t].at = "idle" /\ CallStep(t) /\ call'[t].at = w /\ call'[t].arg = x
  BY <1>1, BeginChanges
<1>3. UNCHANGED <<recorderVars, tasks>> /\ call' = [call EXCEPT ![t].at = w, ![t].arg = x]
  BY DEF Begin, hookVars
<1>4. call'[t].stub = call[t].stub
  BY <1>3 DEF Typed, Calls
<1>5. w \notin Busy
  BY DEF BegunByMain, BegunByUser, Busy
<1>6. call[t].at \notin Busy /\ call[t].at # "records got"
  BY <1>2 DEF Busy
<1>7. call'[t].stub = NULL
  BY <1>4, <1>6 DEF ArgsOf
<1>8. /\ w \in {"init", "init lock"} => x \in {"shared", "unique"}
      /\ w = "set model" => x \in {"dobby", "shadowhook"}
      /\ w = "records" => x \in {"string", "fd"}
  BY DEF BegunByMain, BegunByUser
<1> QED
  BY <1>2, <1>3, <1>5, <1>6, <1>7, <1>8 DEF Quietly, ArgsOf

LEMMA QuietReturn ==
    ASSUME Typed, NEW t \in Threads, ArgsOf(t), UNCHANGED <<recorderVars, tasks>>, NEW r, InitReturn(t, r),
           call[t].at \in {"init", "init lock", "init mods"}
    PROVE  Quietly(t) /\ ArgsOf(t)'
<1>1. CallStep(t) /\ (call'[t] = Idle \/ call'[t] = [call[t] EXCEPT !.at = "Hooker list"])
  BY InitReturnChanges
<1>2. call[t].at \notin Busy /\ call[t].at # "records got" /\ call[t] \in Calls
  BY DEF Busy, Typed
<1>3. CASE call'[t] = Idle
  BY <1>1, <1>2, <1>3, QuietEnds
<1>4. CASE call'[t] = [call[t] EXCEPT !.at = "Hooker list"]
  <2>1. call'[t].at = "Hooker list" /\ call'[t].stub = call[t].stub
    BY <1>2, <1>4 DEF Calls
  <2> QED
    BY <1>1, <1>2, <2>1, QuietMoves
<1> QED
  BY <1>1, <1>3, <1>4

LEMMA QuietInit ==
    ASSUME Typed, NEW t \in Threads, ArgsOf(t), InitCheck(t) \/ InitBody(t) \/ InitEnd(t)
    PROVE  Quietly(t) /\ ArgsOf(t)'
<1>0. call[t] \in Calls
  BY DEF Typed
<1>1. CASE InitCheck(t)
  <2>1. /\ call[t].at = "init" /\ UNCHANGED <<recorderVars, tasks>>
        /\ \/ CallStep(t) /\ call'[t] = [call[t] EXCEPT !.at = "init lock"]
           \/ InitReturn(t, initErrno)
    BY <1>1, InitCheckChanges DEF hookVars
  <2>2. CASE InitReturn(t, initErrno)
    BY <2>1, <2>2, QuietReturn
  <2>3. CASE CallStep(t) /\ call'[t] = [call[t] EXCEPT !.at = "init lock"]
    <3>1. call'[t].at = "init lock" /\ call'[t].stub = call[t].stub
      BY <1>0, <2>3 DEF Calls
    <3>2. call'[t].arg = call[t].arg /\ call'[t].back = call[t].back
      BY <1>0, <2>3 DEF Calls
    <3> QED
      BY <2>1, <2>3, <3>1, <3>2 DEF Quietly, ArgsOf, Busy
  <2> QED
    BY <2>1, <2>2, <2>3
<1>2. CASE InitBody(t)
  <2>1. /\ call[t].at = "init lock" /\ UNCHANGED <<recorderVars, tasks>>
        /\ \/ CallStep(t) /\ call'[t] = [call[t] EXCEPT !.at = "init mods"]
           \/ InitReturn(t, initErrno)
    BY <1>2, InitBodyChanges DEF hookVars
  <2>2. CASE InitReturn(t, initErrno)
    BY <2>1, <2>2, QuietReturn
  <2>3. CASE CallStep(t) /\ call'[t] = [call[t] EXCEPT !.at = "init mods"]
    <3>1. call'[t].at = "init mods" /\ call'[t].stub = call[t].stub
      BY <1>0, <2>3 DEF Calls
    <3>2. call[t].at \notin Busy /\ call[t].at # "records got"
      BY <2>1 DEF Busy
    <3> QED
      BY <2>1, <2>3, <3>1, <3>2, QuietMoves
  <2> QED
    BY <2>1, <2>2, <2>3
<1>3. CASE InitEnd(t)
  <2>1. /\ call[t].at = "init mods" /\ UNCHANGED <<recorderVars, tasks>>
        /\ \E r : InitReturn(t, r)
    BY <1>3 DEF InitEnd, At, hookVars
  <2> QED
    BY <2>1, QuietReturn
<1> QED
  BY <1>1, <1>2, <1>3

LEMMA QuietUtils ==
    ASSUME Typed, ArgsOf(Main), Hooker \/ HookerHook \/ UnHook \/ SetHookerModle
    PROVE  Quietly(Main) /\ ArgsOf(Main)'
<1>0. call[Main] \in Calls
  BY DEF Typed
<1>1. /\ UNCHANGED <<recorderVars, tasks>>
      /\ call[Main].at \in {"Hooker", "Hooker list", "unHook", "set model"}
  BY DEF Hooker, HookerHook, UnHook, SetHookerModle, At, hookVars
<1>2. call[Main].at \notin Busy /\ call[Main].at # "records got"
  BY <1>1 DEF Busy
<1>3. CallStep(Main)
  BY HookerChanges, HookerHookChanges, UnHookChanges, SetHookerModleChanges
<1>4. CASE call'[Main] = Idle
  BY <1>1, <1>2, <1>3, <1>4, QuietEnds
<1>5. CASE \/ call'[Main] = [call[Main] EXCEPT !.at = "Hooker list"]
           \/ call'[Main] = [call[Main] EXCEPT !.at = "hook", !.back = "Hooker"]
           \/ \E x : call'[Main] = [call[Main] EXCEPT !.at = "unhook", !.arg = x, !.back = "unHook"]
  <2>1. call'[Main].at \in {"Hooker list", "hook", "unhook"}
    BY <1>0, <1>5 DEF Calls
  <2>2. call'[Main].stub = call[Main].stub
    BY <1>0, <1>5 DEF Calls
  <2> QED
    BY <1>1, <1>2, <1>3, <2>1, <2>2, QuietMoves
<1>6. CASE call'[Main] = [call[Main] EXCEPT !.at = "init", !.back = "Hooker"]
  <2>1. call'[Main].at = "init" /\ call'[Main].back = "Hooker"
    BY <1>0, <1>6 DEF Calls
  <2>2. call'[Main].stub = call[Main].stub
    BY <1>0, <1>6 DEF Calls
  <2> QED
    BY <1>1, <1>2, <1>3, <2>1, <2>2 DEF Quietly, ArgsOf, Busy
<1>7. CASE Hooker
  BY <1>4, <1>5, <1>6, <1>7, HookerChanges
<1>8. CASE HookerHook
  BY <1>4, <1>5, <1>8, HookerHookChanges
<1>9. CASE UnHook
  <2>1. CASE call'[Main] # Idle
    <3>1. PICK i \in DOMAIN hookedList :
            call'[Main] = [call[Main] EXCEPT !.at = "unhook", !.arg = hookedList[i].ret,
                                             !.back = "unHook"]
      BY <1>9, <2>1, UnHookChanges
    <3> QED
      BY <1>5, <3>1
  <2> QED
    BY <1>4, <2>1
<1>10. CASE SetHookerModle
  BY <1>4, <1>10, SetHookerModleChanges
<1> QED
  BY <1>7, <1>8, <1>9, <1>10

\* A hook that cannot be made ends at once; the other steps are those of a hook, of
\* an unhook, and of the recorder.
Loud(t) ==
    \/ \E s \in Stubs :
         /\ call[t].at = "hook" /\ Free(s) /\ tasks' = [tasks EXCEPT ![s] = Task(t, call[t].arg)]
         /\ CallStep(t) /\ call'[t] = [call[t] EXCEPT !.at = "hook switch", !.stub = s]
         /\ UNCHANGED recorderVars
    \/ HookSwitch(t) \/ HookEnd(t) \/ UnhookSwitch(t) \/ UnhookEnd(t)
    \/ GetRecords(t) \/ GotRecords(t) \/ SetRecordable(t) \/ Recording(t)

LEMMA QuietOrLoud ==
    ASSUME Typed, NEW t \in Threads, ArgsOf(t), Step(t)
    PROVE  (Quietly(t) /\ ArgsOf(t)') \/ Loud(t)
<1>1. CASE HookCreate(t)
  <2>1. call[t].at = "hook" /\ UNCHANGED recorderVars
    BY <1>1, HookCreateChanges
  <2>2. CASE HookReturn(t, FALSE) /\ UNCHANGED tasks
    <3>1. CallStep(t) /\ call'[t] = Idle
      BY <2>2, HookReturnChanges
    <3>2. call[t].at \notin Busy /\ call[t].at # "records got"
      BY <2>1 DEF Busy
    <3> QED
      BY <2>1, <2>2, <3>1, <3>2, QuietEnds
  <2>3. CASE ~(HookReturn(t, FALSE) /\ UNCHANGED tasks)
    <3>1. PICK s \in Stubs :
            /\ Free(s) /\ tasks' = [tasks EXCEPT ![s] = [by |-> t, addr |-> call[t].arg]]
            /\ CallStep(t) /\ call'[t] = [call[t] EXCEPT !.at = "hook switch", !.stub = s]
      BY <1>1, <2>3, HookCreateChanges
    <3> QED
      BY <2>1, <3>1 DEF Loud, Task
  <2> QED
    BY <2>2, <2>3
<1>2. CASE InitCheck(t) \/ InitBody(t) \/ InitEnd(t)
  BY <1>2, QuietInit
<1>3. CASE t = Main /\ (Hooker \/ HookerHook \/ UnHook \/ SetHookerModle)
  BY <1>3, QuietUtils
<1> QED
  BY <1>1, <1>2, <1>3 DEF Step, Loud

LEMMA QuietGood ==
    ASSUME OutInv, NEW t \in Threads, Quietly(t) PROVE OutInv'
<1>1. rec[t] = Quiet
  BY QuietCalls DEF Quietly, Busy, Recorded
<1> QED
  BY <1>1, OutStaysQuiet DEF Quietly


LEMMA ArgsStay ==
    ASSUME ArgsInv, NEW t \in Threads, CallStep(t), ArgsOf(t)' PROVE ArgsInv'
<1>1. ASSUME NEW u \in Threads, u # t PROVE ArgsOf(u)'
  <2>1. call'[u] = call[u] /\ ArgsOf(u)
    BY <1>1 DEF CallStep, ArgsInv
  <2> QED
    BY <2>1 DEF ArgsOf
<1> QED
  BY <1>1 DEF ArgsInv

\* How a loud step changes the call.
LEMMA LoudCalls ==
    ASSUME Typed, NEW t \in Threads, Loud(t)
    PROVE  \/ CallStep(t) /\ call'[t].at \in Busy
           \/ CallStep(t) /\ call'[t] = Idle
           \/ /\ CallStep(t) /\ call[t].at = "records" /\ call'[t].at = "records got"
              /\ call'[t].stub = call[t].stub
           \/ UNCHANGED call
<1>0. call[t] \in Calls
  BY DEF Typed
<1>1. CASE \E s : CallStep(t) /\ call'[t] = [call[t] EXCEPT !.at = "hook switch", !.stub = s]
  BY <1>0, <1>1 DEF Calls, Busy
<1>2. CASE HookSwitch(t)
  <2>1. \E ok : CallStep(t) /\ call'[t] = [call[t] EXCEPT !.at = "hook recorded", !.ok = ok]
    BY <1>2, HookSwitchChanges
  <2> QED
    BY <1>0, <2>1 DEF Calls, Busy
<1>3. CASE UnhookSwitch(t)
  <2>0. PICK s : s = call[t].arg
    OBVIOUS
  <2>1. \E ok : CallStep(t) /\ call'[t] = [call[t] EXCEPT !.at = "unhook recorded", !.stub = s, !.ok = ok]
    <3> HIDE DEF CallStep
    <3> QED
      BY <1>3, <2>0, UnhookSwitchChanges, Zenon
  <2> QED
    BY <1>0, <2>1 DEF Calls, Busy
<1>4. CASE HookEnd(t)
  <2>1. HookReturn(t, call[t].ok) /\ call[t].ok \in BOOLEAN
    BY <1>0, <1>4 DEF HookEnd, Calls
  <2> QED
    BY <2>1, HookReturnChanges
<1>5. CASE UnhookEnd(t)
  <2>1. UnhookReturn(t)
    BY <1>5 DEF UnhookEnd
  <2> QED
    BY <2>1, UnhookReturnChanges
<1>6. CASE GetRecords(t)
  <2>1. CallStep(t) /\ call[t].at = "records" /\ call'[t] = [call[t] EXCEPT !.at = "records got"]
    BY <1>6, PlainChanges
  <2>2. call'[t].at = "records got"
    BY <1>0, <2>1 DEF Calls
  <2>3. call'[t].stub = call[t].stub
    BY <1>0, <2>1 DEF Calls
  <2> QED
    BY <2>1, <2>2, <2>3
<1>7. CASE GotRecords(t) \/ SetRecordable(t)
  BY <1>7, PlainChanges
<1>8. CASE Recording(t)
  BY <1>8, PlainChanges
<1> QED
  BY <1>1, <1>2, <1>3, <1>4, <1>5, <1>6, <1>7, <1>8 DEF Loud

LEMMA StepArgs ==
    ASSUME OnceInv, ArgsInv, [Next]_vars PROVE ArgsInv'
<1>0. Typed
  BY DEF OnceInv
<1>1. ASSUME NEW t \in Threads, NEW w, NEW x, Begin(t, w, x), BegunByMain(w, x) \/ BegunByUser(t, w, x)
      PROVE  ArgsInv'
  <2>1. Quietly(t) /\ ArgsOf(t)'
    BY <1>0, <1>1, QuietBegin DEF ArgsInv
  <2> QED
    BY <2>1, ArgsStay DEF Quietly
<1>2. ASSUME NEW t \in Threads, Step(t) PROVE ArgsInv'
  <2>1. CASE Quietly(t) /\ ArgsOf(t)'
    BY <2>1, ArgsStay DEF Quietly
  <2>2. CASE Loud(t)
    <3>1. CASE CallStep(t) /\ call'[t].at \in Busy
      <4>1. ArgsOf(t)'
        BY <3>1 DEF ArgsOf, Busy
      <4> QED
        BY <3>1, <4>1, ArgsStay
    <3>2. CASE CallStep(t) /\ call'[t] = Idle
      <4>1. Idle.at = "idle" /\ Idle.stub = NULL
        BY DEF Idle
      <4>2. ArgsOf(t)'
        BY <3>2, <4>1 DEF ArgsOf
      <4> QED
        BY <3>2, <4>2, ArgsStay
    <3>3. CASE /\ CallStep(t) /\ call[t].at = "records" /\ call'[t].at = "records got"
               /\ call'[t].stub = call[t].stub
      <4>1. ArgsOf(t)
        BY DEF ArgsInv
      <4>2. ArgsOf(t)'
        BY <3>3, <4>1 DEF ArgsOf, Busy
      <4> QED
        BY <3>3, <4>2, ArgsStay
    <3>4. CASE UNCHANGED call
      BY <3>4 DEF ArgsInv, ArgsOf
    <3> QED
      BY <1>0, <2>2, <3>1, <3>2, <3>3, <3>4, LoudCalls
  <2> QED
    BY <1>0, <1>2, <2>1, <2>2, QuietOrLoud DEF ArgsInv
<1>3. CASE UNCHANGED vars
  BY <1>3 DEF vars, ArgsInv, ArgsOf
<1> QED
  BY <1>1, <1>2, <1>3, BeginCases

LEMMA StepOut ==
    ASSUME OnceInv, RecInv, HookInv, ArgsInv, OutInv, [Next]_vars PROVE OutInv'
<1>0. Typed /\ TaskInv
  BY DEF OnceInv, HookInv
<1>1. ASSUME NEW t \in Threads, NEW w, NEW x, Begin(t, w, x), BegunByMain(w, x) \/ BegunByUser(t, w, x)
      PROVE  OutInv'
  <2>1. Quietly(t)
    BY <1>0, <1>1, QuietBegin DEF ArgsInv
  <2> QED
    BY <2>1, QuietGood
<1>2. ASSUME NEW t \in Threads, Loud(t) PROVE OutInv'
  <2>1. CASE \E s \in Stubs :
               /\ call[t].at = "hook" /\ CallStep(t) /\ UNCHANGED recorderVars
    <3>1. rec[t] = Quiet
      BY <2>1, QuietCalls DEF Recorded
    <3> QED
      BY <2>1, <3>1, OutStaysQuiet
  <2>2. CASE HookSwitch(t)
    BY <1>0, <2>2, HookRecordGood
  <2>3. CASE UnhookSwitch(t)
    BY <1>0, <2>3, UnhookRecordGood
  <2>4. CASE HookEnd(t)
    <3>1. rec[t] = Quiet /\ UNCHANGED recorderVars /\ HookReturn(t, call[t].ok)
      BY <2>4 DEF HookEnd
    <3>2. call[t].ok \in BOOLEAN
      BY <1>0 DEF Typed, Calls
    <3>3. CallStep(t)
      BY <1>0, <3>1, <3>2, HookReturnChanges
    <3> QED
      BY <3>1, <3>3, OutStaysQuiet
  <2>5. CASE UnhookEnd(t)
    <3>1. rec[t] = Quiet /\ UNCHANGED recorderVars /\ UnhookReturn(t)
      BY <2>5 DEF UnhookEnd
    <3>2. CallStep(t)
      BY <1>0, <3>1, UnhookReturnChanges
    <3> QED
      BY <3>1, <3>2, OutStaysQuiet
  <2>6. CASE GetRecords(t)
    <3>1. call[t].arg \in {"string", "fd"}
      BY <2>6 DEF GetRecords, At, ArgsInv, ArgsOf
    <3> QED
      BY <1>0, <2>6, <3>1, GetGood
  <2>7. CASE GotRecords(t)
    BY <1>0, <2>7, GotGood
  <2>8. CASE SetRecordable(t)
    BY <1>0, <2>8, SetGood
  <2>9. CASE Recording(t)
    <3>1. RecorderStep(t) /\ UNCHANGED call
      BY <2>9 DEF Recording
    <3> QED
      BY <3>1, RecordingGood
  <2> QED
    BY <1>2, <2>1, <2>2, <2>3, <2>4, <2>5, <2>6, <2>7, <2>8, <2>9 DEF Loud
<1>3. ASSUME NEW t \in Threads, Step(t) PROVE OutInv'
  BY <1>0, <1>2, <1>3, QuietOrLoud, QuietGood DEF ArgsInv
<1>4. CASE UNCHANGED vars
  <2>1. UNCHANGED <<recorderVars, call>>
    BY <1>4 DEF vars
  <2>2. Outputs' /\ Locks' /\ Crash' /\ Buffers'
    BY <2>1 DEF OutInv, Outputs, Locks, Crash, Buffers, recorderVars
  <2>3. Duties'
    BY <2>1 DEF OutInv, Duties, Duty, recorderVars
  <2> QED
    BY <2>2, <2>3 DEF OutInv
<1> QED
  BY <1>1, <1>3, <1>4, BeginCases

LEMMA InitOut ==
    ASSUME Init PROVE ArgsInv /\ OutInv
<1>1. \A t \in Threads : rec[t] = Quiet /\ call[t] = Idle
  BY DEF Init, RecorderInit
<1>2. Idle.at = "idle" /\ Idle.stub = NULL
  BY DEF Idle
<1>3. ArgsInv
  BY <1>1, <1>2 DEF ArgsInv, ArgsOf
<1>4. Outputs /\ Duties
  BY <1>1, QuietIs, OutsAre DEF Outputs, Duties, Duty
<1>5. Locks
  <2>1. stringsLock = Nobody /\ recordsLock = Nobody
    BY DEF Init, RecorderInit
  <2>2. \A t \in Threads : rec[t].at \notin InRecords /\ rec[t].at \notin InStrings /\ t # Nobody
    BY <1>1, QuietIs, OutsAre
  <2> QED
    BY <2>1, <2>2 DEF Locks
<1>6. Crash
  BY DEF Init, RecorderInit, Crash
<1>7. Buffers
  BY SizeAssumption DEF Init, RecorderInit, NoBuf, Buffers, Numbers
<1> QED
  BY <1>3, <1>4, <1>5, <1>6, <1>7 DEF OutInv

\* An output none of whose appends failed shows every record that there was when it
\* took the lock, and only an output that goes on after a failure ends the process,
\* whatever the sizes, the limits and the threads that record at the same time.
THEOREM OutputCorrect == Spec => []OutputIsWhole
<1>1. Spec => [](OnceInv /\ RecInv /\ HookInv /\ ArgsInv /\ OutInv)
  BY InitOnce, InitResolves, InitHooks, InitOut, StepOnce, StepResolves, StepHooks, StepArgs, StepOut,
     PTL DEF Spec
<1>2. ASSUME OutInv PROVE OutputIsWhole
  <2>1. ASSUME NEW t \in Threads, rec[t].at = "got", ~rec[t].failed
        PROVE  Finished(rec[t], records.seq)
    <3>1. rec[t].at \in Outs
      BY <2>1 DEF Outs
    <3> QED
      BY <1>2, <2>1, <3>1 DEF OutInv, Outputs, OutGood
  <2>2. crashed => \E t \in Threads : rec[t].at # "quiet" /\ rec[t].at # "adding" /\ rec[t].failed
    BY <1>2, OutsAre DEF OutInv, Crash
  <2> QED
    BY <2>1, <2>2 DEF OutputIsWhole, Finished, Told, Plain, Lost, Ending
<1> QED
  BY <1>1, <1>2, PTL

-----------------------------------------------------------------------------
(* The log replays *)

\* The last record about a task says that it is hooked.
SaysLast(log, n, s) == log[n].stub = s /\ \A m \in n + 1..Len(log) : log[m].stub # s
SaidHooked(log, s) ==
    \E n \in 1..Len(log) : SaysLast(log, n, s) /\ log[n].op = "hook" /\ log[n].ok

\* What the log says of the task a thread works on, at each point of its call.
Said(t, said) ==
    /\ call[t].at = "hook switch" => ~said
    /\ call[t].at = "hook recorded" =>
         (said <=> (rec[t].at # "adding" /\ call[t].ok))
    /\ call[t].at = "unhook recorded" /\ rec[t].at # "adding" => ~said
LogOf(log, s) ==
    /\ (\A t \in Threads : call[t].stub # s) => (SaidHooked(log, s) <=> tasks[s] # NoTask)
    /\ \A t \in Threads : call[t].stub = s => Said(t, SaidHooked(log, s))
LogInv == ~missed /\ ~error => \A s \in Stubs : LogOf(records.seq, s)

LEMMA SaidAppend ==
    ASSUME NEW log \in Seq(Rows), NEW row \in Rows, NEW s
    PROVE  SaidHooked(Append(log, row), s) <=>
             IF row.stub = s THEN row.op = "hook" /\ row.ok ELSE SaidHooked(log, s)
<1>1. PICK more : more = Append(log, row)
  OBVIOUS
<1>2. PICK l \in Nat : l = Len(log)
  BY LenProperties
<1>3. /\ Len(more) = l + 1 /\ more[l + 1] = row
      /\ \A n \in 1..l : more[n] = log[n]
  BY <1>1, <1>2, AppendProperties
<1>4. ASSUME row.stub = s PROVE SaidHooked(more, s) <=> row.op = "hook" /\ row.ok
  <2>1. SaysLast(more, l + 1, s)
    BY <1>2, <1>3, <1>4 DEF SaysLast
  <2>2. \A n \in 1..l : ~SaysLast(more, n, s)
    BY <1>2, <1>3, <1>4 DEF SaysLast
  <2>3. \A n \in 1..Len(more) : SaysLast(more, n, s) <=> n = l + 1
    BY <1>2, <1>3, <2>1, <2>2
  <2>4. l + 1 \in 1..Len(more)
    BY <1>2, <1>3
  <2> QED
    BY <1>3, <2>3, <2>4 DEF SaidHooked
<1>5. ASSUME row.stub # s PROVE SaidHooked(more, s) <=> SaidHooked(log, s)
  <2>1. ~SaysLast(more, l + 1, s)
    BY <1>3, <1>5 DEF SaysLast
  <2>2. ASSUME NEW n \in 1..l PROVE SaysLast(more, n, s) <=> SaysLast(log, n, s)
    <3>1. \A m \in n + 1..l + 1 : m \in n + 1..l \/ m = l + 1
      BY <1>2
    <3>2. \A m \in n + 1..l : m \in 1..l /\ m \in n + 1..l + 1
      BY <1>2
    <3> QED
      BY <1>2, <1>3, <1>5, <3>1, <3>2 DEF SaysLast
  <2>3. \A n \in 1..l + 1 : n \in 1..l \/ n = l + 1
    BY <1>2
  <2>4. \A n \in 1..l : n \in 1..l + 1
    BY <1>2
  <2> QED
    BY <1>2, <1>3, <2>1, <2>2, <2>3, <2>4 DEF SaidHooked
<1> QED
  BY <1>1, <1>4, <1>5


LEMMA StubIsOwn ==
    ASSUME TaskInv, ArgsInv, NEW t \in Threads, NEW s \in Stubs, call[t].stub = s
    PROVE  call[t].at \in Busy /\ tasks[s].by = t /\ tasks[s] # NoTask
<1>1. call[t].at \in Busy
  BY DEF ArgsInv, ArgsOf
<1>2. tasks[s].by = t
  <2>1. CASE call[t].at = "unhook recorded"
    BY <2>1 DEF TaskInv, Mine, MineOf
  <2>2. CASE call[t].at # "unhook recorded"
    <3>1. tasks[s] = Task(t, call[t].arg)
      BY <1>1, <2>2 DEF TaskInv, Mine, MineOf, Busy
    <3> QED
      BY <3>1, TaskFields
  <2> QED
    BY <2>1, <2>2
<1>3. t # Nobody /\ NoTask.by = Nobody
  BY DEF NoTask
<1> QED
  BY <1>1, <1>2, <1>3

LEMMA StubIsOne ==
    ASSUME TaskInv, ArgsInv, NEW t \in Threads, NEW s \in Stubs, tasks[s].by = t
    PROVE  \A u \in Threads : u # t => call[u].stub # s
BY StubIsOwn

\* What a step of t does to a task that is not its own, and to the one that is.
LEMMA LogOthers ==
    ASSUME NEW t \in Threads, NEW s, LogOf(records.seq, s),
           \A u \in Threads : u # t => call'[u] = call[u] /\ rec'[u] = rec[u],
           call[t].stub # s, call'[t].stub # s,
           SaidHooked(records'.seq, s) <=> SaidHooked(records.seq, s), tasks'[s] = tasks[s]
    PROVE  LogOf(records.seq, s)'
<1>1. (\A u \in Threads : call'[u].stub # s) <=> (\A u \in Threads : call[u].stub # s)
  OBVIOUS
<1>2. ASSUME NEW u \in Threads, call'[u].stub = s PROVE Said(u, SaidHooked(records.seq, s))'
  <2>1. u # t
    BY <1>2
  <2>2. call'[u] = call[u] /\ rec'[u] = rec[u]
    BY <2>1
  <2>3. Said(u, SaidHooked(records.seq, s))
    BY <1>2, <2>2 DEF LogOf
  <2> QED
    BY <2>2, <2>3 DEF Said
<1> QED
  BY <1>1, <1>2 DEF LogOf

LEMMA LogMine ==
    ASSUME NEW t \in Threads, NEW s,
           \A u \in Threads : u # t => call'[u] = call[u] /\ call[u].stub # s,
           call'[t].stub = s => Said(t, SaidHooked(records.seq, s))',
           call'[t].stub # s => (SaidHooked(records'.seq, s) <=> tasks'[s] # NoTask)
    PROVE  LogOf(records.seq, s)'
<1>1. \A u \in Threads : u # t => call'[u].stub # s
  OBVIOUS
<1> QED
  BY <1>1 DEF LogOf

\* A step after which the log is the same, by a thread that works on no task.
LEMMA LogAway ==
    ASSUME LogInv, NEW t \in Threads, \A u \in Threads : u # t => call'[u] = call[u] /\ rec'[u] = rec[u],
           UNCHANGED <<tasks, missed, error>>, records'.seq = records.seq,
           call[t].stub = NULL, call'[t].stub = NULL
    PROVE  LogInv'
<1>1. ASSUME ~missed', ~error', NEW s \in Stubs PROVE LogOf(records.seq, s)'
  <2>1. LogOf(records.seq, s)
    BY <1>1 DEF LogInv
  <2>2. s # NULL
    OBVIOUS
  <2>3. SaidHooked(records'.seq, s) <=> SaidHooked(records.seq, s)
    OBVIOUS
  <2> QED
    BY <2>1, <2>2, <2>3, LogOthers
<1> QED
  BY <1>1 DEF LogInv

LEMMA QuietLogs ==
    ASSUME LogInv, NEW t \in Threads, Quietly(t), ArgsOf(t), ArgsOf(t)' PROVE LogInv'
<1>1. call[t].stub = NULL /\ call'[t].stub = NULL
  BY DEF Quietly, ArgsOf
<1>2. /\ \A u \in Threads : u # t => call'[u] = call[u] /\ rec'[u] = rec[u]
      /\ UNCHANGED <<tasks, missed, error>> /\ records'.seq = records.seq
  BY DEF Quietly, CallStep, recorderVars
<1> QED
  BY <1>1, <1>2, LogAway

LEMMA CreateLogs ==
    ASSUME Typed, TaskInv, ArgsInv, LogInv, NEW t \in Threads, NEW s \in Stubs, call[t].at = "hook",
           Free(s), NEW k, tasks' = [tasks EXCEPT ![s] = k], CallStep(t),
           call'[t] = [call[t] EXCEPT !.at = "hook switch", !.stub = s], UNCHANGED recorderVars
    PROVE  LogInv'
<1>1. call[t].stub = NULL /\ call[t] \in Calls
  BY DEF ArgsInv, ArgsOf, Busy, Typed
<1>2. call'[t].at = "hook switch"
  BY <1>1 DEF Calls
<1>3. call'[t].stub = s
  BY <1>1 DEF Calls
<1>4. /\ \A u \in Threads : u # t => call'[u] = call[u] /\ rec'[u] = rec[u]
      /\ missed' = missed /\ error' = error /\ records' = records
  BY DEF CallStep, recorderVars
<1>5. ASSUME ~missed, ~error, NEW r \in Stubs PROVE LogOf(records.seq, r)'
  <2>1. LogOf(records.seq, r) /\ (SaidHooked(records'.seq, r) <=> SaidHooked(records.seq, r))
    BY <1>4, <1>5 DEF LogInv
  <2>2. CASE r = s
    <3>1. \A u \in Threads : call[u].stub # s
      BY StubIsOwn DEF Free
    <3>2. ~SaidHooked(records'.seq, s)
      BY <2>1, <2>2, <3>1 DEF LogOf, Free
    <3>3. Said(t, SaidHooked(records.seq, s))'
      BY <1>2, <3>2 DEF Said
    <3>4. \A u \in Threads : u # t => call'[u] = call[u] /\ call[u].stub # s
      BY <1>4, <3>1
    <3>a. call'[t].stub = s => Said(t, SaidHooked(records.seq, s))'
      BY <3>3
    <3>b. call'[t].stub # s => (SaidHooked(records'.seq, s) <=> tasks'[s] # NoTask)
      BY <1>3
    <3>c. \A u \in Threads : u # t => call'[u].stub # s
      BY <3>4
    <3>5. LogOf(records.seq, s)'
      BY <3>a, <3>b, <3>c DEF LogOf
    <3> QED
      BY <2>2, <3>5
  <2>3. CASE r # s
    <3>1. tasks'[r] = tasks[r] /\ call[t].stub # r /\ call'[t].stub # r
      BY <1>1, <1>3, <2>3
    <3> QED
      BY <1>4, <2>1, <3>1, LogOthers
  <2> QED
    BY <2>2, <2>3
<1> QED
  BY <1>4, <1>5 DEF LogInv

\* A hook or an unhook hands its record over: the log is the same.
LEMMA RecordLogs ==
    ASSUME TaskInv, ArgsInv, RecInv, LogInv, NEW t \in Threads, CallStep(t), UNCHANGED <<tasks, records, error>>,
           NEW s \in Stubs, tasks[s].by = t, call'[t].stub = s, call[t].stub \in {s, NULL},
           NEW op, NEW ok, NEW stub, NEW names, Record(t, op, ok, stub, names),
           \/ call'[t].at = "unhook recorded"
           \/ call'[t].at = "hook recorded" /\ call[t].at = "hook switch" /\ call[t].stub = s
    PROVE  LogInv'
<1>a. \A u \in Threads : u # t => call[u].stub # s
  BY StubIsOne, Zenon
<1>1. \A u \in Threads : u # t => call'[u] = call[u] /\ call[u].stub # s
  BY <1>a, Zenon DEF CallStep
<1>2. ASSUME ~missed', ~error', NEW r \in Stubs PROVE LogOf(records.seq, r)'
  <2>1. rec' = [rec EXCEPT ![t] = [at |-> "adding", op |-> op, ok |-> ok, stub |-> stub,
                                   names |-> names, idx |-> <<>>]] /\ ~missed
    BY <1>2 DEF Record
  <2>2. DOMAIN rec = Threads
    BY DEF RecInv, Writers
  <2>3. rec'[t].at = "adding" /\ \A u \in Threads : u # t => rec'[u] = rec[u]
    BY <2>1, <2>2
  <2>4. LogOf(records.seq, r) /\ (SaidHooked(records'.seq, r) <=> SaidHooked(records.seq, r))
    BY <1>2, <2>1 DEF LogInv
  <2>5. CASE r = s
    <3>1. CASE call'[t].at = "unhook recorded"
      <4>1. Said(t, SaidHooked(records.seq, s))'
        BY <2>3, <3>1 DEF Said
      <4> QED
        BY <1>1, <2>5, <4>1, LogMine
    <3>2. CASE call'[t].at = "hook recorded" /\ call[t].at = "hook switch" /\ call[t].stub = s
      <4>1. ~SaidHooked(records.seq, s)
        BY <2>4, <2>5, <3>2 DEF LogOf, Said
      <4>2. Said(t, SaidHooked(records.seq, s))'
        BY <2>3, <2>4, <2>5, <3>2, <4>1 DEF Said
      <4> QED
        BY <1>1, <2>5, <4>2, LogMine
    <3> QED
      BY <3>1, <3>2
  <2>6. CASE r # s
    <3>1. tasks'[r] = tasks[r] /\ call[t].stub # r /\ call'[t].stub # r
      BY <2>6
    <3> QED
      BY <1>1, <2>3, <2>4, <3>1, LogOthers
  <2> QED
    BY <2>5, <2>6
<1> QED
  BY <1>2 DEF LogInv

\* A hook or an unhook ends: the task is there exactly if the log says so.
LEMMA EndLogs ==
    ASSUME TaskInv, ArgsInv, LogInv, NEW t \in Threads, CallStep(t), UNCHANGED recorderVars,
           call'[t] = Idle, rec[t] = Quiet, NEW s \in Stubs, call[t].stub = s, DOMAIN tasks = Stubs,
           \/ /\ call[t].at = "hook recorded"
              /\ tasks' = IF call[t].ok THEN tasks ELSE [tasks EXCEPT ![s] = NoTask]
           \/ call[t].at = "unhook recorded" /\ tasks' = [tasks EXCEPT ![s] = NoTask]
    PROVE  LogInv'
<1>1. /\ \A u \in Threads : u # t => call'[u] = call[u] /\ rec'[u] = rec[u]
      /\ missed' = missed /\ error' = error /\ records' = records
  BY DEF CallStep, recorderVars
<1>2. tasks[s].by = t /\ tasks[s] # NoTask
  BY StubIsOwn
<1>3. \A u \in Threads : u # t => call[u].stub # s
  BY <1>2, StubIsOne
<1>4. call'[t].stub = NULL /\ s # NULL /\ rec[t].at # "adding"
  <2>1. Idle.stub = NULL /\ Quiet.at # "adding"
    BY QuietIs DEF Idle
  <2> QED
    BY <2>1
<1>5. ASSUME ~missed, ~error, NEW r \in Stubs PROVE LogOf(records.seq, r)'
  <2>1. LogOf(records.seq, r) /\ (SaidHooked(records'.seq, r) <=> SaidHooked(records.seq, r))
    BY <1>1, <1>5 DEF LogInv
  <2>2. CASE r = s
    <3>1. Said(t, SaidHooked(records.seq, s))
      BY <2>1, <2>2 DEF LogOf
    <3>2. SaidHooked(records'.seq, s) <=> tasks'[s] # NoTask
      <4>1. CASE /\ call[t].at = "hook recorded"
                 /\ tasks' = IF call[t].ok THEN tasks ELSE [tasks EXCEPT ![s] = NoTask]
        <5>1. SaidHooked(records.seq, s) <=> call[t].ok
          BY <1>4, <3>1, <4>1 DEF Said
        <5>2. tasks'[s] # NoTask <=> call[t].ok
          BY <1>2, <4>1
        <5> QED
          BY <2>1, <2>2, <5>1, <5>2
      <4>2. CASE call[t].at = "unhook recorded" /\ tasks' = [tasks EXCEPT ![s] = NoTask]
        <5>1. ~SaidHooked(records.seq, s)
          BY <1>4, <3>1, <4>2 DEF Said
        <5> QED
          BY <2>1, <2>2, <4>2, <5>1
      <4> QED
        BY <4>1, <4>2
    <3>3. \A u \in Threads : u # t => call'[u] = call[u] /\ call[u].stub # s
      BY <1>1, <1>3
    <3>4. call'[t].stub # s
      BY <1>4
    <3>a. call'[t].stub = s => Said(t, SaidHooked(records.seq, s))'
      BY <3>4
    <3>b. call'[t].stub # s => (SaidHooked(records'.seq, s) <=> tasks'[s] # NoTask)
      BY <3>2
    <3>c. \A u \in Threads : u # t => call'[u].stub # s
      BY <3>3
    <3>5. LogOf(records.seq, s)'
      BY <3>a, <3>b, <3>c DEF LogOf
    <3> QED
      BY <2>2, <3>5
  <2>3. CASE r # s
    <3>1. tasks'[r] = tasks[r] /\ call[t].stub # r /\ call'[t].stub # r
      BY <1>4, <2>3
    <3> QED
      BY <1>1, <2>1, <3>1, LogOthers
  <2> QED
    BY <2>2, <2>3
<1> QED
  BY <1>1, <1>5 DEF LogInv

\* The recorder gives up, or adds the record that its thread has waited for.
LEMMA AddLogs ==
    ASSUME RecInv, TaskInv, ArgsInv, OutInv, LogInv, NEW t \in Threads, AddStr(t) \/ AddRecord(t),
           UNCHANGED <<call, tasks>>
    PROVE  LogInv'
<1>1. PICK r, s : r = rec[t] /\ s = call[t].stub
  OBVIOUS
<1>2. /\ r.at = "adding" /\ missed' = missed /\ (error' = error \/ error' = TRUE) /\ DOMAIN rec = Threads
  BY <1>1 DEF AddStr, AddRecord, GiveUp, RecInv, Writers
<1>3. r \in Adding
  BY <1>1, <1>2 DEF RecInv, Writers
<1>4. /\ call[t].at \in Recorded /\ r.stub = s /\ r.ok = call[t].ok
      /\ r.op = IF call[t].at = "hook recorded" THEN "hook" ELSE "unhook"
  BY <1>1, <1>2 DEF OutInv, Duties, Duty
<1>5. s \in Stubs /\ tasks[s].by = t
  <2>1. s \in Stubs
    BY <1>1, <1>4 DEF TaskInv, Mine, MineOf, Recorded
  <2> QED
    BY <1>1, <2>1, StubIsOwn
<1>6. \A u \in Threads : u # t => call'[u] = call[u] /\ call[u].stub # s
  BY <1>5, StubIsOne
<1>7. \A u \in Threads : u # t => rec'[u] = rec[u]
  BY <1>2 DEF AddStr, AddRecord, Indexed, GiveUp
<1>8. ASSUME ~missed', ~error', NEW x \in Stubs PROVE LogOf(records.seq, x)'
  <2>1. ~missed /\ ~error
    BY <1>2, <1>8
  <2>2. LogOf(records.seq, x)
    BY <1>8, <2>1 DEF LogInv
  <2>3. CASE AddStr(t)
    <3>1. records' = records /\ \E i : Indexed(t, i)
      BY <1>8, <2>3 DEF AddStr, GiveUp
    <3>2. rec'[t].at = "adding"
      BY <1>1, <1>2, <1>3, <3>1 DEF Indexed, Adding
    <3>3. CASE x = s
      <4>1. Said(t, SaidHooked(records.seq, s))
        BY <1>1, <2>2, <3>3 DEF LogOf
      <4>2. Said(t, SaidHooked(records.seq, s))'
        BY <1>1, <1>2, <3>1, <3>2, <4>1 DEF Said
      <4> QED
        BY <1>1, <1>6, <3>3, <4>2, LogMine
    <3>4. CASE x # s
      BY <1>1, <1>6, <1>7, <2>2, <3>1, <3>4, LogOthers
    <3> QED
      BY <3>3, <3>4
  <2>4. CASE AddRecord(t)
    <3>1. PICK row : row = [op |-> r.op, ok |-> r.ok, stub |-> r.stub, idx |-> r.idx, names |-> r.names]
      OBVIOUS
    <3>2. row \in Rows /\ row.stub = s /\ row.op = r.op /\ row.ok = r.ok
      BY <1>3, <1>4, <3>1 DEF Adding, Rows
    <3>3. records'.seq = Append(records.seq, row) /\ rec' = [rec EXCEPT ![t] = Quiet]
      <4>1. PICK n : records' = Put(records, RecordsStep, row, n) /\ rec' = [rec EXCEPT ![t] = Quiet]
        BY <1>1, <1>8, <2>4, <3>1 DEF AddRecord, GiveUp
      <4> QED
        BY <4>1 DEF Put, RecInv, Log
    <3>4. rec'[t].at # "adding"
      BY <1>2, <3>3, QuietIs
    <3>5. SaidHooked(records'.seq, x) <=>
            IF row.stub = x THEN row.op = "hook" /\ row.ok ELSE SaidHooked(records.seq, x)
      <4>1. records.seq \in Seq(Rows)
        BY DEF RecInv, Log
      <4> QED
        BY <3>2, <3>3, <4>1, SaidAppend
    <3>6. CASE x = s
      <4>1. SaidHooked(records'.seq, s) <=> call[t].at = "hook recorded" /\ call[t].ok
        BY <1>4, <3>2, <3>5, <3>6
      <4>2. Said(t, SaidHooked(records.seq, s))'
        BY <1>4, <3>4, <4>1 DEF Said, Recorded
      <4> QED
        BY <1>1, <1>6, <3>6, <4>2, LogMine
    <3>7. CASE x # s
      <4>1. SaidHooked(records'.seq, x) <=> SaidHooked(records.seq, x)
        BY <3>2, <3>5, <3>7
      <4> QED
        BY <1>1, <1>6, <1>7, <2>2, <3>7, <4>1, LogOthers
    <3> QED
      BY <3>6, <3>7
  <2> QED
    BY <2>3, <2>4
<1> QED
  BY <1>8 DEF LogInv


LEMMA LoudLogs ==
    ASSUME OnceInv, RecInv, TaskInv, ArgsInv, OutInv, LogInv, NEW t \in Threads, Loud(t) PROVE LogInv'
<1>0. Typed /\ DOMAIN tasks = Stubs /\ MineOf(t) /\ ArgsOf(t) /\ call[t] \in Calls
  BY DEF OnceInv, Once, TaskInv, Mine, ArgsInv, Typed
<1>1. CASE \E s \in Stubs :
             /\ call[t].at = "hook" /\ Free(s) /\ tasks' = [tasks EXCEPT ![s] = Task(t, call[t].arg)]
             /\ CallStep(t) /\ call'[t] = [call[t] EXCEPT !.at = "hook switch", !.stub = s]
             /\ UNCHANGED recorderVars
  BY <1>0, <1>1, CreateLogs
<1>2. CASE HookSwitch(t)
  <2>1. PICK ok \in BOOLEAN :
          /\ Record(t, "hook", ok, call[t].stub, <<"lib", call[t].arg, CallerLib(t)>>)
          /\ call' = [call EXCEPT ![t].at = "hook recorded", ![t].ok = ok]
    <3> HIDE DEF Record, CallerLib
    <3> QED
      BY <1>2 DEF HookSwitch
  <2>2. CallStep(t) /\ call[t].at = "hook switch" /\ UNCHANGED <<tasks, records, error>>
    BY <1>0, <1>2, HookSwitchChanges DEF HookSwitch
  <2>3. call[t].stub \in Stubs /\ tasks[call[t].stub].by = t
    <3>1. call[t].stub \in Stubs /\ tasks[call[t].stub] = Task(t, call[t].arg)
      BY <1>0, <2>2 DEF MineOf
    <3> QED
      BY <3>1, TaskFields
  <2>4. call'[t].at = "hook recorded"
    BY <1>0, <2>1 DEF Typed, Calls
  <2>5. call'[t].stub = call[t].stub
    BY <1>0, <2>1 DEF Typed, Calls
  <2> HIDE DEF CallerLib
  <2> QED
    BY <2>1, <2>2, <2>3, <2>4, <2>5, RecordLogs
<1>3. CASE UnhookSwitch(t)
  <2>1. PICK ok \in BOOLEAN :
          /\ Record(t, "unhook", ok, call[t].arg, <<CallerLib(t)>>)
          /\ call' = [call EXCEPT ![t].at = "unhook recorded", ![t].stub = call[t].arg, ![t].ok = ok]
    <3> HIDE DEF Record, CallerLib
    <3> QED
      BY <1>3 DEF UnhookSwitch
  <2>2. CallStep(t) /\ call[t].at = "unhook" /\ UNCHANGED <<tasks, records, error>>
    BY <1>0, <1>3, UnhookSwitchChanges DEF UnhookSwitch
  <2>3. call[t].arg \in Stubs /\ tasks[call[t].arg].by = t /\ call[t].stub = NULL
    BY <1>0, <2>2 DEF MineOf, ArgsOf, Busy
  <2>4. call'[t].at = "unhook recorded"
    BY <1>0, <2>1 DEF Typed, Calls
  <2>5. call'[t].stub = call[t].arg
    BY <1>0, <2>1 DEF Typed, Calls
  <2> HIDE DEF CallerLib
  <2> QED
    BY <2>1, <2>2, <2>3, <2>4, <2>5, RecordLogs
<1>4. CASE HookEnd(t)
  <2>1. /\ call[t].at = "hook recorded" /\ rec[t] = Quiet /\ UNCHANGED recorderVars
        /\ tasks' = IF call[t].ok THEN tasks ELSE [tasks EXCEPT ![call[t].stub] = NoTask]
        /\ HookReturn(t, call[t].ok)
    BY <1>4 DEF HookEnd, At
  <2>2. CallStep(t) /\ call'[t] = Idle
    <3>1. call[t].ok \in BOOLEAN
      BY <1>0 DEF Calls
    <3> QED
      BY <1>0, <2>1, <3>1, HookReturnChanges
  <2>3. call[t].stub \in Stubs
    BY <1>0, <2>1 DEF MineOf
  <2> QED
    BY <1>0, <2>1, <2>2, <2>3, EndLogs
<1>5. CASE UnhookEnd(t)
  <2>1. /\ call[t].at = "unhook recorded" /\ rec[t] = Quiet /\ UNCHANGED recorderVars
        /\ tasks' = [tasks EXCEPT ![call[t].stub] = NoTask] /\ UnhookReturn(t)
    BY <1>5 DEF UnhookEnd, At
  <2>2. CallStep(t) /\ call'[t] = Idle
    BY <1>0, <2>1, UnhookReturnChanges
  <2>3. call[t].stub \in Stubs
    BY <1>0, <2>1 DEF MineOf
  <2> QED
    BY <1>0, <2>1, <2>2, <2>3, EndLogs
<1>6. CASE GetRecords(t) \/ GotRecords(t) \/ SetRecordable(t)
  <2>1. /\ CallStep(t) /\ UNCHANGED tasks
        /\ call[t].at \notin Busy
        /\ call'[t] = Idle \/ call'[t] = [call[t] EXCEPT !.at = "records got"]
    BY <1>0, <1>6, PlainChanges DEF hookVars, Busy
  <2>2. call[t].stub = NULL
    BY <1>0, <1>6, PlainChanges DEF ArgsOf, Busy
  <2>3. call'[t].stub = NULL
    <3>1. Idle.stub = NULL
      BY DEF Idle
    <3> QED
      BY <1>0, <2>1, <2>2, <3>1 DEF Calls
  <2>4. UNCHANGED <<records, missed, error>> /\ \A u \in Threads : u # t => rec'[u] = rec[u]
    <3>1. DOMAIN rec = Threads
      BY DEF RecInv, Writers
    <3> QED
      BY <1>6, <3>1 DEF GetRecords, GotRecords, SetRecordable, Output
  <2>5. \A u \in Threads : u # t => call'[u] = call[u] /\ rec'[u] = rec[u]
    BY <2>1, <2>4 DEF CallStep
  <2> QED
    BY <2>1, <2>2, <2>3, <2>4, <2>5, LogAway
<1>7. CASE Recording(t)
  <2>1. RecorderStep(t) /\ UNCHANGED <<call, tasks>>
    BY <1>7 DEF Recording, hookVars
  <2>2. CASE AddStr(t) \/ AddRecord(t)
    BY <2>1, <2>2, AddLogs
  <2>3. CASE ~(AddStr(t) \/ AddRecord(t))
    <3>1. rec[t].at \in Outs
      BY <2>1, <2>3 DEF RecorderStep, LockRecords, LockStrings, OutLine, OutUnlock, OutErrorLine,
                        OutFinish, Outs
    <3>2. call[t].at = "records got"
      BY <3>1 DEF OutInv, Duties, Duty
    <3>3. call[t].stub = NULL /\ call'[t].stub = NULL
      BY <1>0, <2>1, <3>2 DEF ArgsOf, Busy
    <3>4. UNCHANGED <<records, missed, error>>
      BY <2>1, <2>3 DEF RecorderStep, LockRecords, LockStrings, OutLine, OutUnlock, OutErrorLine,
                        OutFinish, OutUnchanged
    <3>5. \A u \in Threads : u # t => call'[u] = call[u] /\ rec'[u] = rec[u]
      <4>1. DOMAIN rec = Threads
        BY DEF RecInv, Writers
      <4>2. CASE LockRecords(t) \/ LockStrings(t) \/ OutUnlock(t)
        BY <2>1, <4>1, <4>2 DEF LockRecords, LockStrings, OutUnlock, Go
      <4>3. rec[t].at # "adding"
        BY <3>1, OutsAre
      <4>4. CASE OutLine(t)
        BY <2>1, <4>3, <4>4, PutOutResolves DEF OutLine
      <4>5. CASE OutErrorLine(t)
        <5>1. CASE error
          BY <2>1, <4>3, <4>5, <5>1, PutOutResolves DEF OutErrorLine
        <5>2. CASE ~error
          BY <2>1, <4>1, <4>5, <5>2 DEF OutErrorLine, Go
        <5> QED
          BY <5>1, <5>2
      <4>6. CASE OutFinish(t)
        <5>1. CASE rec[t].to = "string"
          BY <2>1, <4>3, <4>6, <5>1, PutOutResolves DEF OutFinish
        <5>2. CASE rec[t].to # "string"
          BY <2>1, <4>1, <4>6, <5>2 DEF OutFinish, Go
        <5> QED
          BY <5>1, <5>2
      <4> QED
        BY <2>1, <2>3, <4>2, <4>4, <4>5, <4>6 DEF RecorderStep
    <3> QED
      BY <2>1, <3>3, <3>4, <3>5, LogAway
  <2> QED
    BY <2>2, <2>3
<1> QED
  BY <1>1, <1>2, <1>3, <1>4, <1>5, <1>6, <1>7 DEF Loud

LEMMA StepLogs ==
    ASSUME OnceInv, RecInv, HookInv, ArgsInv, OutInv, LogInv, [Next]_vars PROVE LogInv'
<1>0. Typed /\ TaskInv
  BY DEF OnceInv, HookInv
<1>1. ASSUME NEW t \in Threads, Quietly(t), ArgsOf(t)' PROVE LogInv'
  BY <1>1, QuietLogs DEF ArgsInv
<1>2. ASSUME NEW t \in Threads, NEW w, NEW x, Begin(t, w, x), BegunByMain(w, x) \/ BegunByUser(t, w, x)
      PROVE  LogInv'
  BY <1>0, <1>1, <1>2, QuietBegin DEF ArgsInv
<1>3. ASSUME NEW t \in Threads, Step(t) PROVE LogInv'
  BY <1>0, <1>1, <1>3, QuietOrLoud, LoudLogs DEF ArgsInv
<1>4. CASE UNCHANGED vars
  <2>1. UNCHANGED <<rec, records, missed, error, tasks, call>>
    BY <1>4 DEF vars, recorderVars, hookVars
  <2>2. \A s : SaidHooked(records'.seq, s) <=> SaidHooked(records.seq, s)
    BY <2>1
  <2>3. ASSUME NEW s \in Stubs, LogOf(records.seq, s) PROVE LogOf(records.seq, s)'
    <3>1. \A t \in Threads : Said(t, SaidHooked(records.seq, s)) => Said(t, SaidHooked(records.seq, s))'
      BY <2>1, <2>2 DEF Said
    <3> QED
      BY <2>1, <2>2, <2>3, <3>1 DEF LogOf
  <2> QED
    BY <2>1, <2>3 DEF LogInv
<1> QED
  BY <1>2, <1>3, <1>4, BeginCases

LEMMA InitLogs ==
    ASSUME Init PROVE LogInv
<1>1. Len(records.seq) = 0
  BY EmptySeq DEF Init, RecorderInit, NoBuf
<1>2. \A s \in Stubs : ~SaidHooked(records.seq, s) /\ tasks[s] = NoTask
  BY <1>1 DEF Init, SaidHooked
<1>3. \A t \in Threads : call[t].stub = NULL
  BY DEF Init, Idle
<1> QED
  BY <1>2, <1>3 DEF LogInv, LogOf
-----------------------------------------------------------------------------
(* Types *)

Modes ==
    /\ mode \in {"shared", "unique"} /\ isInted \in BOOLEAN /\ mixed \in BOOLEAN
    /\ model \in {"dobby", "shadowhook"} /\ dobby \subseteq Funcs

LEMMA StepModes ==
    ASSUME OnceInv, HookInv, ArgsInv, Modes, [Next]_vars PROVE Modes'
<1>0. Typed /\ Served
  BY DEF OnceInv, HookInv, ListInv
<1>1. ASSUME UNCHANGED <<mode, isInted, mixed, model, dobby>> PROVE Modes'
  BY <1>1 DEF Modes
<1>2. ASSUME NEW t, NEW w, NEW x, Begin(t, w, x) PROVE Modes'
  BY <1>1, <1>2 DEF Begin, initVars, utilVars
<1>3. ASSUME NEW t \in Threads, NEW r, InitReturn(t, r) PROVE isInted' \in BOOLEAN /\ UNCHANGED <<mixed, model, dobby>>
  BY <1>3 DEF InitReturn, utilVars, Modes
<1>4. ASSUME NEW t \in Threads, Step(t) PROVE Modes'
  <2>1. CASE InitCheck(t)
    <3>1. UNCHANGED mode /\ (UNCHANGED utilVars \/ InitReturn(t, initErrno))
      BY <2>1 DEF InitCheck, initVars
    <3> QED
      BY <1>3, <3>1 DEF Modes, utilVars
  <2>2. CASE InitBody(t)
    <3>1. call[t].at = "init lock"
      BY <2>2 DEF InitBody, At
    <3>2. call[t].back = "Hooker" \/ call[t].arg \in {"shared", "unique"}
      BY <3>1 DEF ArgsInv, ArgsOf
    <3>3. CASE initErrno = "uninit"
      BY <2>2, <3>2, <3>3 DEF InitBody, Modes, utilVars
    <3>4. CASE initErrno # "uninit"
      <4>1. InitReturn(t, initErrno) /\ UNCHANGED mode
        BY <2>2, <3>4 DEF InitBody, initVars
      <4> QED
        BY <1>3, <4>1 DEF Modes
    <3> QED
      BY <3>3, <3>4
  <2>3. CASE InitEnd(t)
    <3>1. PICK r : InitReturn(t, r) /\ UNCHANGED mode
      BY <2>3 DEF InitEnd
    <3> QED
      BY <1>3, <3>1 DEF Modes
  <2>4. CASE HookCreate(t)
    BY <1>1, <2>4 DEF HookCreate, HookReturn, initVars, utilVars
  <2>5. CASE HookSwitch(t) \/ UnhookSwitch(t)
    BY <1>1, <2>5 DEF HookSwitch, UnhookSwitch, initVars, utilVars
  <2>6. CASE HookEnd(t)
    BY <1>1, <2>6 DEF HookEnd, HookReturn, initVars, utilVars
  <2>7. CASE UnhookEnd(t)
    BY <1>1, <2>7 DEF UnhookEnd, UnhookReturn, initVars, utilVars
  <2>8. CASE GetRecords(t) \/ GotRecords(t) \/ SetRecordable(t) \/ Recording(t)
    BY <1>0, <1>1, <2>8, PlainChanges DEF initVars, utilVars
  <2>9. CASE Hooker
    BY <2>9 DEF Hooker, Modes, initVars
  <2>10. CASE HookerHook
    <3>1. call[Main].at = "Hooker list" /\ UNCHANGED <<mode, model, isInted, mixed>>
      BY <2>10 DEF HookerHook, At, initVars
    <3>2. call[Main].arg \in Funcs
      BY <1>0, <3>1 DEF Served, ServedOf
    <3>3. dobby' = dobby \/ dobby' = dobby \union {call[Main].arg}
      BY <2>10 DEF HookerHook, DobbyHook
    <3> QED
      BY <3>1, <3>2, <3>3 DEF Modes
  <2>11. CASE UnHook
    <3>1. UNCHANGED <<mode, model, isInted>>
      BY <2>11 DEF UnHook, initVars
    <3>2. mixed' \in BOOLEAN
      BY <2>11 DEF UnHook, Modes
    <3>3. dobby' \subseteq dobby
      BY <2>11 DEF UnHook, DobbyDestroy
    <3> QED
      BY <3>1, <3>2, <3>3 DEF Modes
  <2>12. CASE SetHookerModle
    <3>1. call[Main].at = "set model" /\ model' = call[Main].arg /\ UNCHANGED <<mode, isInted, mixed, dobby>>
      BY <2>12 DEF SetHookerModle, At, initVars
    <3>2. model' \in {"dobby", "shadowhook"}
      BY <3>1 DEF ArgsInv, ArgsOf
    <3> QED
      BY <3>1, <3>2 DEF Modes
  <2> QED
    BY <1>4, <2>1, <2>2, <2>3, <2>4, <2>5, <2>6, <2>7, <2>8, <2>9, <2>10, <2>11, <2>12 DEF Step
<1>5. CASE UNCHANGED vars
  BY <1>1, <1>5 DEF vars, initVars, utilVars
<1> QED
  BY <1>2, <1>4, <1>5, BeginCases

LEMMA InitModes ==
    ASSUME Init PROVE Modes
BY DEF Init, Modes

\* When nothing was lost, the log replays to the hooks there are, for every number of
\* threads, functions and tasks, and the state keeps its types.
THEOREM LogCorrect == Spec => []LogReplays
<1>1. Spec => [](OnceInv /\ RecInv /\ HookInv /\ ArgsInv /\ OutInv /\ LogInv /\ Modes)
  BY InitOnce, InitResolves, InitHooks, InitOut, InitLogs, InitModes,
     StepOnce, StepResolves, StepHooks, StepArgs, StepOut, StepLogs, StepModes, PTL DEF Spec
<1>2. ASSUME OnceInv, RecInv, HookInv, ArgsInv, OutInv, LogInv, Modes PROVE LogReplays
  <2>1. TypeOK
    <3>1. \A s \in Stubs : tasks[s].by \in Threads \union {Nobody}
      <4>1. ASSUME NEW s \in Stubs, NEW u \in Threads, NEW a, tasks[s] = Task(u, a)
            PROVE  tasks[s].by = u
        BY <4>1, TaskFields
      <4>2. NoTask.by = Nobody
        BY DEF NoTask
      <4> QED
        BY <1>2, <4>1, <4>2 DEF HookInv, TaskInv, TasksOK
    <3>2. /\ initErrno \in {"uninit", "ok", "failed"} /\ inits \in Nat /\ DOMAIN tasks = Stubs
          /\ \A t \in Threads : initLock = t <=> call[t].at = "init mods"
      BY <1>2 DEF OnceInv, Once
    <3>3. \A t \in Threads : call[t].at \in CallPoints
      BY <1>2 DEF OnceInv, Typed, Calls
    <3>4. /\ \A t \in Threads : recordsLock = t <=> rec[t].at \in {"lock strings", "lines", "unlock"}
          /\ \A t \in Threads : stringsLock = t <=> rec[t].at \in {"lines", "unlock"}
      BY <1>2 DEF OutInv, Locks, InRecords, InStrings
    <3>5. /\ strings.sz <= strings.cap /\ strings.cap <= StringsMax
          /\ records.sz <= records.cap /\ records.cap <= RecordsMax
      BY <1>2 DEF OutInv, Buffers, Numbers
    <3>6. switches \in [Funcs -> SUBSET Threads]
      BY <1>2 DEF HookInv, TaskInv, Proxies
    <3> QED
      BY <1>2, <3>1, <3>2, <3>3, <3>4, <3>5, <3>6 DEF TypeOK, Modes
  <2>2. DOMAIN records.seq = 1..Len(records.seq)
    BY <1>2, LenProperties DEF RecInv, Log
  <2>3. ASSUME ~missed, ~error, NEW s \in Stubs, \A t \in Threads : call[t].stub # s
        PROVE  SaidHooked(records.seq, s) <=> tasks[s] # NoTask
    BY <1>2, <2>3 DEF LogInv, LogOf
  <2> QED
    BY <2>1, <2>2, <2>3 DEF LogReplays, SaidHooked, SaysLast
<1> QED
  BY <1>1, <1>2, PTL
=============================================================================
