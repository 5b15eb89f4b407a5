------------------------ MODULE DlopenMonitorProofs ------------------------
(***************************************************************************)
(* Proofs about DlopenMonitor: the monitor of dlopen is started at most    *)
(* once, and every pending hook that is accepted has one.                  *)
(***************************************************************************)
EXTENDS DlopenMonitor, TLAPS

(* do_dlopen carries our patch exactly from the moment the thread in the   *)
(* section of hook_lock has written it; before that nobody can have asked  *)
(* for it without setting the flag.                                        *)
HookInv ==
    /\ \A i, j \in OursIn(patches) : i = j
    /\ ~dlopen_hooked => hook_lock = Nobody /\ OursIn(patches) = {}
    /\ result = "ok" => OursIn(patches) # {} /\ post_dlopen
    /\ switch # Nobody => patches # <<>>
    /\ \A t \in Threads :
        /\ pc[t] \in {"init", "patch"} => OursIn(patches) = {}
        /\ pc[t] = "hooked" => OursIn(patches) # {}
        /\ pc[t] \in {"patch", "hooked"} => post_dlopen

(* The same for the thread, whose flag is set after the fact.              *)
StartInv ==
    /\ monitors \in {0, 1}
    /\ started_result = "ok" <=> monitors = 1
    /\ ~thread_started /\ monitors = 1 => start_lock # Nobody
    /\ \A t \in Threads : pc[t] = "create" => ~thread_started /\ monitors = 0

(* A pending hook goes on to the thread only if do_dlopen was hooked.      *)
OpInv == \A t \in Threads :
    /\ pc[t] \in {"start", "start lock"} \union StartSection =>
        op[t] = "pending" /\ result = "ok"
    /\ pc[t] = "switch hook" => op[t] # "pending"
    /\ pc[t] = "switch unhook" => op[t] # "pending" /\ switch = t
    /\ pc[t] = "return" /\ op[t] = "pending" /\ answer[t] = "ok" =>
        result = "ok" /\ started_result = "ok"

IInv == Typed /\ HookInv /\ StartInv /\ OpInv

USE ConstantsAssumption DEF ConstantsAssumption, Nobody, Us

(* Taking a user's jump off the head of do_dlopen leaves ours in place.    *)
LEMMA FrontKeepsOurs ==
    ASSUME NEW s \in Seq(Threads \union {Us}), NEW t \in Threads, s # <<>>, Last(s) = t
    PROVE  /\ Front(s) \in Seq(Threads \union {Us})
           /\ OursIn(Front(s)) = OursIn(s)
<1>1. Len(s) \in Nat \ {0} /\ s[Len(s)] = t
  BY DEF Last
<1>2. Front(s) = [i \in 1..(Len(s) - 1) |-> s[i]]
  BY <1>1 DEF Front
<1>3. Front(s) \in Seq(Threads \union {Us}) /\ Len(Front(s)) = Len(s) - 1
  BY <1>1, <1>2
<1>4. DOMAIN s = 1..Len(s) /\ DOMAIN Front(s) = 1..(Len(s) - 1)
  BY <1>2
<1>. QED  BY <1>1, <1>2, <1>3, <1>4 DEF OursIn

LEMMA AppendOurs ==
    ASSUME NEW s \in Seq(Threads \union {Us}), NEW o \in Threads \union {Us}
    PROVE  /\ Append(s, o) \in Seq(Threads \union {Us}) /\ Append(s, o) # <<>>
           /\ o # Us => OursIn(Append(s, o)) = OursIn(s)
           /\ o = Us => OursIn(Append(s, o)) = OursIn(s) \union {Len(s) + 1}
<1>1. Len(Append(s, o)) = Len(s) + 1 /\ Append(s, o)[Len(s) + 1] = o
  OBVIOUS
<1>2. \A i \in 1..Len(s) : Append(s, o)[i] = s[i]
  OBVIOUS
<1>3. DOMAIN s = 1..Len(s) /\ DOMAIN Append(s, o) = 1..(Len(s) + 1) /\ Len(s) \in Nat
  OBVIOUS
<1>. QED  BY <1>1, <1>2, <1>3 DEF OursIn

(* A thread that neither holds nor takes one of the two locks and leaves   *)
(* alone what they protect only has to respect OpInv.                      *)
Kinds == {"none", "pending", "dlopen", "unhook"}

Quiet(t, w, o, r) ==
    /\ w \in Points \ (HookSection \union StartSection) /\ o \in Kinds /\ r \in Results
    /\ pc[t] \notin HookSection \union StartSection
    /\ pc' = [pc EXCEPT ![t] = w]
    /\ op' = [op EXCEPT ![t] = o] /\ answer' = [answer EXCEPT ![t] = r]
    /\ UNCHANGED <<linkerVars, threadVars, patches, switch>>
    /\ dl_mutex' \in Threads \union {Nobody} /\ ops' \in 0..MaxOps
    /\ w \in {"start", "start lock"} => o = "pending" /\ result = "ok"
    /\ w = "switch hook" => o # "pending"
    /\ w = "switch unhook" => o # "pending" /\ switch = t
    /\ w = "return" /\ o = "pending" /\ r = "ok" => result = "ok" /\ started_result = "ok"

LEMMA QuietStep ==
    ASSUME IInv, NEW t \in Threads, NEW w, NEW o, NEW r, Quiet(t, w, o, r)
    PROVE  IInv'
<1>. USE DEF Quiet, Kinds
<1>1. CallTypeOK'
  BY DEF IInv, Typed, CallTypeOK
<1>2. LockHolders'
  BY DEF IInv, Typed, CallTypeOK, LockHolders, linkerVars, threadVars
<1>3. LinkerTypeOK' /\ StartTypeOK' /\ PatchTypeOK'
  BY DEF IInv, Typed, LinkerTypeOK, StartTypeOK, PatchTypeOK, linkerVars, threadVars
<1>4. HookInv'
  BY DEF IInv, Typed, CallTypeOK, HookInv, HookSection, linkerVars, threadVars
<1>5. StartInv'
  BY DEF IInv, Typed, CallTypeOK, StartInv, StartSection, linkerVars, threadVars
<1>6. OpInv'
  BY DEF IInv, Typed, CallTypeOK, OpInv, StartSection, linkerVars, threadVars
<1>. QED  BY <1>1, <1>2, <1>3, <1>4, <1>5, <1>6 DEF IInv, Typed

(* A lock that is taken or released with the section stays with its thread.*)
Follows(lock, section, t, w) ==
    \/ lock' = lock /\ (pc[t] \in section <=> w \in section)
    \/ lock = Nobody /\ lock' = t /\ w \in section
    \/ lock = t /\ lock' = Nobody /\ w \notin section

LEMMA LocksFollow ==
    ASSUME IInv, NEW t \in Threads, NEW w, pc' = [pc EXCEPT ![t] = w],
           Follows(hook_lock, HookSection, t, w), Follows(start_lock, StartSection, t, w)
    PROVE  LockHolders'
<1>1. pc'[t] = w /\ \A u \in Threads : u # t => pc'[u] = pc[u]
  BY DEF IInv, Typed, CallTypeOK
<1>2. \A u \in Threads : hook_lock' = u <=> pc'[u] \in HookSection
  BY <1>1 DEF Follows, IInv, Typed, LockHolders
<1>3. \A u \in Threads : start_lock' = u <=> pc'[u] \in StartSection
  BY <1>1 DEF Follows, IInv, Typed, LockHolders
<1>. QED  BY <1>2, <1>3 DEF LockHolders, HookSection, StartSection

(* A step that changes neither the thread's state nor its section.         *)
StartAlone(t, w) ==
    /\ pc' = [pc EXCEPT ![t] = w] /\ w # "create"
    /\ UNCHANGED <<thread_started, started_result, monitors, start_lock>>

LEMMA StartStays ==
    ASSUME IInv, NEW t \in Threads, NEW w, StartAlone(t, w)
    PROVE  StartInv'
<1>1. pc'[t] = w /\ w # "create" /\ \A u \in Threads : u # t => pc'[u] = pc[u]
  BY DEF StartAlone, IInv, Typed, CallTypeOK
<1>2. UNCHANGED <<thread_started, started_result, monitors, start_lock>>
  BY DEF StartAlone
<1>. QED  BY <1>1, <1>2 DEF IInv, StartInv

(* The same for do_dlopen, and for the calls.                              *)
HookAlone(t, w) ==
    /\ pc' = [pc EXCEPT ![t] = w] /\ w \notin {"init", "patch", "hooked"}
    /\ UNCHANGED <<dlopen_hooked, result, post_dlopen, hook_lock>>
    /\ OursIn(patches') = OursIn(patches)
    /\ UNCHANGED <<switch, patches>> \/ switch' = Nobody \/ patches' # <<>>

LEMMA HookStays ==
    ASSUME IInv, NEW t \in Threads, NEW w, HookAlone(t, w)
    PROVE  HookInv'
<1>1. /\ pc'[t] = w /\ w \notin {"init", "patch", "hooked"}
      /\ \A u \in Threads : u # t => pc'[u] = pc[u]
  BY DEF HookAlone, IInv, Typed, CallTypeOK
<1>2. /\ UNCHANGED <<dlopen_hooked, result, post_dlopen, hook_lock>>
      /\ OursIn(patches') = OursIn(patches)
      /\ switch' # Nobody => patches' # <<>>
  BY DEF HookAlone, IInv, HookInv
<1>. QED  BY <1>1, <1>2 DEF IInv, HookInv

OpAlone(t, w, r) ==
    /\ pc' = [pc EXCEPT ![t] = w] /\ op' = op /\ answer' = [answer EXCEPT ![t] = r]
    /\ UNCHANGED <<result, started_result>>
    /\ \A u \in Threads : u # t /\ switch = u => switch' = u
    /\ w \notin {"start", "start lock", "switch hook", "switch unhook"} \union StartSection
    /\ w = "return" /\ op[t] = "pending" /\ r = "ok" => result = "ok" /\ started_result = "ok"

LEMMA OpStays ==
    ASSUME IInv, NEW t \in Threads, NEW w, NEW r, OpAlone(t, w, r)
    PROVE  OpInv'
<1>1. /\ pc'[t] = w /\ \A u \in Threads : u # t => pc'[u] = pc[u]
      /\ answer'[t] = r /\ \A u \in Threads : u # t => answer'[u] = answer[u]
  BY DEF OpAlone, IInv, Typed, CallTypeOK
<1>2. ASSUME NEW u \in Threads, u # t
      PROVE  /\ pc'[u] \in {"start", "start lock"} \union StartSection =>
                 op'[u] = "pending" /\ result' = "ok"
             /\ pc'[u] = "switch hook" => op'[u] # "pending"
             /\ pc'[u] = "switch unhook" => op'[u] # "pending" /\ switch' = u
             /\ pc'[u] = "return" /\ op'[u] = "pending" /\ answer'[u] = "ok" =>
                 result' = "ok" /\ started_result' = "ok"
  BY <1>1, <1>2 DEF OpAlone, IInv, OpInv
<1>3. /\ pc'[t] \notin {"start", "start lock", "switch hook", "switch unhook"} \union StartSection
      /\ pc'[t] = "return" /\ op'[t] = "pending" /\ answer'[t] = "ok" =>
            result' = "ok" /\ started_result' = "ok"
  BY <1>1 DEF OpAlone
<1>. QED  BY <1>2, <1>3 DEF OpInv, StartSection

(* Where sh_task_hook goes on with the answer of sh_linker_hook_dlopen.    *)
Goes(t, r, w) ==
    /\ pc' = [pc EXCEPT ![t] = w]
    /\ w = "start" => op[t] = "pending" /\ r = "ok"
    /\ w = "switch hook" => op[t] # "pending" /\ r = "ok"
    /\ w = "return" => r # "ok"

LEMMA StartedGoes ==
    ASSUME NEW t \in Threads, NEW r, Started(t, r)
    PROVE  /\ answer' = [answer EXCEPT ![t] = r]
           /\ \E w \in {"start", "switch hook", "return"} : Goes(t, r, w)
  BY DEF Started, Answer, Goto, Goes

LEMMA OpsBound ==
    ASSUME ops \in 0..MaxOps, ops < MaxOps, ops' = ops + 1
    PROVE  ops' \in 0..MaxOps
  OBVIOUS

LEMMA CallTypes ==
    ASSUME IInv, NEW t \in Threads
    PROVE  /\ op[t] \in Kinds /\ answer[t] \in Results
           /\ op = [op EXCEPT ![t] = op[t]] /\ answer = [answer EXCEPT ![t] = answer[t]]
           /\ result \in Results /\ started_result \in Results
           /\ dl_mutex \in Threads \union {Nobody} /\ ops \in 0..MaxOps
  BY DEF Kinds, IInv, Typed, CallTypeOK, LinkerTypeOK, StartTypeOK, PatchTypeOK

(* The steps that end sh_linker_hook_dlopen without the lock.              *)
LEMMA StartedKeeps ==
    ASSUME IInv, NEW t \in Threads, pc[t] \notin HookSection \union StartSection,
           Started(t, result),
           UNCHANGED <<linkerVars, threadVars, dl_mutex, patches, switch, op, ops>>
    PROVE  IInv'
<1>1. PICK w \in {"start", "switch hook", "return"} : Goes(t, result, w)
  BY StartedGoes
<1>2. answer' = [answer EXCEPT ![t] = result] /\ result \in Results
  BY StartedGoes, CallTypes
<1>3. op' = [op EXCEPT ![t] = op[t]] /\ op[t] \in Kinds
  BY CallTypes
<1>4. dl_mutex' \in Threads \union {Nobody} /\ ops' \in 0..MaxOps
  BY CallTypes
<1>5. w \in Points \ (HookSection \union StartSection)
  BY DEF Points, HookSection, StartSection
<1>6. UNCHANGED <<linkerVars, threadVars, patches, switch>>
  OBVIOUS
<1>7. Quiet(t, w, op[t], result)
  BY <1>1, <1>2, <1>3, <1>4, <1>5, <1>6 DEF Quiet, Goes
<1>. QED  BY <1>7, QuietStep

(* Every step keeps the invariant: first the calls that begin, then the    *)
(* steps of sh_linker_hook_dlopen, of sh_task_start_monitor and of the     *)
(* switch.  The first fact of each proof is the effect of the step.        *)
LEMMA BeginKeeps ==
    ASSUME IInv, NEW t \in Threads,
           BeginPending(t) \/ BeginDlopen(t) \/ BeginUnhook(t)
    PROVE  IInv'
<1>. DEFINE From(what, first) ==
        /\ pc[t] = "idle" /\ pc' = [pc EXCEPT ![t] = first]
        /\ op' = [op EXCEPT ![t] = what] /\ answer' = [answer EXCEPT ![t] = "none"]
        /\ UNCHANGED <<linkerVars, threadVars, patches, switch>>
<1>1. ops' \in 0..MaxOps
  BY CallTypes, OpsBound DEF BeginPending, BeginDlopen, BeginUnhook, Begin
<1>2. dl_mutex' \in Threads \union {Nobody}
  BY CallTypes DEF BeginPending, BeginDlopen, BeginUnhook, Begin
<1>3. CASE BeginPending(t)
  <2>1. From("pending", "hook dlopen")
    BY <1>3 DEF BeginPending, Begin, Goto, Answer
  <2>2. Quiet(t, "hook dlopen", "pending", "none")
    BY <1>1, <1>2, <2>1 DEF Quiet, Kinds, Points, Results, HookSection, StartSection
  <2>. QED  BY <2>2, QuietStep
<1>4. CASE BeginDlopen(t)
  <2>1. From("dlopen", "hook dlopen") \/ From("dlopen", "switch hook")
    BY <1>4 DEF BeginDlopen, Begin, Goto, Answer
  <2>2. Quiet(t, "hook dlopen", "dlopen", "none") \/ Quiet(t, "switch hook", "dlopen", "none")
    BY <1>1, <1>2, <2>1 DEF Quiet, Kinds, Points, Results, HookSection, StartSection
  <2>. QED  BY <2>2, QuietStep
<1>5. CASE BeginUnhook(t)
  <2>1. From("unhook", "switch unhook") /\ switch = t
    BY <1>5 DEF BeginUnhook, Begin, Goto, Answer
  <2>2. Quiet(t, "switch unhook", "unhook", "none")
    BY <1>1, <1>2, <2>1 DEF Quiet, Kinds, Points, Results, HookSection, StartSection
  <2>. QED  BY <2>2, QuietStep
<1>. QED  BY <1>3, <1>4, <1>5

LEMMA HookedAlreadyKeeps ==
    ASSUME IInv, NEW t \in Threads, HookedAlready(t)
    PROVE  IInv'
<1>1. pc[t] = "hook dlopen" /\ UNCHANGED <<linkerVars, threadVars, dl_mutex, patches, switch, op, ops>>
  BY DEF HookedAlready
<1>2. CASE dlopen_hooked
  <2>1. Started(t, result)
    BY <1>2 DEF HookedAlready
  <2>. QED  BY <1>1, <2>1, StartedKeeps DEF HookSection, StartSection
<1>3. CASE ~dlopen_hooked
  <2>1. pc' = [pc EXCEPT ![t] = "lock"] /\ answer' = answer
    BY <1>3 DEF HookedAlready, Goto
  <2>2. Quiet(t, "lock", op[t], answer[t])
    BY <1>1, <2>1, CallTypes DEF Quiet, Points, HookSection, StartSection
  <2>. QED  BY <2>2, QuietStep
<1>. QED  BY <1>2, <1>3

LEMMA HookLockedKeeps ==
    ASSUME IInv, NEW t \in Threads, HookLocked(t)
    PROVE  IInv'
<1>1. CASE ~dlopen_hooked
  <2>1. /\ pc[t] = "lock" /\ pc' = [pc EXCEPT ![t] = "init"]
        /\ hook_lock' = t
        /\ dlopen_hooked' = TRUE
        /\ hook_lock = Nobody
        /\ ~dlopen_hooked
        /\ UNCHANGED <<result, post_dlopen, thread_started, started_result,
                       start_lock, monitors, patches, switch, op, answer,
                       ops, dl_mutex>>
    BY <1>1 DEF HookLocked, Goto, Answer, linkerVars, threadVars, Started, IInv, Typed, CallTypeOK
  <2>a. /\ pc'[t] = "init" /\ \A u \in Threads : u # t => pc'[u] = pc[u]
    BY <2>1 DEF IInv, Typed, CallTypeOK
  <2>2. LinkerTypeOK' /\ StartTypeOK' /\ ops' \in 0..MaxOps
    BY <2>1 DEF IInv, Typed, LinkerTypeOK, StartTypeOK, Results
  <2>3. PatchTypeOK'
    BY <2>1 DEF IInv, Typed, PatchTypeOK
  <2>4. CallTypeOK'
    BY <2>1 DEF IInv, Typed, CallTypeOK, LinkerTypeOK, StartTypeOK,
                Points, Results, HookSection, StartSection
  <2>5. LockHolders'
    BY <2>1, LocksFollow DEF Follows, HookSection, StartSection, IInv, Typed,
        LockHolders
  <2>6. HookInv'
    BY <2>1, <2>a DEF IInv, Typed, PatchTypeOK, LockHolders, HookInv, HookSection
  <2>7. StartInv'
    BY <2>1, StartStays DEF StartAlone
  <2>8. OpInv'
    BY <2>1, <2>a DEF IInv, Typed, HookInv, StartInv, OpInv, StartSection
  <2>. QED  BY <2>2, <2>3, <2>4, <2>5, <2>6, <2>7, <2>8 DEF IInv, Typed
<1>2. CASE dlopen_hooked
  <2>1. /\ Started(t, result) /\ pc[t] = "lock"
        /\ UNCHANGED <<linkerVars, threadVars, dl_mutex, patches, switch, op, ops>>
    BY <1>2 DEF HookLocked, linkerVars
  <2>. QED  BY <2>1, StartedKeeps DEF HookSection, StartSection
<1>. QED  BY <1>1, <1>2

LEMMA HookInitKeeps ==
    ASSUME IInv, NEW t \in Threads, HookInit(t)
    PROVE  IInv'
<1>1. CASE post_dlopen' = TRUE /\ pc'[t] = "patch"
  <2>1. /\ pc[t] = "init" /\ pc' = [pc EXCEPT ![t] = "patch"]
        /\ post_dlopen' = TRUE
        /\ UNCHANGED <<dlopen_hooked, result, hook_lock, thread_started,
                       started_result, start_lock, monitors, patches, switch,
                       op, answer, ops, dl_mutex>>
    BY <1>1 DEF HookInit, Goto, Answer, linkerVars, threadVars, Started, IInv, Typed, CallTypeOK, HookInv
  <2>a. /\ pc'[t] = "patch" /\ \A u \in Threads : u # t => pc'[u] = pc[u]
    BY <2>1 DEF IInv, Typed, CallTypeOK
  <2>2. LinkerTypeOK' /\ StartTypeOK' /\ ops' \in 0..MaxOps
    BY <2>1 DEF IInv, Typed, LinkerTypeOK, StartTypeOK, Results
  <2>3. PatchTypeOK'
    BY <2>1 DEF IInv, Typed, PatchTypeOK
  <2>4. CallTypeOK'
    BY <2>1 DEF IInv, Typed, CallTypeOK, LinkerTypeOK, StartTypeOK,
                Points, Results, HookSection, StartSection
  <2>5. LockHolders'
    BY <2>1, LocksFollow DEF Follows, HookSection, StartSection, IInv, Typed,
        LockHolders
  <2>6. HookInv'
    BY <2>1, <2>a DEF IInv, Typed, PatchTypeOK, LockHolders, HookInv, HookSection
  <2>7. StartInv'
    BY <2>1, StartStays DEF StartAlone
  <2>8. OpInv'
    BY <2>1, <2>a DEF IInv, Typed, HookInv, StartInv, OpInv, StartSection
  <2>. QED  BY <2>2, <2>3, <2>4, <2>5, <2>6, <2>7, <2>8 DEF IInv, Typed
<1>2. CASE pc'[t] # "patch"
  <2>1. /\ pc[t] = "init" /\ pc' = [pc EXCEPT ![t] = "return"]
        /\ hook_lock' = Nobody
        /\ answer' = [answer EXCEPT ![t] = result]
        /\ result # "ok"
        /\ UNCHANGED <<dlopen_hooked, result, post_dlopen, thread_started,
                       started_result, start_lock, monitors, patches, switch,
                       op, ops, dl_mutex>>
    BY <1>2 DEF HookInit, Goto, Answer, linkerVars, threadVars, Started, IInv, Typed, CallTypeOK, HookInv
  <2>a. /\ pc'[t] = "return" /\ \A u \in Threads : u # t => pc'[u] = pc[u]
        /\ answer'[t] = result /\ \A u \in Threads : u # t => answer'[u] = answer[u]
    BY <2>1 DEF IInv, Typed, CallTypeOK
  <2>2. LinkerTypeOK' /\ StartTypeOK' /\ ops' \in 0..MaxOps
    BY <2>1 DEF IInv, Typed, LinkerTypeOK, StartTypeOK, Results
  <2>3. PatchTypeOK'
    BY <2>1 DEF IInv, Typed, PatchTypeOK
  <2>4. CallTypeOK'
    BY <2>1 DEF IInv, Typed, CallTypeOK, LinkerTypeOK, StartTypeOK,
                Points, Results, HookSection, StartSection
  <2>5. LockHolders'
    BY <2>1, LocksFollow DEF Follows, HookSection, StartSection, IInv, Typed,
        LockHolders
  <2>6. HookInv'
    BY <2>1, <2>a DEF IInv, Typed, PatchTypeOK, LockHolders, HookInv, HookSection
  <2>7. StartInv'
    BY <2>1, StartStays DEF StartAlone
  <2>8. OpInv'
    BY <2>1, <2>a DEF IInv, Typed, HookInv, StartInv, OpInv, StartSection
  <2>. QED  BY <2>2, <2>3, <2>4, <2>5, <2>6, <2>7, <2>8 DEF IInv, Typed
<1>. QED  BY <1>1, <1>2 DEF HookInit, Goto, Answer, linkerVars, threadVars, Started, IInv, Typed, CallTypeOK

LEMMA HookPatchKeeps ==
    ASSUME IInv, NEW t \in Threads, HookPatch(t)
    PROVE  IInv'
<1>1. CASE pc'[t] = "hooked"
  <2>1. /\ pc[t] = "patch" /\ pc' = [pc EXCEPT ![t] = "hooked"]
        /\ patches' = Append(patches, Us)
        /\ UNCHANGED <<dlopen_hooked, result, hook_lock, post_dlopen,
                       thread_started, started_result, start_lock, monitors,
                       switch, op, answer, ops, dl_mutex>>
    BY <1>1 DEF HookPatch, Goto, Answer, linkerVars, threadVars, IInv, Typed, CallTypeOK
  <2>a. /\ pc'[t] = "hooked" /\ \A u \in Threads : u # t => pc'[u] = pc[u]
    BY <2>1 DEF IInv, Typed, CallTypeOK
  <2>2. patches \in Seq(Threads \union {Us})
    BY <2>1 DEF IInv, Typed, PatchTypeOK
  <2>3. /\ patches' \in Seq(Threads \union {Us}) /\ patches' # <<>>
        /\ OursIn(patches') = OursIn(patches) \union {Len(patches) + 1}
    BY <2>1, <2>2, AppendOurs
  <2>4. LinkerTypeOK' /\ StartTypeOK' /\ ops' \in 0..MaxOps
    BY <2>1 DEF IInv, Typed, LinkerTypeOK, StartTypeOK, Results
  <2>5. PatchTypeOK'
    BY <2>1, <2>2, <2>3 DEF IInv, Typed, PatchTypeOK
  <2>6. CallTypeOK'
    BY <2>1 DEF IInv, Typed, CallTypeOK, LinkerTypeOK, StartTypeOK,
                Points, Results, HookSection, StartSection
  <2>7. LockHolders'
    BY <2>1, LocksFollow DEF Follows, HookSection, StartSection, IInv, Typed,
        LockHolders
  <2>8. HookInv'
    BY <2>1, <2>2, <2>3, <2>a DEF IInv, Typed, PatchTypeOK, LockHolders, HookInv,
        HookSection
  <2>9. StartInv'
    BY <2>1, StartStays DEF StartAlone
  <2>10. OpInv'
    BY <2>1, <2>2, <2>3, <2>a DEF IInv, Typed, HookInv, StartInv, OpInv,
        StartSection
  <2>. QED  BY <2>4, <2>5, <2>6, <2>7, <2>8, <2>9, <2>10 DEF IInv, Typed
<1>2. CASE pc'[t] = "failed"
  <2>1. /\ pc[t] = "patch" /\ pc' = [pc EXCEPT ![t] = "failed"]
        /\ (result' = result \/ result' = "linker arch mismatch")
        /\ UNCHANGED <<dlopen_hooked, hook_lock, post_dlopen, thread_started,
                       started_result, start_lock, monitors, patches, switch,
                       op, answer, ops, dl_mutex>>
    BY <1>2 DEF HookPatch, Goto, Answer, linkerVars, threadVars, IInv, Typed, CallTypeOK
  <2>a. /\ pc'[t] = "failed" /\ \A u \in Threads : u # t => pc'[u] = pc[u]
    BY <2>1 DEF IInv, Typed, CallTypeOK
  <2>2. LinkerTypeOK' /\ StartTypeOK' /\ ops' \in 0..MaxOps
    BY <2>1 DEF IInv, Typed, LinkerTypeOK, StartTypeOK, Results
  <2>3. PatchTypeOK'
    BY <2>1 DEF IInv, Typed, PatchTypeOK
  <2>4. CallTypeOK'
    BY <2>1 DEF IInv, Typed, CallTypeOK, LinkerTypeOK, StartTypeOK,
                Points, Results, HookSection, StartSection
  <2>5. LockHolders'
    BY <2>1, LocksFollow DEF Follows, HookSection, StartSection, IInv, Typed,
        LockHolders
  <2>6. HookInv'
    BY <2>1, <2>a DEF IInv, Typed, PatchTypeOK, LockHolders, HookInv, HookSection
  <2>7. StartInv'
    BY <2>1, StartStays DEF StartAlone
  <2>8. OpInv'
    BY <2>1, <2>a DEF IInv, Typed, HookInv, StartInv, OpInv, StartSection
  <2>. QED  BY <2>2, <2>3, <2>4, <2>5, <2>6, <2>7, <2>8 DEF IInv, Typed
<1>. QED  BY <1>1, <1>2 DEF HookPatch, Goto, Answer, linkerVars, threadVars, IInv, Typed, CallTypeOK

LEMMA HookEndKeeps ==
    ASSUME IInv, NEW t \in Threads, HookEnd(t)
    PROVE  IInv'
<1>0. PICK w \in {"start", "switch hook", "return"} : Goes(t, result', w)
  BY StartedGoes DEF HookEnd
<1>1. /\ pc' = [pc EXCEPT ![t] = w]
      /\ w = "start" => op[t] = "pending" /\ result' = "ok"
      /\ w = "switch hook" => op[t] # "pending" /\ result' = "ok"
      /\ w = "return" => result' # "ok"
  BY <1>0 DEF Goes
<1>2. /\ pc[t] \in {"hooked", "failed"}
      /\ answer' = [answer EXCEPT ![t] = result']
      /\ result' = IF pc[t] = "hooked" THEN "ok" ELSE result
      /\ hook_lock' = Nobody
      /\ UNCHANGED <<dlopen_hooked, post_dlopen, threadVars, dl_mutex, patches, switch, op, ops>>
  BY StartedGoes DEF HookEnd
<1>3. LinkerTypeOK' /\ StartTypeOK' /\ PatchTypeOK' /\ ops' \in 0..MaxOps
  BY <1>2 DEF IInv, Typed, LinkerTypeOK, StartTypeOK, PatchTypeOK, Results, threadVars
<1>4. CallTypeOK'
  BY <1>1, <1>2, <1>3 DEF IInv, Typed, CallTypeOK, LinkerTypeOK, Points
<1>5. LockHolders'
  BY <1>1, <1>2 DEF IInv, Typed, CallTypeOK, LockHolders, HookSection, StartSection, threadVars
<1>6. HookInv'
  BY <1>1, <1>2 DEF IInv, Typed, CallTypeOK, HookInv
<1>7. StartInv'
  BY <1>1, <1>2 DEF IInv, Typed, CallTypeOK, StartInv, threadVars
<1>8. OpInv'
  BY <1>1, <1>2 DEF IInv, Typed, CallTypeOK, OpInv, StartSection, threadVars
<1>. QED  BY <1>3, <1>4, <1>5, <1>6, <1>7, <1>8 DEF IInv, Typed

LEMMA StartedAlreadyKeeps ==
    ASSUME IInv, NEW t \in Threads, StartedAlready(t)
    PROVE  IInv'
<1>1. /\ pc[t] = "start" /\ op[t] = "pending" /\ result = "ok"
      /\ UNCHANGED <<linkerVars, threadVars, dl_mutex, patches, switch, op, ops>>
  BY DEF StartedAlready, IInv, OpInv
<1>2. \/ pc' = [pc EXCEPT ![t] = "return"] /\ answer' = [answer EXCEPT ![t] = started_result]
      \/ pc' = [pc EXCEPT ![t] = "start lock"] /\ answer' = answer
  BY DEF StartedAlready, Goto, Answer
<1>3. /\ op' = [op EXCEPT ![t] = "pending"]
      /\ UNCHANGED <<linkerVars, threadVars, patches, switch>>
  BY <1>1, CallTypes
<1>4. CASE pc' = [pc EXCEPT ![t] = "return"] /\ answer' = [answer EXCEPT ![t] = started_result]
  <2>1. Quiet(t, "return", "pending", started_result)
    BY <1>1, <1>3, <1>4, CallTypes DEF Quiet, Kinds, Points, HookSection, StartSection
  <2>. QED  BY <2>1, QuietStep
<1>5. CASE pc' = [pc EXCEPT ![t] = "start lock"] /\ answer' = answer
  <2>1. Quiet(t, "start lock", "pending", answer[t])
    BY <1>1, <1>3, <1>5, CallTypes DEF Quiet, Kinds, Points, HookSection, StartSection
  <2>. QED  BY <2>1, QuietStep
<1>. QED  BY <1>2, <1>4, <1>5

LEMMA StartLockedKeeps ==
    ASSUME IInv, NEW t \in Threads, StartLocked(t)
    PROVE  IInv'
<1>1. CASE thread_started
  <2>1. /\ pc[t] = "start lock" /\ pc' = [pc EXCEPT ![t] = "start end"]
        /\ start_lock' = t
        /\ start_lock = Nobody
        /\ thread_started
        /\ UNCHANGED <<dlopen_hooked, result, hook_lock, post_dlopen,
                       thread_started, started_result, monitors, patches,
                       switch, op, answer, ops, dl_mutex>>
    BY <1>1 DEF StartLocked, Goto, Answer, linkerVars, threadVars, IInv, Typed, CallTypeOK
  <2>a. /\ pc'[t] = "start end" /\ \A u \in Threads : u # t => pc'[u] = pc[u]
    BY <2>1 DEF IInv, Typed, CallTypeOK
  <2>2. LinkerTypeOK' /\ StartTypeOK' /\ ops' \in 0..MaxOps
    BY <2>1 DEF IInv, Typed, LinkerTypeOK, StartTypeOK, Results
  <2>3. PatchTypeOK'
    BY <2>1 DEF IInv, Typed, PatchTypeOK
  <2>4. CallTypeOK'
    BY <2>1 DEF IInv, Typed, CallTypeOK, LinkerTypeOK, StartTypeOK,
                Points, Results, HookSection, StartSection
  <2>5. LockHolders'
    BY <2>1, LocksFollow DEF Follows, HookSection, StartSection, IInv, Typed,
        LockHolders
  <2>6. HookInv'
    BY <2>1, HookStays DEF HookAlone
  <2>7. StartInv'
    BY <2>1, <2>a DEF IInv, Typed, StartTypeOK, LockHolders, StartInv,
        StartSection
  <2>8. OpInv'
    BY <2>1, <2>a DEF IInv, Typed, HookInv, StartInv, OpInv, StartSection
  <2>. QED  BY <2>2, <2>3, <2>4, <2>5, <2>6, <2>7, <2>8 DEF IInv, Typed
<1>2. CASE ~thread_started
  <2>1. /\ pc[t] = "start lock" /\ pc' = [pc EXCEPT ![t] = "create"]
        /\ start_lock' = t
        /\ start_lock = Nobody
        /\ ~thread_started
        /\ UNCHANGED <<dlopen_hooked, result, hook_lock, post_dlopen,
                       thread_started, started_result, monitors, patches,
                       switch, op, answer, ops, dl_mutex>>
    BY <1>2 DEF StartLocked, Goto, Answer, linkerVars, threadVars, IInv, Typed, CallTypeOK
  <2>a. /\ pc'[t] = "create" /\ \A u \in Threads : u # t => pc'[u] = pc[u]
    BY <2>1 DEF IInv, Typed, CallTypeOK
  <2>2. LinkerTypeOK' /\ StartTypeOK' /\ ops' \in 0..MaxOps
    BY <2>1 DEF IInv, Typed, LinkerTypeOK, StartTypeOK, Results
  <2>3. PatchTypeOK'
    BY <2>1 DEF IInv, Typed, PatchTypeOK
  <2>4. CallTypeOK'
    BY <2>1 DEF IInv, Typed, CallTypeOK, LinkerTypeOK, StartTypeOK,
                Points, Results, HookSection, StartSection
  <2>5. LockHolders'
    BY <2>1, LocksFollow DEF Follows, HookSection, StartSection, IInv, Typed,
        LockHolders
  <2>6. HookInv'
    BY <2>1, HookStays DEF HookAlone
  <2>7. StartInv'
    BY <2>1, <2>a DEF IInv, Typed, StartTypeOK, LockHolders, StartInv,
        StartSection
  <2>8. OpInv'
    BY <2>1, <2>a DEF IInv, Typed, HookInv, StartInv, OpInv, StartSection
  <2>. QED  BY <2>2, <2>3, <2>4, <2>5, <2>6, <2>7, <2>8 DEF IInv, Typed
<1>. QED  BY <1>1, <1>2 DEF StartLocked, Goto, Answer, linkerVars, threadVars, IInv, Typed, CallTypeOK

LEMMA StartCreateKeeps ==
    ASSUME IInv, NEW t \in Threads, StartCreate(t)
    PROVE  IInv'
<1>1. CASE monitors' = monitors + 1 /\ started_result' = "ok"
  <2>1. /\ pc[t] = "create" /\ pc' = [pc EXCEPT ![t] = "start end"]
        /\ monitors = 0 /\ monitors' = 1
        /\ started_result' = "ok"
        /\ UNCHANGED <<dlopen_hooked, result, hook_lock, post_dlopen,
                       thread_started, start_lock, patches, switch, op,
                       answer, ops, dl_mutex>>
    <3>1. pc[t] = "create" /\ pc' = [pc EXCEPT ![t] = "start end"]
      BY DEF StartCreate, Goto
    <3>2. monitors = 0
      BY <3>1 DEF IInv, StartInv
    <3>3. monitors' = 1 /\ started_result' = "ok"
      BY <1>1, <3>2
    <3>4. UNCHANGED <<linkerVars, dl_mutex, patches, switch, op, answer, ops,
                      thread_started, start_lock>>
      BY DEF StartCreate
    <3>. QED  BY <3>1, <3>2, <3>3, <3>4 DEF linkerVars
  <2>a. /\ pc'[t] = "start end" /\ \A u \in Threads : u # t => pc'[u] = pc[u]
    BY <2>1 DEF IInv, Typed, CallTypeOK
  <2>2. LinkerTypeOK' /\ StartTypeOK' /\ ops' \in 0..MaxOps
    BY <2>1 DEF IInv, Typed, LinkerTypeOK, StartTypeOK, Results
  <2>3. PatchTypeOK'
    BY <2>1 DEF IInv, Typed, PatchTypeOK
  <2>4. CallTypeOK'
    BY <2>1 DEF IInv, Typed, CallTypeOK, LinkerTypeOK, StartTypeOK,
                Points, Results, HookSection, StartSection
  <2>5. LockHolders'
    BY <2>1, LocksFollow DEF Follows, HookSection, StartSection, IInv, Typed,
        LockHolders
  <2>6. HookInv'
    BY <2>1, HookStays DEF HookAlone
  <2>7. StartInv'
    BY <2>1, <2>a DEF IInv, Typed, StartTypeOK, LockHolders, StartInv,
        StartSection
  <2>8. OpInv'
    BY <2>1, <2>a DEF IInv, Typed, HookInv, StartInv, OpInv, StartSection
  <2>. QED  BY <2>2, <2>3, <2>4, <2>5, <2>6, <2>7, <2>8 DEF IInv, Typed
<1>2. CASE UNCHANGED <<monitors, started_result>>
  <2>1. /\ pc[t] = "create" /\ pc' = [pc EXCEPT ![t] = "start end"]
        /\ UNCHANGED <<dlopen_hooked, result, hook_lock, post_dlopen,
                       thread_started, started_result, start_lock, monitors,
                       patches, switch, op, answer, ops, dl_mutex>>
    BY <1>2 DEF StartCreate, Goto, Answer, linkerVars, threadVars, IInv, Typed, CallTypeOK, StartInv
  <2>a. /\ pc'[t] = "start end" /\ \A u \in Threads : u # t => pc'[u] = pc[u]
    BY <2>1 DEF IInv, Typed, CallTypeOK
  <2>2. LinkerTypeOK' /\ StartTypeOK' /\ ops' \in 0..MaxOps
    BY <2>1 DEF IInv, Typed, LinkerTypeOK, StartTypeOK, Results
  <2>3. PatchTypeOK'
    BY <2>1 DEF IInv, Typed, PatchTypeOK
  <2>4. CallTypeOK'
    BY <2>1 DEF IInv, Typed, CallTypeOK, LinkerTypeOK, StartTypeOK,
                Points, Results, HookSection, StartSection
  <2>5. LockHolders'
    BY <2>1, LocksFollow DEF Follows, HookSection, StartSection, IInv, Typed,
        LockHolders
  <2>6. HookInv'
    BY <2>1, HookStays DEF HookAlone
  <2>7. StartInv'
    BY <2>1, <2>a DEF IInv, Typed, StartTypeOK, LockHolders, StartInv,
        StartSection
  <2>8. OpInv'
    BY <2>1, <2>a DEF IInv, Typed, HookInv, StartInv, OpInv, StartSection
  <2>. QED  BY <2>2, <2>3, <2>4, <2>5, <2>6, <2>7, <2>8 DEF IInv, Typed
<1>. QED  BY <1>1, <1>2 DEF StartCreate, Goto, Answer, linkerVars, threadVars, IInv, Typed, CallTypeOK

LEMMA StartEndKeeps ==
    ASSUME IInv, NEW t \in Threads, StartEnd(t)
    PROVE  IInv'
<1>1. /\ pc[t] = "start end" /\ pc' = [pc EXCEPT ![t] = "return"]
      /\ thread_started' = TRUE
      /\ start_lock' = Nobody
      /\ answer' = [answer EXCEPT ![t] = started_result]
      /\ UNCHANGED <<dlopen_hooked, result, hook_lock, post_dlopen,
                     started_result, monitors, patches, switch, op, ops,
                     dl_mutex>>
  BY DEF StartEnd, Goto, Answer, linkerVars, threadVars, IInv, Typed, CallTypeOK
<1>a. /\ pc'[t] = "return" /\ \A u \in Threads : u # t => pc'[u] = pc[u]
      /\ answer'[t] = started_result /\ \A u \in Threads : u # t => answer'[u] = answer[u]
  BY <1>1 DEF IInv, Typed, CallTypeOK
<1>2. LinkerTypeOK' /\ StartTypeOK' /\ ops' \in 0..MaxOps
  BY <1>1 DEF IInv, Typed, LinkerTypeOK, StartTypeOK, Results
<1>3. PatchTypeOK'
  BY <1>1 DEF IInv, Typed, PatchTypeOK
<1>4. CallTypeOK'
  BY <1>1 DEF IInv, Typed, CallTypeOK, LinkerTypeOK, StartTypeOK,
              Points, Results, HookSection, StartSection
<1>5. LockHolders'
  BY <1>1, LocksFollow DEF Follows, HookSection, StartSection, IInv, Typed,
      LockHolders
<1>6. HookInv'
  BY <1>1, HookStays DEF HookAlone
<1>7. StartInv'
  BY <1>1, <1>a DEF IInv, Typed, StartTypeOK, LockHolders, StartInv, StartSection
<1>8. OpInv'
  BY <1>1, OpStays DEF OpAlone, IInv, OpInv, StartSection
<1>. QED  BY <1>2, <1>3, <1>4, <1>5, <1>6, <1>7, <1>8 DEF IInv, Typed

LEMMA SwitchHookKeeps ==
    ASSUME IInv, NEW t \in Threads, SwitchHook(t)
    PROVE  IInv'
<1>1. CASE switch = Nobody /\ switch' = t /\ patches' = Append(patches, t) /\ Answer(t, "ok")
  <2>1. /\ pc[t] = "switch hook" /\ pc' = [pc EXCEPT ![t] = "return"]
        /\ switch' = t
        /\ patches' = Append(patches, t)
        /\ answer' = [answer EXCEPT ![t] = "ok"]
        /\ switch = Nobody
        /\ UNCHANGED <<dlopen_hooked, result, hook_lock, post_dlopen,
                       thread_started, started_result, start_lock, monitors,
                       op, ops, dl_mutex>>
    BY <1>1 DEF SwitchHook, Goto, Answer, linkerVars, threadVars, IInv, Typed, CallTypeOK
  <2>a. /\ pc'[t] = "return" /\ \A u \in Threads : u # t => pc'[u] = pc[u]
        /\ answer'[t] = "ok" /\ \A u \in Threads : u # t => answer'[u] = answer[u]
    BY <2>1 DEF IInv, Typed, CallTypeOK
  <2>2. patches \in Seq(Threads \union {Us})
    BY <2>1 DEF IInv, Typed, PatchTypeOK
  <2>3. /\ patches' \in Seq(Threads \union {Us}) /\ patches' # <<>>
        /\ OursIn(patches') = OursIn(patches)
    BY <2>1, <2>2, AppendOurs
  <2>4. LinkerTypeOK' /\ StartTypeOK' /\ ops' \in 0..MaxOps
    BY <2>1 DEF IInv, Typed, LinkerTypeOK, StartTypeOK, Results
  <2>5. PatchTypeOK'
    BY <2>1, <2>2, <2>3 DEF IInv, Typed, PatchTypeOK
  <2>6. CallTypeOK'
    BY <2>1 DEF IInv, Typed, CallTypeOK, LinkerTypeOK, StartTypeOK,
                Points, Results, HookSection, StartSection
  <2>7. LockHolders'
    BY <2>1, LocksFollow DEF Follows, HookSection, StartSection, IInv, Typed,
        LockHolders
  <2>8. HookInv'
    BY <2>1, <2>2, <2>3, HookStays DEF HookAlone
  <2>9. StartInv'
    BY <2>1, StartStays DEF StartAlone
  <2>10. OpInv'
    BY <2>1, OpStays DEF OpAlone, IInv, OpInv, StartSection
  <2>. QED  BY <2>4, <2>5, <2>6, <2>7, <2>8, <2>9, <2>10 DEF IInv, Typed
<1>2. ASSUME NEW r \in {"dup", "hook failed"}, Answer(t, r), UNCHANGED <<switch, patches>>
      PROVE  IInv'
  <2>1. /\ pc[t] = "switch hook" /\ pc' = [pc EXCEPT ![t] = "return"]
        /\ answer' = [answer EXCEPT ![t] = r]
        /\ UNCHANGED <<linkerVars, threadVars, dl_mutex, patches, switch, op, ops>>
    BY <1>2 DEF SwitchHook, Goto, Answer
  <2>a. /\ pc'[t] = "return" /\ \A u \in Threads : u # t => pc'[u] = pc[u]
        /\ answer'[t] = r /\ \A u \in Threads : u # t => answer'[u] = answer[u]
    BY <2>1 DEF IInv, Typed, CallTypeOK
  <2>2. op[t] # "pending"
    BY <2>1 DEF IInv, OpInv
  <2>3. Quiet(t, "return", op[t], r)
    BY <2>1, <2>2, CallTypes DEF Quiet, Points, Results, HookSection, StartSection
  <2>. QED  BY <2>3, QuietStep
<1>. QED  BY <1>1, <1>2 DEF SwitchHook

LEMMA SwitchUnhookKeeps ==
    ASSUME IInv, NEW t \in Threads, SwitchUnhook(t)
    PROVE  IInv'
<1>1. CASE Last(patches) = t
  <2>1. /\ pc[t] = "switch unhook" /\ pc' = [pc EXCEPT ![t] = "return"]
        /\ switch' = Nobody
        /\ patches' = Front(patches)
        /\ answer' = [answer EXCEPT ![t] = "ok"]
        /\ Last(patches) = t
        /\ UNCHANGED <<dlopen_hooked, result, hook_lock, post_dlopen,
                       thread_started, started_result, start_lock, monitors,
                       op, ops, dl_mutex>>
    BY <1>1 DEF SwitchUnhook, Goto, Answer, linkerVars, threadVars, IInv, Typed, CallTypeOK
  <2>a. /\ pc'[t] = "return" /\ \A u \in Threads : u # t => pc'[u] = pc[u]
        /\ answer'[t] = "ok" /\ \A u \in Threads : u # t => answer'[u] = answer[u]
    BY <2>1 DEF IInv, Typed, CallTypeOK
  <2>2. patches \in Seq(Threads \union {Us}) /\ patches # <<>>
    BY <2>1 DEF IInv, Typed, PatchTypeOK, HookInv, OpInv
  <2>3. /\ patches' \in Seq(Threads \union {Us})
        /\ OursIn(patches') = OursIn(patches)
    BY <2>1, <2>2, FrontKeepsOurs
  <2>4. LinkerTypeOK' /\ StartTypeOK' /\ ops' \in 0..MaxOps
    BY <2>1 DEF IInv, Typed, LinkerTypeOK, StartTypeOK, Results
  <2>5. PatchTypeOK'
    BY <2>1, <2>2, <2>3 DEF IInv, Typed, PatchTypeOK
  <2>6. CallTypeOK'
    BY <2>1 DEF IInv, Typed, CallTypeOK, LinkerTypeOK, StartTypeOK,
                Points, Results, HookSection, StartSection
  <2>7. LockHolders'
    BY <2>1, LocksFollow DEF Follows, HookSection, StartSection, IInv, Typed,
        LockHolders
  <2>8. HookInv'
    BY <2>1, <2>2, <2>3, HookStays DEF HookAlone
  <2>9. StartInv'
    BY <2>1, StartStays DEF StartAlone
  <2>10. OpInv'
    BY <2>1, OpStays DEF OpAlone, IInv, OpInv, StartSection
  <2>. QED  BY <2>4, <2>5, <2>6, <2>7, <2>8, <2>9, <2>10 DEF IInv, Typed
<1>2. CASE Last(patches) # t
  <2>1. /\ pc[t] = "switch unhook" /\ pc' = [pc EXCEPT ![t] = "return"]
        /\ switch' = Nobody
        /\ answer' = [answer EXCEPT ![t] = "trampo mismatch"]
        /\ UNCHANGED <<dlopen_hooked, result, hook_lock, post_dlopen,
                       thread_started, started_result, start_lock, monitors,
                       patches, op, ops, dl_mutex>>
    BY <1>2 DEF SwitchUnhook, Goto, Answer, linkerVars, threadVars, IInv, Typed, CallTypeOK
  <2>a. /\ pc'[t] = "return" /\ \A u \in Threads : u # t => pc'[u] = pc[u]
        /\ \A u \in Threads : u # t => answer'[u] = answer[u]
    BY <2>1 DEF IInv, Typed, CallTypeOK
  <2>2. LinkerTypeOK' /\ StartTypeOK' /\ ops' \in 0..MaxOps
    BY <2>1 DEF IInv, Typed, LinkerTypeOK, StartTypeOK, Results
  <2>3. PatchTypeOK'
    BY <2>1 DEF IInv, Typed, PatchTypeOK
  <2>4. CallTypeOK'
    BY <2>1 DEF IInv, Typed, CallTypeOK, LinkerTypeOK, StartTypeOK,
                Points, Results, HookSection, StartSection
  <2>5. LockHolders'
    BY <2>1, LocksFollow DEF Follows, HookSection, StartSection, IInv, Typed,
        LockHolders
  <2>6. HookInv'
    BY <2>1, HookStays DEF HookAlone
  <2>7. StartInv'
    BY <2>1, StartStays DEF StartAlone
  <2>8. OpInv'
    BY <2>1, OpStays DEF OpAlone, IInv, OpInv, StartSection
  <2>. QED  BY <2>2, <2>3, <2>4, <2>5, <2>6, <2>7, <2>8 DEF IInv, Typed
<1>. QED  BY <1>1, <1>2 DEF SwitchUnhook, Goto, Answer, linkerVars, threadVars, IInv, Typed, CallTypeOK

LEMMA ReturnKeeps ==
    ASSUME IInv, NEW t \in Threads, Return(t)
    PROVE  IInv'
<1>1. /\ pc[t] = "return" /\ pc' = [pc EXCEPT ![t] = "idle"]
      /\ UNCHANGED <<linkerVars, threadVars, patches, switch, op, answer, ops>>
      /\ dl_mutex' \in {Nobody, dl_mutex}
  BY DEF Return, Goto
<1>a. /\ pc'[t] = "idle" /\ \A u \in Threads : u # t => pc'[u] = pc[u]
  BY <1>1 DEF IInv, Typed, CallTypeOK
<1>2. Quiet(t, "idle", op[t], answer[t])
  BY <1>1, CallTypes DEF Quiet, Points, HookSection, StartSection
<1>. QED  BY <1>2, QuietStep

(* The invariant holds initially, and every step keeps it.                 *)
LEMMA InitIInv == Init => IInv
<1>. SUFFICES ASSUME Init PROVE IInv
  OBVIOUS
<1>1. OursIn(patches) = {} /\ patches = <<>> /\ patches \in Seq(Threads \union {Us})
  <2>1. patches = <<>>
    BY Zenon DEF Init
  <2>. QED  BY <2>1 DEF OursIn
<1>2. dlopen_hooked \in BOOLEAN /\ post_dlopen \in BOOLEAN /\ thread_started \in BOOLEAN
  BY Zenon DEF Init
<1>3. /\ start_lock = Nobody /\ dl_mutex = Nobody /\ switch = Nobody
      /\ monitors = 0 /\ started_result = "monitor thread failed"
  BY Zenon DEF Init
<1>4. \A t \in Threads : pc[t] = "idle"
  BY DEF Init
<1>5. LinkerTypeOK
  BY <1>2 DEF Init, LinkerTypeOK, Results
<1>6. StartTypeOK
  BY <1>2, <1>3 DEF StartTypeOK, Results
<1>7. PatchTypeOK
  BY <1>1, <1>3 DEF PatchTypeOK
<1>8. ops \in 0..MaxOps
  <2>1. ops = 0
    BY Zenon DEF Init
  <2>. QED  BY <2>1
<1>9. CallTypeOK /\ LockHolders
  BY DEF Init, CallTypeOK, Points, Results, LockHolders, HookSection, StartSection
<1>10. HookInv
  BY <1>1 DEF Init, HookInv
<1>11. StartInv
  <2>1. started_result # "ok"
    BY <1>3
  <2>2. monitors = 0
    BY <1>3
  <2>. QED  BY <1>4, <2>1, <2>2 DEF StartInv
<1>12. OpInv
  BY <1>4 DEF OpInv, StartSection
<1>. QED  BY <1>5, <1>6, <1>7, <1>8, <1>9, <1>10, <1>11, <1>12 DEF IInv, Typed

LEMMA NextIInv == IInv /\ [Next]_vars => IInv'
<1>. SUFFICES ASSUME IInv, [Next]_vars PROVE IInv'
  OBVIOUS
<1>1. ASSUME NEW t \in Threads, BeginPending(t) \/ BeginDlopen(t) \/ BeginUnhook(t)
      PROVE  IInv'
  BY <1>1, BeginKeeps
<1>2. ASSUME NEW t \in Threads, Step(t) PROVE IInv'
  BY <1>2, HookedAlreadyKeeps, HookLockedKeeps, HookInitKeeps, HookPatchKeeps, HookEndKeeps,
     StartedAlreadyKeeps, StartLockedKeeps, StartCreateKeeps, StartEndKeeps,
     SwitchHookKeeps, SwitchUnhookKeeps, ReturnKeeps DEF Step
<1>3. CASE UNCHANGED vars
  BY <1>3 DEF vars, linkerVars, threadVars, IInv, Typed, LinkerTypeOK, StartTypeOK,
              PatchTypeOK, CallTypeOK, LockHolders, HookInv, StartInv, OpInv
<1>. QED  BY <1>1, <1>2, <1>3 DEF Next

LEMMA Invariance == Spec => []IInv
<1>. QED  BY InitIInv, NextIInv, PTL DEF Spec

(* No step changes the mode.                                               *)
ModeOK == mode \in Modes

LEMMA NextMode == ModeOK /\ [Next]_vars => ModeOK'
<1>. SUFFICES ASSUME ModeOK, [Next]_vars PROVE mode' = mode
  BY DEF ModeOK
<1>1. ASSUME NEW t \in Threads, BeginPending(t) \/ BeginDlopen(t) \/ BeginUnhook(t)
      PROVE  mode' = mode
  BY <1>1 DEF BeginPending, BeginDlopen, BeginUnhook, Begin
<1>2. ASSUME NEW t \in Threads, HookedAlready(t) \/ HookLocked(t) \/ HookInit(t)
                                 \/ HookPatch(t) \/ HookEnd(t)
      PROVE  mode' = mode
  BY <1>2, Zenon DEF HookedAlready, HookLocked, HookInit, HookPatch, HookEnd
<1>3. ASSUME NEW t \in Threads, StartedAlready(t) \/ StartLocked(t)
                                 \/ StartCreate(t) \/ StartEnd(t)
      PROVE  mode' = mode
  BY <1>3, Zenon DEF StartedAlready, StartLocked, StartCreate, StartEnd
<1>4. ASSUME NEW t \in Threads, SwitchHook(t) \/ SwitchUnhook(t) \/ Return(t)
      PROVE  mode' = mode
  BY <1>4, Zenon DEF SwitchHook, SwitchUnhook, Return
<1>5. UNCHANGED vars => mode' = mode
  BY DEF vars
<1>. QED  BY <1>1, <1>2, <1>3, <1>4, <1>5 DEF Next, Step

LEMMA InitMode == Init => ModeOK
  BY DEF Init, ModeOK

LEMMA ModeKept == Spec => []ModeOK
<1>. QED  BY InitMode, NextMode, PTL DEF Spec

(* The variables keep their types, and each lock is held by the thread in  *)
(* its section (sh_linker.cpp:214-295, sh_task.cpp:235-246).               *)
THEOREM TypeCorrect == Spec => []TypeOK
<1>1. IInv /\ ModeOK => TypeOK
  BY DEF IInv, ModeOK, TypeOK
<1>. QED  BY <1>1, Invariance, ModeKept, PTL

(* do_dlopen is patched at most once by us and at most one monitor thread  *)
(* is created, whatever the races (sh_linker.cpp:213-222,                  *)
(* sh_task.cpp:234-245).                                                   *)
THEOREM MonitorStartsOnce == Spec => []OneMonitor
<1>1. IInv => OneMonitor
  BY DEF IInv, HookInv, StartInv, OneMonitor
<1>. QED  BY <1>1, Invariance, PTL

(* Every pending hook that is accepted is monitored.                       *)
THEOREM PendingIsMonitored == Spec => []AcceptedIsMonitored
<1>1. IInv => AcceptedIsMonitored
  BY DEF IInv, HookInv, StartInv, OpInv, AcceptedIsMonitored
<1>. QED  BY <1>1, Invariance, PTL
============================================================================
