------------------------------- MODULE Patch --------------------------------
(***************************************************************************)
(* arch/arm64/sh_inst.cpp: the head of a function is overwritten with a    *)
(* jump, and its instructions are rewritten into an enter trampoline that  *)
(* still does what they did.  With an exit the jump is one instruction,    *)
(* without one it is four words.                                           *)
(*                                                                         *)
(* One thread hooks and unhooks at a time, since sh_switches_lock is held; *)
(* the lock, the tree and the delays are in Switch and Trampo.  Callers    *)
(* run the code one instruction at a time and hold no lock.  A freed enter *)
(* or exit out of library is not reused while a caller is in it: that is   *)
(* what the delays are for.  The mode is UNIQUE.                           *)
(***************************************************************************)
EXTENDS Exit

CONSTANTS
    Callers,    \* threads that call them
    New,        \* New[f]: address of its proxy
    Enters,     \* addresses of the enter trampolines
    EnterLen,   \* their size, SH_ENTER_SZ
    Foreign,    \* address of somebody else's proxy
    Worlds      \* the functions, the file they are in, and the places out of it

VARIABLES
    fun,        \* fun[f]: address, first four words, size in words, and whether it is called
    head,       \* head[f]: the four words that are there now
    inst,       \* inst[f]: sh_inst_t, or NoInst
    enter,      \* enter[e]: allocated or not, and what it was filled with
    orig_addr,  \* orig_addr[f]: where the proxy finds the original, or 0
    op,         \* the hook or unhook in progress
    lock_lost,  \* sh_exit_lock was kept by a return statement (history)
    abandoned,  \* functions whose unhook failed before it restored the head (history)
    caller      \* caller[c]: the processor that runs the thread

patchVars == <<fun, head, inst, enter, orig_addr, op, lock_lost, abandoned>>
vars == <<exitVars, patchVars, caller>>

HeadLen == 4
Funcs == DOMAIN fun
Start(f) == fun[f].start
Take(s, n) == SubSeq(s, 1, n)
NoInst == [len |-> 0, backup |-> <<>>, exit |-> 0, enter |-> 0]
NoEnter == [used |-> FALSE, fn |-> "none", head |-> <<>>, words |-> <<>>]
Idle == [pc |-> "idle", fn |-> "none", enter |-> 0, exit |-> 0, len |-> 0, done |-> {}, gap |-> 0]
Cleared == [r \in Registers |-> Unknown]
Resting == [fn |-> "none", pc |-> 0, regs |-> Cleared, pushed |-> Unknown,
            at |-> 0, was |-> Cleared]

Init == \E w \in Worlds :
    /\ fun = w.fun
    /\ ExitInit(w.elf, w.out)
    /\ head = [f \in DOMAIN w.fun |-> w.fun[f].code]
    /\ inst = [f \in DOMAIN w.fun |-> NoInst]
    /\ enter = [e \in Enters |-> NoEnter]
    /\ orig_addr = [f \in DOMAIN w.fun |-> 0]
    /\ op = Idle
    /\ lock_lost = FALSE
    /\ abandoned = {}
    /\ caller = [c \in Callers |-> Resting]
-----------------------------------------------------------------------------
(* The memory as the processor sees it *)

InEnter(pc, e) == e <= pc /\ pc < e + EnterLen
InHead(pc, f) == Start(f) <= pc /\ pc < Start(f) + HeadLen
InExit(pc, a) == a <= pc /\ pc < a + ExitLen

Inhabited(pc) ==
    \/ \E f \in Funcs : InHead(pc, f)
    \/ \E e \in Enters : InEnter(pc, e)
    \/ \E a \in Places \union OutPlaces : InExit(pc, a)

Content(a) == IF a \in OutPlaces THEN out[a] ELSE place[a]

WordAt(pc) ==
    IF \E f \in Funcs : InHead(pc, f)
    THEN LET f == CHOOSE f \in Funcs : InHead(pc, f) IN head[f][pc - Start(f) + 1]
    ELSE IF \E e \in Enters : InEnter(pc, e)
    THEN LET e == CHOOSE e \in Enters : InEnter(pc, e)
         IN  IF pc - e < Len(enter[e].words) THEN enter[e].words[pc - e + 1] ELSE Word("junk", 0, "none")
    ELSE IF \E a \in Places \union OutPlaces : InExit(pc, a)
    THEN LET a == CHOOSE a \in Places \union OutPlaces : InExit(pc, a) IN ExitWord(Content(a), pc - a)
    ELSE Word("outside", 0, "none")

Running(c) == caller[c].fn # "none"
InProxy(c) == Running(c) /\ caller[c].pc = New[caller[c].fn]

\* Memory that was freed but must rest: a caller may still be on its way.
RestingEnter(e) == \E c \in Callers :
    Running(c) /\ (InEnter(caller[c].pc, e) \/ orig_addr[caller[c].fn] = e)
Free(e) == ~enter[e].used /\ ~RestingEnter(e)
RestingPlaces == {a \in OutPlaces : \E c \in Callers : Running(c) /\ InExit(caller[c].pc, a)}

\* Callers that a step takes by surprise: the code relies on there being none,
\* and we follow them no further.
Dismiss(surprised) == caller' = [c \in Callers |-> IF c \in surprised THEN Resting ELSE caller[c]]
\* Inside the words that a long patch overwrites, or on the way back there
\* from the enter of a short one.
InsideHead(f) == {c \in Callers :
    \/ InHead(caller[c].pc, f) /\ caller[c].pc # Start(f)
    \/ \E e \in Enters : /\ enter[e].fn = f /\ Len(enter[e].head) = 1
                        /\ (InEnter(caller[c].pc, e) \/ (InProxy(c) /\ orig_addr[f] = e))}
OnHead(f) == {c \in Callers : InHead(caller[c].pc, f)}
ToProxy(f) == {c \in Callers :
    /\ caller[c].fn = f /\ caller[c].at = Start(f) /\ caller[c].pc # Start(f)
    /\ ~ \E e \in Enters : InEnter(caller[c].pc, e)}
OnExit(a) == {c \in Callers : InExit(caller[c].pc, a)}
-----------------------------------------------------------------------------
(* sh_inst_hook *)

Goto(where) == op' = [op EXCEPT !.pc = where]
At(where) == op.pc = where
Finish == op' = Idle
Moving(f, len) == Take(head[f], len)

HookBegin(f, e) ==
    /\ At("idle") /\ inst[f] = NoInst /\ f \notin abandoned
    /\ Free(e) /\ \A other \in Enters : Free(other) => e <= other
    /\ enter' = [enter EXCEPT ![e].used = TRUE]
    /\ op' = [Idle EXCEPT !.pc = "with exit", !.fn = f, !.enter = e]
    /\ UNCHANGED <<exitVars, fun, head, inst, orig_addr, lock_lost, abandoned, caller>>

HookSmall ==
    /\ At("with exit") /\ fun[op.fn].size < 1
    /\ Goto("without exit")
    /\ UNCHANGED <<exitVars, fun, head, inst, enter, orig_addr, lock_lost, abandoned, caller>>

\* sh_exit_alloc: out of library, or else in library.
HookExitOut(a) ==
    /\ At("with exit") /\ fun[op.fn].size >= 1
    /\ AllocOut(Start(op.fn), New[op.fn], RestingPlaces, a)
    /\ op' = [op EXCEPT !.pc = "rewrite", !.exit = a, !.len = 1]
    /\ UNCHANGED <<fun, head, inst, enter, orig_addr, lock_lost, abandoned, caller>>

FirstGapFrom(i) == {j \in Gaps : j >= i /\ \A k \in Gaps : k >= i => j <= k}
GapTurn(i) == At("gaps") /\ i \in FirstGapFrom(op.gap)

HookExitIn ==
    /\ At("with exit") /\ fun[op.fn].size >= 1
    /\ ~ \E a \in OutPlaces : Near(Start(op.fn), RestingPlaces, a)
    /\ LockExit
    /\ op' = [op EXCEPT !.pc = "gaps", !.gap = 1]
    /\ UNCHANGED <<fun, head, inst, enter, orig_addr, lock_lost, abandoned, caller>>

HookTakePlace(i, a) ==
    /\ GapTurn(i) /\ TakePlace(i, Start(op.fn), New[op.fn], a)
    /\ op' = [op EXCEPT !.pc = "rewrite", !.exit = a, !.len = 1]
    /\ UNCHANGED <<fun, head, inst, enter, orig_addr, lock_lost, abandoned, caller>>

HookNextGap(i) ==
    /\ GapTurn(i) /\ NoPlace(i, Start(op.fn))
    /\ op' = [op EXCEPT !.gap = i + 1]
    /\ UNCHANGED <<fun, head, inst, enter, orig_addr, lock_lost, abandoned, caller>>

HookSearchFaults(i) ==
    /\ GapTurn(i) /\ SearchFaults(i, Start(op.fn))
    /\ Goto("without exit")
    /\ UNCHANGED <<fun, head, inst, enter, orig_addr, lock_lost, abandoned, caller>>

HookReturnLocked(i) ==
    /\ GapTurn(i) /\ ReturnLocked(i)
    /\ lock_lost' = TRUE
    /\ Goto("without exit")
    /\ UNCHANGED <<fun, head, inst, enter, orig_addr, abandoned, caller>>

HookNoGap ==
    /\ At("gaps") /\ FirstGapFrom(op.gap) = {}
    /\ UnlockExit
    /\ Goto("without exit")
    /\ UNCHANGED <<fun, head, inst, enter, orig_addr, lock_lost, abandoned, caller>>

HookWithoutExit ==
    /\ At("without exit")
    /\ IF fun[op.fn].size < HeadLen THEN Goto("fail")
       ELSE op' = [op EXCEPT !.pc = "rewrite", !.exit = 0, !.len = HeadLen]
    /\ UNCHANGED <<exitVars, fun, head, inst, enter, orig_addr, lock_lost, abandoned, caller>>

\* Mutant: the address of the original is not published.
HookRewrite_Mutant ==
    LET moving == Moving(op.fn, op.len) IN
    /\ At("rewrite") /\ Rewritable(Start(op.fn), moving, op.enter)
    /\ enter' = [enter EXCEPT ![op.enter] =
                   [used |-> TRUE, fn |-> op.fn, head |-> moving,
                    words |-> Enter(Start(op.fn), moving, op.enter)]]
    /\ Goto("patch")
    /\ UNCHANGED <<exitVars, fun, head, inst, orig_addr, lock_lost, abandoned, caller>>

\* sh_inst_hook_rewrite: the enter is filled, then its address published.
\* The second attempt does so again, in the same enter.
HookRewrite ==
    LET moving == Moving(op.fn, op.len) IN
    /\ At("rewrite") /\ Rewritable(Start(op.fn), moving, op.enter)
    /\ enter' = [enter EXCEPT ![op.enter] =
                   [used |-> TRUE, fn |-> op.fn, head |-> moving,
                    words |-> Enter(Start(op.fn), moving, op.enter)]]
    /\ orig_addr' = [orig_addr EXCEPT ![op.fn] = op.enter]
    /\ Goto("patch")
    /\ Dismiss({c \in Callers : InEnter(caller[c].pc, op.enter)})
    /\ UNCHANGED <<exitVars, fun, head, inst, lock_lost, abandoned>>

\* mprotect fails, the head cannot be read, or an instruction not be moved.
HookRewriteFails ==
    /\ At("rewrite")
    /\ Fault("rewrite") \/ ~Rewritable(Start(op.fn), Moving(op.fn, op.len), op.enter)
    /\ Goto(IF op.exit # 0 THEN "undo" ELSE "fail")
    /\ UNCHANGED <<exitVars, fun, head, inst, enter, orig_addr, lock_lost, abandoned, caller>>

HookUndo ==
    /\ At("undo")
    /\ IF op.exit \in OutPlaces THEN FreeOut(op.exit)
       ELSE ~exit_lock /\ (FreePlace(op.exit, New[op.fn]) \/ KeepPlace(op.exit, New[op.fn]))
    /\ op' = [op EXCEPT !.pc = "without exit", !.exit = 0]
    /\ UNCHANGED <<fun, head, inst, enter, orig_addr, lock_lost, abandoned, caller>>

\* sh_util_write_inst: one store where the processor has one, else memcpy,
\* whose words appear in any order.
OneStore(f, words) == Len(words) = 1 \/ Start(f) % HeadLen = 0

WriteInst(words) ==
    LET f == op.fn IN
    IF OneStore(f, words)
    THEN /\ op.done = {}
         /\ head' = [head EXCEPT ![f] = words \o SubSeq(@, Len(words) + 1, HeadLen)]
         /\ op' = [op EXCEPT !.done = 1..Len(words)]
         /\ Dismiss(IF Len(words) = 1 THEN {} ELSE InsideHead(f))
    ELSE \E k \in (1..Len(words)) \ op.done :
         /\ head' = [head EXCEPT ![f][k] = words[k]]
         /\ op' = [op EXCEPT !.done = @ \union {k}]
         /\ Dismiss(InsideHead(f) \union OnHead(f))

Written == op.done = 1..op.len
Torn(f) == op.fn = f /\ op.done # {} /\ ~Written

JumpToProxy(f, exit) == IF exit # 0 THEN <<RelativeJump(exit, Start(f))>>
                        ELSE AbsoluteJump("br", New[f])

HookPatch ==
    /\ At("patch") /\ WriteInst(JumpToProxy(op.fn, op.exit))
    /\ UNCHANGED <<exitVars, fun, inst, enter, orig_addr, lock_lost, abandoned>>

HookPatchFails ==
    /\ At("patch") /\ op.done = {} /\ Fault("write")
    /\ Goto(IF op.exit # 0 THEN "undo" ELSE "fail")
    /\ UNCHANGED <<exitVars, fun, head, inst, enter, orig_addr, lock_lost, abandoned, caller>>

\* Mutant: the backup is taken when the head is patched already.
HookEnd_Mutant ==
    /\ At("patch") /\ Written
    /\ inst' = [inst EXCEPT ![op.fn] = [len |-> op.len, backup |-> Take(head[op.fn], op.len),
                                        exit |-> op.exit, enter |-> op.enter]]
    /\ Finish
    /\ UNCHANGED <<exitVars, fun, head, enter, orig_addr, lock_lost, abandoned, caller>>

HookEnd ==
    /\ At("patch") /\ Written
    /\ inst' = [inst EXCEPT ![op.fn] = [len |-> op.len, backup |-> enter[op.enter].head,
                                        exit |-> op.exit, enter |-> op.enter]]
    /\ Finish
    /\ UNCHANGED <<exitVars, fun, head, enter, orig_addr, lock_lost, abandoned, caller>>

\* A caller that is still in the proxy of an earlier hook, or on its way
\* there, finds no original.
HookFail ==
    /\ At("fail")
    /\ orig_addr' = [orig_addr EXCEPT ![op.fn] = 0]
    /\ enter' = [enter EXCEPT ![op.enter].used = FALSE]
    /\ Dismiss(ToProxy(op.fn))
    /\ Finish
    /\ UNCHANGED <<exitVars, fun, head, inst, lock_lost, abandoned>>
-----------------------------------------------------------------------------
(* sh_inst_unhook.  The switch is gone in any case.                        *)

UnhookBegin(f) ==
    /\ At("idle") /\ inst[f] # NoInst
    /\ op' = [Idle EXCEPT !.pc = "compare", !.fn = f, !.enter = inst[f].enter,
                          !.exit = inst[f].exit, !.len = inst[f].len]
    /\ UNCHANGED <<exitVars, fun, head, inst, enter, orig_addr, lock_lost, abandoned, caller>>

OursIsThere == Take(head[op.fn], op.len) = JumpToProxy(op.fn, op.exit)

UnhookCompare ==
    /\ At("compare") /\ OursIsThere
    /\ Goto("restore")
    /\ UNCHANGED <<exitVars, fun, head, inst, enter, orig_addr, lock_lost, abandoned, caller>>

\* The patch and its trampolines stay.
UnhookFails ==
    /\ \/ At("compare") /\ (~OursIsThere \/ Fault("compare"))
       \/ At("restore") /\ op.done = {} /\ Fault("write")
    /\ inst' = [inst EXCEPT ![op.fn] = NoInst]
    /\ abandoned' = abandoned \union {op.fn}
    /\ Finish
    /\ UNCHANGED <<exitVars, fun, head, enter, orig_addr, lock_lost, caller>>

UnhookRestore ==
    /\ At("restore") /\ WriteInst(inst[op.fn].backup)
    /\ UNCHANGED <<exitVars, fun, inst, enter, orig_addr, lock_lost, abandoned>>

\* An exit in the library is cleared at once, whoever is on it.
UnhookFree ==
    /\ At("restore") /\ Written
    /\ \/ op.exit = 0 /\ UNCHANGED <<exitVars, caller>>
       \/ op.exit \in OutPlaces /\ FreeOut(op.exit) /\ UNCHANGED caller
       \/ op.exit \in Places /\ ~exit_lock /\ FreePlace(op.exit, New[op.fn]) /\ Dismiss(OnExit(op.exit))
    /\ inst' = [inst EXCEPT ![op.fn] = NoInst]
    /\ enter' = [enter EXCEPT ![op.enter].used = FALSE]
    /\ Finish
    /\ UNCHANGED <<fun, head, orig_addr, lock_lost, abandoned>>

\* The function is restored, the exit and the enter are lost.
UnhookKeepsExit ==
    /\ At("restore") /\ Written /\ op.exit \in Places /\ ~exit_lock
    /\ KeepPlace(op.exit, New[op.fn])
    /\ inst' = [inst EXCEPT ![op.fn] = NoInst]
    /\ Finish
    /\ UNCHANGED <<fun, head, enter, orig_addr, lock_lost, abandoned, caller>>

\* Somebody else (external) hooks the function, over our patch.
ForeignHook(f) ==
    LET jump == RelativeJump(Foreign, Start(f)) IN
    /\ Fault("foreign") /\ At("idle") /\ inst[f] # NoInst
    /\ head' = [head EXCEPT ![f][1] = jump]
    /\ UNCHANGED <<exitVars, fun, inst, enter, orig_addr, op, lock_lost, abandoned, caller>>
-----------------------------------------------------------------------------
(* Callers.  A boundary is an address where an original instruction is to  *)
(* be executed, at its own place or rewritten; Original is its own place.  *)

Original(pc) ==
    IF \E f \in Funcs : InHead(pc, f)
    THEN IF \E f \in Funcs : InHead(pc, f) /\ WordAt(pc) = fun[f].code[pc - Start(f) + 1] THEN pc ELSE Nowhere
    ELSE IF \E e \in Enters : InEnter(pc, e)
    THEN IF \E e \in Enters : \E i \in 1..Len(enter[e].head) : pc = e + Ends(enter[e].head, i - 1)
         THEN LET e == CHOOSE e \in Enters : InEnter(pc, e)
                  i == CHOOSE i \in 1..Len(enter[e].head) : pc = e + Ends(enter[e].head, i - 1)
              IN  Start(enter[e].fn) + i - 1
         ELSE Nowhere
    ELSE IF Inhabited(pc) \/ pc = Foreign \/ \E f \in Funcs : pc = New[f] THEN Nowhere
    ELSE pc

Outside(pc) == ~Inhabited(pc) /\ Original(pc) = pc

Call(c, f) ==
    /\ ~Running(c) /\ fun[f].called /\ ~Torn(f)
    /\ caller' = [caller EXCEPT ![c] = [Resting EXCEPT !.fn = f, !.pc = Start(f), !.at = Start(f)]]
    /\ UNCHANGED <<exitVars, patchVars>>

\* One instruction.
Step(c) ==
    LET me == caller[c]
        w == WordAt(me.pc)
        addr == Reads(w, me.pc, me.regs)
    IN  /\ Running(c) /\ w.op \in Executable
        /\ \E o \in Outcomes(w, me.pc, me.regs, me.pushed, Found(WordAt(addr), addr)) :
              LET at == Original(o.pc) IN
              caller' = [caller EXCEPT ![c] =
                  [me EXCEPT !.pc = o.pc, !.regs = o.regs, !.pushed = o.pushed,
                             !.at = IF at = Nowhere THEN @ ELSE at,
                             !.was = IF at = Nowhere THEN @ ELSE o.regs]]
        /\ UNCHANGED <<exitVars, patchVars>>

CallOrig(c) ==
    LET e == orig_addr[caller[c].fn] IN
    /\ InProxy(c)
    /\ caller' = [caller EXCEPT ![c].pc = IF e = 0 THEN Nowhere ELSE e, ![c].was = caller[c].regs]
    /\ UNCHANGED <<exitVars, patchVars>>

Return(c) ==
    /\ Running(c)
    /\ InProxy(c) \/ caller[c].pc \in {Foreign, Nowhere} \/ Outside(caller[c].pc)
    /\ caller' = [caller EXCEPT ![c] = Resting]
    /\ UNCHANGED <<exitVars, patchVars>>
-----------------------------------------------------------------------------
HookStep ==
    \/ HookSmall \/ (\E a \in OutPlaces : HookExitOut(a)) \/ HookExitIn
    \/ \E i \in Gaps : (\E a \in Places : HookTakePlace(i, a)) \/ HookNextGap(i)
                       \/ HookSearchFaults(i) \/ HookReturnLocked(i)
    \/ HookNoGap \/ HookWithoutExit \/ HookRewrite \/ HookRewriteFails \/ HookUndo
    \/ HookPatch \/ HookPatchFails \/ HookEnd \/ HookFail

UnhookStep == UnhookCompare \/ UnhookFails \/ UnhookRestore \/ UnhookFree \/ UnhookKeepsExit

Next ==
    \/ \E f \in Funcs : (\E e \in Enters : HookBegin(f, e)) \/ UnhookBegin(f) \/ ForeignHook(f)
    \/ HookStep \/ UnhookStep
    \/ \E c \in Callers : (\E f \in Funcs : Call(c, f)) \/ Step(c) \/ CallOrig(c) \/ Return(c)

Spec == Init /\ [][Next]_vars
\* The thread that hooks is scheduled.
FairSpec == Spec /\ WF_vars(HookStep \/ UnhookStep)
-----------------------------------------------------------------------------
(* Properties *)

TypeOK ==
    /\ \A f \in Funcs : Len(head[f]) = HeadLen
    /\ \A f \in Funcs : /\ inst[f].enter \in Enters \union {0}
                        /\ inst[f].exit \in Places \union OutPlaces \union {0}
    /\ \A e \in Enters : enter[e].used \in BOOLEAN /\ Len(enter[e].words) <= EnterLen
    /\ orig_addr \in [Funcs -> Enters \union {0}]
    /\ exit_lock \in BOOLEAN /\ lock_lost \in BOOLEAN
    /\ abandoned \subseteq Funcs
    /\ op.done \subseteq 1..op.len
    /\ op.fn \in Funcs \union {"none"} /\ op.enter \in Enters \union {0}
    /\ op.exit \in Places \union OutPlaces \union {0} /\ op.len \in 0..HeadLen

HeadLeadsToProxy == \A f \in Funcs : inst[f] # NoInst /\ op.fn # f =>
    /\ \/ Take(head[f], inst[f].len) = JumpToProxy(f, inst[f].exit)
       \/ head[f][1] = RelativeJump(Foreign, Start(f))
    /\ inst[f].exit # 0 => Content(inst[f].exit) = Jump(New[f])
    /\ orig_addr[f] = inst[f].enter
    /\ enter[inst[f].enter].used
    /\ enter[inst[f].enter].words = Enter(Start(f), Take(fun[f].code, inst[f].len), inst[f].enter)

UnhookedIsOriginal == \A f \in Funcs :
    inst[f] = NoInst /\ op.fn # f /\ f \notin abandoned => head[f] = fun[f].code

ExitsAreNear == \A f \in Funcs : inst[f].exit \in Places =>
    LET a == inst[f].exit IN
    /\ Reaches(Start(f), a)
    /\ \A i \in 1..Len(elf.segs) : a + ExitLen <= elf.segs[i].vaddr \/ End(elf.segs[i]) <= a
    /\ \A g \in Funcs \ {f} : inst[g].exit # a

\* However a hook was made (with an exit out of or in the library, or
\* without, after an attempt that failed half-way), the head leads to the
\* proxy and the proxy finds an enter that has the instructions that moved;
\* exits of other functions in the same gap are never overwritten, and an
\* exit in the library is near enough for one branch, and in no segment.  A
\* function that is not hooked is as it was found, whatever failed on the
\* way, unless the unhook said it could not restore it.
PatchesAreSound == TypeOK /\ HeadLeadsToProxy /\ UnhookedIsOriginal /\ ExitsAreNear

\* A caller that the code does not take by surprise (Dismiss) only executes
\* instructions, reaches a proxy from the head alone, and the proxy finds
\* the original.
CallersStayOnCode == \A c \in Callers : Running(c) =>
    LET me == caller[c] IN
    /\ me.pc # Nowhere
    /\ Inhabited(me.pc) => WordAt(me.pc).op \in Executable
    /\ me.pc = Foreign \/ (\E f \in Funcs : me.pc = New[f]) => me.at = Start(me.fn)
    /\ \A f \in Funcs : me.pc = New[f] => f = me.fn

SameValue(a, b) == a = b \/ (a[1] = "address" /\ b[1] = "address" /\ Original(a[2]) = b[2])

\* Rewritten or not, patched or restored meanwhile, the original's
\* instructions do to the registers what they did at their own place, and
\* lead where they led.  x17 is lost by branches and by the jump back.
DoesTheSame(c) ==
    LET me == caller[c]
        now == caller'[c]
        w == fun[me.fn].code[me.at - Start(me.fn) + 1]
        addr == Reads(w, me.at, me.was)
    IN  \E o \in Outcomes(w, me.at, me.was, Unknown, Memory(addr)) :
          /\ o.pc = now.at
          /\ \A r \in Registers \ {"x17"} : SameValue(now.regs[r], o.regs[r])
          /\ w.op \notin Branches /\ (\E e \in Enters : InEnter(now.pc, e)) => now.regs["x17"] = me.was["x17"]

KeepsOriginal == [][\A c \in Callers :
    Running(c) /\ Step(c) /\ Original(caller'[c].pc) # Nowhere => DoesTheSame(c)]_vars

\* A hook and an unhook end, unless the lock of the exits was kept by the
\* return statement in its section.
HookReturns == (op.pc # "idle") ~> (op.pc = "idle" \/ lock_lost)
=============================================================================
