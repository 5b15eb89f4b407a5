-------------------------------- MODULE A64 ---------------------------------
(***************************************************************************)
(* sh_a64.cpp: instructions of arm64 and their rewriting for another       *)
(* place, and what the processor (external) does with them.  An address    *)
(* counts words of four bytes, and so does an offset.                      *)
(*                                                                         *)
(* Of an instruction we keep its kind, its offset from its own address and *)
(* the register it writes or the instruction's name.  A literal is two     *)
(* words, "lit" with the address it holds as its offset and "hi".                        *)
(***************************************************************************)
EXTENDS Integers, Sequences

CONSTANT PageSize   \* words per page

ASSUME PageAssumption == PageSize \in Nat \ {0}

Word(op, off, val) == [op |-> op, off |-> off, val |-> val]

Conditional == {"b.cond", "cb", "tb"}
LoadsLiteral == {"ldr", "ldrv", "prfm"}     \* ldrv: to a SIMD register
Branches == {"b", "bl", "br", "blr", "ret"} \union Conditional
Executable == {"ignored", "adr", "adrp", "load", "loadv", "touch", "push", "pop"}
              \union Branches \union LoadsLiteral

PageOf(a) == a - (a % PageSize)

\* The address an instruction refers to.
Refers(w, pc) == IF w.op = "adrp" THEN PageOf(pc) + PageSize * w.off ELSE pc + w.off

Literal(addr) == <<Word("lit", addr, "none"), Word("hi", 0, "none")>>
-----------------------------------------------------------------------------
(* Rewriting.  Head: the instructions that move, start: where they are,    *)
(* buf: where they go.                                                     *)

\* sh_a64_get_rewrite_inst_len
RewriteLen(w) ==
    IF w.op \in {"b", "bl", "ldr"} THEN 5
    ELSE IF w.op \in {"adr", "adrp"} THEN 4
    ELSE IF w.op \in {"b.cond", "ldrv", "prfm"} THEN 7
    ELSE IF w.op \in {"cb", "tb"} THEN 6
    ELSE 1

Inside(addr, start, head) == start <= addr /\ addr < start + Len(head)

\* Where the rewriting of the n-th instruction ends; a head has at most four.
Ends(head, n) ==
    LET Part(i) == IF i <= n THEN RewriteLen(head[i]) ELSE 0
    IN  Part(1) + Part(2) + Part(3) + Part(4)

\* Mutant: the walk stops one instruction late.
FixAddr_Mutant(addr, start, head, buf) ==
    IF Inside(addr, start, head) /\ addr > start THEN buf + Ends(head, addr - start + 1) ELSE addr

\* sh_a64_fix_addr: an address among the instructions that move moves along.
FixAddr(addr, start, head, buf) ==
    IF Inside(addr, start, head) THEN buf + Ends(head, addr - start) ELSE addr

\* sh_a64_absolute_jump_with_br, _with_ret
AbsoluteJump(how, addr) == <<Word("ldr", 2, "x17"), Word(how, 0, "x17")>> \o Literal(addr)

\* sh_a64_relative_jump
RelativeJump(addr, pc) == Word("b", addr - pc, "none")

RewriteB(w, addr) ==
    (IF w.op = "b.cond" THEN <<Word("b.cond", 2, w.val), Word("b", 6, "none")>> ELSE <<>>)
    \o <<Word("ldr", 2, "x17"), Word("b", 3, "none")>> \o Literal(addr)
    \o <<Word(IF w.op = "bl" THEN "blr" ELSE "br", 0, "x17")>>

RewriteAdr(w, addr) ==
    <<Word("ldr", 2, w.val), Word("b", 3, "none")>> \o Literal(addr)

RewriteLdr(w, addr) ==
    IF w.op = "ldr"
    THEN <<Word("ldr", 3, w.val), Word("load", 0, w.val), Word("b", 3, "none")>> \o Literal(addr)
    ELSE <<Word("push", 0, "x17"), Word("ldr", 4, "x17"),
           Word(IF w.op = "prfm" THEN "touch" ELSE "loadv", 0, w.val),
           Word("pop", 0, "x17"), Word("b", 3, "none")>> \o Literal(addr)

\* sh_a64_rewrite_cb, _tb
RewriteCb(w, addr) ==
    <<Word(w.op, 2, w.val), Word("b", 5, "none"), Word("ldr", 2, "x17"), Word("br", 0, "x17")>>
    \o Literal(addr)

\* sh_a64_rewrite of the i-th instruction; <<>> if it cannot be rewritten.
Rewrite(start, head, buf, i) ==
    LET w == head[i]
        addr == Refers(w, start + i - 1)
        fixed == FixAddr(addr, start, head, buf)
    IN  IF w.op \in {"b", "bl", "b.cond"} THEN RewriteB(w, fixed)
        ELSE IF w.op \in {"adr", "adrp"}
             THEN IF Inside(addr, start, head) THEN <<>> ELSE RewriteAdr(w, addr)
        ELSE IF w.op \in LoadsLiteral
             THEN IF Inside(addr, start, head) /\ w.op # "prfm" THEN <<>> ELSE RewriteLdr(w, fixed)
        ELSE IF w.op \in {"cb", "tb"} THEN RewriteCb(w, fixed)
        ELSE <<w>>

Rewritable(start, head, buf) == \A i \in 1..Len(head) : Rewrite(start, head, buf, i) # <<>>

\* sh_inst_hook_rewrite: the head's instructions, and the jump to what follows.
Enter(start, head, buf) ==
    LET Part(i) == IF i <= Len(head) THEN Rewrite(start, head, buf, i) ELSE <<>>
    IN  Part(1) \o Part(2) \o Part(3) \o Part(4) \o AbsoluteJump("ret", start + Len(head))
-----------------------------------------------------------------------------
(* The processor.  A register holds nothing we know, an address, or what   *)
(* memory holds at an address.                                             *)

Registers == {"x17", "xd", "vd", "callee"}  \* callee: the function last called
Unknown == <<"unknown", 0>>
Address(a) == <<"address", a>>
Memory(a) == <<"memory", a>>
Nowhere == -1
Known(value) == IF value[1] = "address" THEN value[2] ELSE Nowhere

\* The address an instruction reads, and what it finds there: word is what
\* is at that address.
Reads(w, pc, regs) == IF w.op \in {"load", "loadv", "touch"}
                      THEN Known(regs[IF w.op = "load" THEN w.val ELSE "x17"])
                      ELSE Refers(w, pc)
Found(word, addr) == IF word.op = "lit" THEN Address(word.off) ELSE Memory(addr)

\* The possible outcomes of one instruction.  pushed is the stack slot below
\* the stack pointer; found is what the instruction reads.  A callee returns.
Outcomes(w, pc, regs, pushed, found) ==
    LET To(next) == [pc |-> next, regs |-> regs, pushed |-> pushed]
        Sets(r, value) == [pc |-> pc + 1, regs |-> [regs EXCEPT ![r] = value], pushed |-> pushed]
    IN  CASE w.op = "b" -> {To(pc + w.off)}
          [] w.op \in Conditional -> {To(pc + 1), To(pc + w.off)}
          [] w.op \in {"br", "ret"} -> {To(Known(regs[w.val]))}
          [] w.op = "bl" -> {Sets("callee", Address(pc + w.off))}
          [] w.op = "blr" -> {Sets("callee", regs[w.val])}
          [] w.op \in {"adr", "adrp"} -> {Sets(w.val, Address(Refers(w, pc)))}
          [] w.op \in {"ldr", "load", "ldrv", "loadv"} -> {Sets(w.val, found)}
          [] w.op = "push" -> {[To(pc + 1) EXCEPT !.pushed = regs[w.val]]}
          [] w.op = "pop" -> {Sets(w.val, pushed)}
          [] w.op \in {"ignored", "prfm", "touch"} -> {To(pc + 1)}
          [] OTHER -> {To(Nowhere)}
=============================================================================
