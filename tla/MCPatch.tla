------------------------------ MODULE MCPatch -------------------------------
(***************************************************************************)
(* Instances of Patch for TLC: the file and the functions in it.           *)
(***************************************************************************)
EXTENDS Patch, TLC

CONSTANTS fa, fb

MCNew == fa :> 300 @@ fb :> 400

Seg(vaddr, filesz, memsz, exec, read) ==
    [vaddr |-> vaddr, filesz |-> filesz, memsz |-> memsz, exec |-> exec, read |-> read]
File(segs, kernel, faults) == [segs |-> segs, kernel |-> kernel, faults |-> faults]

Plain == Word("ignored", 0, "none")
Straight == [i \in 1..4 |-> Plain]
Fun(start, code, size, called) == [start |-> start, code |-> code, size |-> size, called |-> called]

\* free: the place out of the library can be had.
World(file, fns, free) ==
    [elf |-> file, fun |-> fns, out |-> [a \in OutPlaces |-> IF free THEN Zero ELSE Jump(Foreign)]]

\* The instructions that depend on their address, as the i-th of a head, with a
\* target in the head, before it and behind it.
Special(start, i) ==
    LET Targets == {start + k : k \in {0, 2, 3, -2, 7}}
        To(kind, val) == {Word(kind, t - (start + i - 1), val) : t \in Targets}
    IN  UNION {To(kind, "none") : kind \in {"b", "bl", "b.cond", "cb", "prfm"}}
        \union To("adr", "xd") \union To("ldr", "xd") \union To("ldrv", "vd")
        \union {Word("tb", 7, "none")}
        \union {Word("adrp", off, "xd") : off \in -1..1}
Heads(start, i) == {[Straight EXCEPT ![i] = w] : w \in Special(start, i)}

\* Code without and with a gap behind it that is not mapped to its end.
NoGap(faults) == File(<<Seg(32, 16, 16, TRUE, TRUE)>>, FALSE, faults)
OneGap(faults) == File(<<Seg(32, 20, 20, TRUE, TRUE), Seg(80, 16, 16, FALSE, TRUE)>>, FALSE, faults)

\* Every head, moved whole for want of an exit, and its first instruction alone.
HeadWorlds ==
    {World(NoGap({}), fa :> Fun(32, code, 4, TRUE), FALSE) : code \in UNION {Heads(32, i) : i \in 1..4}}
    \union {World(NoGap({}), fa :> Fun(32, code, 2, TRUE), TRUE) : code \in Heads(32, 1)}

\* Every failure under a caller: an aligned function with an exit out of the
\* library, an unaligned one with an exit in it.
FaultWorlds ==
    LET faults == {"mprotect", "write", "rewrite", "compare", "foreign"}
    IN  {World(OneGap(faults), fa :> Fun(32, Straight, 4, TRUE), TRUE),
         World(OneGap(faults), fa :> Fun(33, Straight, 4, TRUE), FALSE)}

\* What gaps are like, with two functions that want exits.
GapWorlds ==
    LET Two(file, one, two, free) ==
            World(file, fa :> Fun(one, Straight, 4, FALSE) @@ fb :> Fun(two, Straight, 2, FALSE), free)
        faults == {"mprotect", "write"}
    IN  {
        Two(OneGap(faults), 33, 40, FALSE),
        \* a function that is too small
        World(OneGap(faults), fa :> Fun(32, Straight, 4, FALSE) @@ fb :> Fun(40, Straight, 0, FALSE), TRUE),
        \* loaded by the kernel, not readable
        Two(File(<<Seg(32, 20, 20, TRUE, FALSE)>>, TRUE, faults), 33, 40, FALSE),
        \* zeroed data with a hole behind it
        Two(File(<<Seg(32, 4, 20, FALSE, TRUE), Seg(80, 16, 16, TRUE, TRUE)>>, FALSE, faults), 80, 86, FALSE),
        \* a whole page
        Two(File(<<Seg(32, 16, 16, FALSE, TRUE), Seg(64, 32, 32, TRUE, TRUE)>>, FALSE, faults), 80, 85, FALSE),
        \* more gaps than are looked at
        Two(File(<<Seg(32, 8, 8, TRUE, TRUE), Seg(48, 8, 8, TRUE, TRUE), Seg(64, 10, 10, TRUE, TRUE)>>,
                 FALSE, faults), 64, 69, FALSE)}

MCWorlds == HeadWorlds \union FaultWorlds \union GapWorlds
=============================================================================
