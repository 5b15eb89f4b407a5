-------------------------------- MODULE Exit --------------------------------
(***************************************************************************)
(* sh_exit.cpp: room near a function for an absolute jump, so that one     *)
(* branch instruction reaches a proxy anywhere.  First choice is memory    *)
(* mapped near by (out of library; Trampo has the allocator, here is what  *)
(* it promises), second the gaps between the segments of the ELF file      *)
(* (in library).  Callers hold sh_switches_lock.                           *)
(*                                                                         *)
(* An exit is four words, and so are the places it may be put at.  What a  *)
(* place holds: "junk" (the file's), "zero", "flag" (the mark of a gap     *)
(* that was filled with zeros), or "jump" to an address.                   *)
(***************************************************************************)
EXTENDS A64, FiniteSets

CONSTANTS
    RangeLow,   \* how far a branch reaches down, in words
    RangeHigh,  \* and up
    GapsCap,    \* SH_EXIT_GAPS_CAP
    OutPlaces   \* places for exits out of library

VARIABLES
    elf,        \* the file: its LOAD segments, whether the kernel loaded it, and what may fail
    place,      \* place[a]: what is at address a, for the places in gaps
    exit_lock,  \* sh_exit_lock is held
    out         \* out[a]: what is at address a, for OutPlaces; "freed" is still a jump

exitVars == <<elf, place, exit_lock, out>>

ExitLen == 4
Fault(what) == what \in elf.faults
Holds(kind, to) == [kind |-> kind, to |-> to]
Zero == Holds("zero", 0)
Junk == Holds("junk", 0)
Flag == Holds("flag", 0)
Jump(to) == Holds("jump", to)

Least(a, b) == IF a < b THEN a ELSE b
Most(a, b) == IF a > b THEN a ELSE b
AlignStart(a, n) == a - (a % n)
AlignEnd(a, n) == AlignStart(a + n - 1, n)
-----------------------------------------------------------------------------
(* sh_exit_get_gaps *)

End(seg) == seg.vaddr + seg.memsz

\* The page where the next segment starts; the kernel's files have none.
NextPageStart(i) ==
    IF ~elf.kernel /\ i < Len(elf.segs)
    THEN AlignStart(elf.segs[i + 1].vaddr, PageSize)
    ELSE AlignEnd(End(elf.segs[i]), PageSize)

\* What is unused behind segment i.  mapped: the end of its last page.
Gap(i) ==
    LET seg == elf.segs[i]
        pageEnd == AlignEnd(End(seg), PageSize)
        filePageEnd == AlignEnd(seg.vaddr + seg.filesz, PageSize)
        From(start, fill, readable) ==
            [start |-> start, end |-> NextPageStart(i), fill |-> fill,
             readable |-> readable, mapped |-> pageEnd]
    IN  IF seg.exec
        THEN From(AlignEnd(End(seg), ExitLen), TRUE, seg.read /\ pageEnd = NextPageStart(i))
        ELSE IF pageEnd > filePageEnd
             THEN From(AlignEnd(End(seg), ExitLen), FALSE, seg.read /\ pageEnd = NextPageStart(i))
             ELSE From(pageEnd, TRUE, FALSE)

Usable(gap) == IF gap.fill THEN gap.end > gap.start + ExitLen ELSE gap.end > gap.start

\* The segments with a gap; only the first GapsCap are looked at.
Gaps ==
    LET usable == {i \in 1..Len(elf.segs) : Usable(Gap(i))}
    IN  {i \in usable : Cardinality({j \in usable : j < i}) < GapsCap}

PlacesOf(gap) == {a \in gap.start..(gap.end - ExitLen) : a % ExitLen = 0}
Places == DOMAIN place

\* A place that was not mapped by its segment is readable once mprotect was
\* called for the gap, which is only done to fill it.
CanRead(gap, a) == gap.fill \/ a < gap.mapped
-----------------------------------------------------------------------------
(* sh_exit_alloc *)

ExitInit(file, outs) ==
    /\ elf = file
    /\ place = [a \in UNION {PlacesOf(Gap(i)) : i \in Gaps} |->
                  IF \E i \in Gaps : a \in PlacesOf(Gap(i)) /\ Gap(i).fill THEN Junk ELSE Zero]
    /\ exit_lock = FALSE
    /\ out = outs

Reaches(pc, a) == pc - RangeLow <= a /\ a <= pc + RangeHigh

\* sh_exit_alloc_out_library; resting: places that were freed too recently.
Near(pc, resting, a) == a \in OutPlaces \ resting /\ out[a].kind # "jump" /\ Reaches(pc, a)

AllocOut(pc, to, resting, a) ==
    /\ Near(pc, resting, a)
    /\ out' = [out EXCEPT ![a] = Jump(to)]
    /\ UNCHANGED <<elf, place, exit_lock>>

\* Mutant: the mark of a gap that was filled before is ignored.
Filled_Mutant(gap) == IF gap.fill
                      THEN [a \in Places |-> IF a = gap.start THEN Flag
                                             ELSE IF a \in PlacesOf(gap) THEN Zero ELSE place[a]]
                      ELSE place

\* sh_exit_fill_zero
Filled(gap) == IF gap.fill /\ place[gap.start] # Flag
               THEN [a \in Places |-> IF a = gap.start THEN Flag
                                      ELSE IF a \in PlacesOf(gap) THEN Zero ELSE place[a]]
               ELSE place
FillFails(gap) == /\ gap.fill /\ Fault("mprotect")
                  /\ ~gap.readable \/ place[gap.start] # Flag

\* Mutant: the branch's range does not end the search.
Candidates_Mutant(gap, pc) ==
    LET start == AlignEnd(IF pc >= RangeLow THEN Most(gap.start, pc - RangeLow) ELSE gap.start, ExitLen)
    IN  {a \in PlacesOf(gap) : start <= a}

\* The places of a gap that the loop of sh_exit_try_alloc_in_library visits.
Candidates(gap, pc) ==
    LET start == AlignEnd(IF pc >= RangeLow THEN Most(gap.start, pc - RangeLow) ELSE gap.start, ExitLen)
        end == AlignStart(Least(gap.end - ExitLen, pc + RangeHigh), ExitLen)
    IN  {a \in PlacesOf(gap) : start <= a /\ a <= end}

\* It stops at the first place that is zero, or that cannot be read.
Stops(gap, pc, filled) ==
    {a \in Candidates(gap, pc) : ~CanRead(gap, a) \/ filled[a] = Zero}
FirstStop(gap, pc, filled) ==
    {a \in Stops(gap, pc, filled) : \A b \in Stops(gap, pc, filled) : a <= b}

LockExit == ~exit_lock /\ exit_lock' = TRUE /\ UNCHANGED <<elf, place, out>>
UnlockExit == exit_lock' = FALSE /\ UNCHANGED <<elf, place, out>>

\* Mutant: success leaves the loop without the lock's release.
TakePlace_Mutant(i, pc, to, a) ==
    LET filled == Filled(Gap(i)) IN
    /\ a \in FirstStop(Gap(i), pc, filled) /\ CanRead(Gap(i), a)
    /\ place' = [filled EXCEPT ![a] = Jump(to)]
    /\ UNCHANGED <<elf, exit_lock, out>>

\* One turn of the loop over the gaps, for gap i: the exit is put at a.
TakePlace(i, pc, to, a) ==
    LET filled == Filled(Gap(i)) IN
    /\ a \in FirstStop(Gap(i), pc, filled) /\ CanRead(Gap(i), a)
    /\ place' = [filled EXCEPT ![a] = Jump(to)]
    /\ exit_lock' = FALSE
    /\ UNCHANGED <<elf, out>>

\* The gap has no place, or its place cannot be made writable: go on.
NoPlace(i, pc) ==
    LET filled == Filled(Gap(i))
        first == FirstStop(Gap(i), pc, filled)
    IN  /\ first = {} \/ (Fault("mprotect") /\ \E a \in first : CanRead(Gap(i), a))
        /\ place' = filled
        /\ UNCHANGED <<elf, exit_lock, out>>

\* The search reads a page that is not mapped: the allocation has failed.
SearchFaults(i, pc) ==
    LET filled == Filled(Gap(i)) IN
    /\ \E a \in FirstStop(Gap(i), pc, filled) : ~CanRead(Gap(i), a)
    /\ place' = filled
    /\ exit_lock' = FALSE
    /\ UNCHANGED <<elf, out>>

\* The return statement inside the protected section: the lock is kept.
ReturnLocked(i) ==
    /\ FillFails(Gap(i))
    /\ UNCHANGED exitVars
-----------------------------------------------------------------------------
(* sh_exit_free *)

FreeOut(a) ==
    /\ out' = [out EXCEPT ![a].kind = "freed"]
    /\ UNCHANGED <<elf, place, exit_lock>>

\* sh_exit_free_in_library, which compares the place with what it wrote.
FreePlace(a, to) ==
    /\ place[a] = Jump(to)
    /\ place' = [place EXCEPT ![a] = Zero]
    /\ UNCHANGED <<elf, exit_lock, out>>

KeepPlace(a, to) ==
    /\ place[a] # Jump(to) \/ Fault("mprotect")
    /\ UNCHANGED exitVars
-----------------------------------------------------------------------------
\* What the processor finds in word k of an exit.
ExitWord(content, k) ==
    IF content.kind \in {"jump", "freed"} THEN AbsoluteJump("br", content.to)[k + 1]
    ELSE Word(content.kind, 0, "none")
=============================================================================
