------------------------------ MODULE MapsHide ------------------------------
(***************************************************************************)
(* hidemaps/hide_maps_path.cpp: replacing the mappings of a library's file *)
(* by anonymous memory, and clearing its ELF header.                       *)
(*                                                                         *)
(* riru_hide reads /proc/self/maps and then, for one mapping after the     *)
(* other, copies it away, unmaps it, maps anonymous memory in its place    *)
(* and copies it back, while the other threads of the process run, use the *)
(* library, map memory and may unload the library.  raw_syscall returns    *)
(* -errno, which FAILURE_RETURN compares with -1 and MAP_FAILED, that is,  *)
(* with EPERM: it misses the failures that there are, and the next step is *)
(* taken.                                                                  *)
(***************************************************************************)
EXTENDS Naturals, FiniteSets, FiniteSetsExt

CONSTANTS
    Ranges,         \* the mappings of the library, by address
    Perm,           \* Perm[a]: its protection, a subset of {"r", "w", "x"}
    MaxCalls,       \* bound: calls of riru_hide and clear_elf_header
    MaxWrites       \* bound: writes of the application to each mapping

VARIABLES
    mem,            \* mem[a]: what is mapped at a
    want,           \* want[a]: what the application has stored there last
    hider,          \* the call of riru_hide or clear_elf_header
    snap,           \* the maps as it has read them
    crashed,        \* "no", or who used memory that does not let him
    unloaded,       \* the library was unloaded
    hides,          \* how many calls there were
    failed,         \* history: a system call failed
    taken,          \* history: other memory was mapped in a hole that the hider made, or knew as a mapping
    lost,           \* history: the mappings of which a write was lost
    hurt,           \* history: other memory was unmapped, written or protected
    hidden          \* history: the mappings that riru_hide has gone through

world == <<want, unloaded, taken, lost>>
vars == <<mem, want, hider, snap, crashed, unloaded, hides, failed, taken, lost, hurt, hidden>>

\* Contents are numbered by the write they are from; 0 is a page of zeros.
Zeros == 0
None == [is |-> "none", perm |-> {}, data |-> Zeros]
Other == [is |-> "other", perm |-> {"r", "w"}, data |-> 1]
Anonymous(a) == [is |-> "anon", perm |-> snap[a].perm, data |-> Zeros]
Bad == MaxWrites + 2    \* no contents: the address is an errno

Idle == [op |-> "no", at |-> "idle", a |-> 0, todo |-> {}, backup |-> Bad]

Init ==
    /\ mem = [a \in Ranges |-> [is |-> "lib", perm |-> Perm[a], data |-> 1]]
    /\ want = [a \in Ranges |-> 1]
    /\ hider = Idle /\ snap = mem
    /\ crashed = "no" /\ unloaded = FALSE /\ hides = 0
    /\ failed = FALSE /\ taken = FALSE /\ lost = {} /\ hurt = FALSE /\ hidden = {}

At(where) == crashed = "no" /\ hider.at = where
A == hider.a
Goto(where) == hider' = [hider EXCEPT !.at = where]
Ours(a) == mem[a].is \in {"lib", "anon"}
Crash(who) == crashed' = who /\ UNCHANGED <<mem, hider, hurt>>

\* A system call succeeds and changes the mapping, or fails and changes nothing.
Syscall(ok, m) ==
    IF ok THEN /\ mem' = [mem EXCEPT ![A] = m] /\ UNCHANGED failed
               /\ hurt' = (hurt \/ (mem[A].is = "other" /\ m # mem[A]))
    ELSE failed' = TRUE /\ UNCHANGED <<mem, hurt>>
MayFail(possible, m) == \E ok \in {possible, FALSE} : Syscall(ok, m)
-----------------------------------------------------------------------------
\* Mutant: the name of a mapping is not looked at.
Matched_Mutant(a) == mem[a].is # "none"

Matched(a) == mem[a].is = "lib"

ReadMaps(op) ==
    /\ At("idle") /\ hides < MaxCalls
    /\ snap' = mem
    /\ hider' = [Idle EXCEPT !.op = op, !.at = "next",
                     !.todo = {a \in Ranges : Matched(a) /\ (op = "hide" => "r" \in mem[a].perm)}]
    /\ hides' = hides + 1
    /\ UNCHANGED <<mem, world, crashed, failed, hurt, hidden>>

Rest(todo) == todo \ {Min(todo)}

NextItem ==
    /\ At("next")
    /\ hider' = IF hider.todo = {} THEN Idle
                ELSE [hider EXCEPT !.a = Min(hider.todo), !.todo = Rest(hider.todo), !.backup = Bad,
                          !.at = IF hider.op = "hide" THEN "backup" ELSE "header"]
    /\ UNCHANGED <<mem, world, snap, crashed, hides, failed, hurt, hidden>>

(* do_hide *)

Backup ==
    /\ At("backup")
    /\ \E ok \in BOOLEAN : /\ hider' = [hider EXCEPT !.at = "copy", !.backup = IF ok THEN Zeros ELSE Bad]
                           /\ failed' = (failed \/ ~ok)
    /\ UNCHANGED <<mem, world, snap, crashed, hides, hurt, hidden>>

Copy ==
    /\ At("copy")
    /\ IF hider.backup = Bad \/ "r" \notin mem[A].perm THEN Crash("hider")
       ELSE hider' = [hider EXCEPT !.at = "unmap", !.backup = mem[A].data] /\ UNCHANGED <<mem, crashed, hurt>>
    /\ UNCHANGED <<world, snap, hides, failed, hidden>>

Unmap ==
    /\ At("unmap")
    /\ MayFail(TRUE, None)
    /\ Goto("map")
    /\ UNCHANGED <<world, snap, crashed, hides, hidden>>

\* The address is a hint: if it is not free the memory is mapped somewhere else.
Map ==
    /\ At("map")
    /\ MayFail(TRUE, IF mem[A].is = "none" THEN Anonymous(A) ELSE mem[A])
    /\ Goto("writable")
    /\ UNCHANGED <<world, snap, crashed, hides, hidden>>

\* Mutant: the memory is not made writable.
ForCopy_Mutant(perm) == perm

ForCopy(perm) == perm \union {"w"}

Writable ==
    /\ At("writable")
    /\ MayFail(mem[A].is # "none", [mem[A] EXCEPT !.perm = ForCopy(snap[A].perm)])
    /\ Goto("restore")
    /\ UNCHANGED <<world, snap, crashed, hides, hidden>>

Restore ==
    /\ At("restore")
    /\ IF "w" \notin mem[A].perm THEN Crash("hider")
       ELSE /\ mem' = [mem EXCEPT ![A].data = hider.backup]
            /\ hurt' = (hurt \/ mem[A].is = "other")
            /\ Goto("readonly") /\ UNCHANGED crashed
    /\ UNCHANGED <<world, snap, hides, failed, hidden>>

\* Mutant: a mapping that was writable loses that.
Final_Mutant(a) == snap[a].perm \ {"w"}

Final(a) == snap[a].perm

Readonly ==
    /\ At("readonly")
    /\ IF "w" \in Final(A) THEN UNCHANGED <<mem, failed, hurt>>
       ELSE MayFail(mem[A].is # "none", [mem[A] EXCEPT !.perm = Final(A)])
    /\ Goto("next")
    /\ hidden' = hidden \union {A}
    /\ UNCHANGED <<world, snap, crashed, hides>>

(* clear_elf_header *)

\* The magic number is read as the mapping is.
Header ==
    /\ At("header")
    /\ IF "r" \notin mem[A].perm THEN Crash("hider")
       ELSE /\ \E isElf \in BOOLEAN : Goto(IF isElf THEN "protect" ELSE "next")
            /\ UNCHANGED <<mem, crashed, hurt>>
    /\ UNCHANGED <<world, snap, hides, failed, hidden>>

\* mProtectDef and mProtectUserDefined call mprotect of libc, whose failure is seen.
Protect ==
    /\ At("protect")
    /\ \E ok \in {mem[A].is # "none", FALSE} :
         /\ Syscall(ok, [mem[A] EXCEPT !.perm = {"r", "w", "x"}])
         /\ Goto(IF ok THEN "clear" ELSE "next")
    /\ UNCHANGED <<world, snap, crashed, hides, hidden>>

\* Only the header's bytes become zero, not what the application keeps in the mapping.
Clear ==
    /\ At("clear")
    /\ IF "w" \notin mem[A].perm THEN Crash("hider")
       ELSE /\ hurt' = (hurt \/ mem[A].is = "other")
            /\ Goto("perms") /\ UNCHANGED <<mem, crashed>>
    /\ UNCHANGED <<world, snap, hides, failed, hidden>>

Perms ==
    /\ At("perms")
    /\ MayFail(mem[A].is # "none", [mem[A] EXCEPT !.perm = snap[A].perm])
    /\ Goto("next")
    /\ UNCHANGED <<world, snap, crashed, hides, hidden>>
-----------------------------------------------------------------------------
(* Other threads: external *)

Running == crashed = "no"

\* What is written to a mapping that was copied is lost.
AppWrite(a) ==
    /\ Running /\ ~unloaded /\ "w" \in Perm[a] /\ want[a] <= MaxWrites
    /\ IF Ours(a) /\ "w" \in mem[a].perm
       THEN /\ want' = [want EXCEPT ![a] = @ + 1]
            /\ mem' = [mem EXCEPT ![a].data = want'[a]]
            /\ lost' = IF A = a /\ hider.at \in {"unmap", "map", "writable", "restore"}
                       THEN lost \union {a} ELSE lost
            /\ UNCHANGED crashed
       ELSE crashed' = "app" /\ UNCHANGED <<want, mem, lost>>
    /\ UNCHANGED <<hider, snap, unloaded, hides, failed, taken, hurt, hidden>>

AppUse(a) ==
    /\ Running /\ ~unloaded /\ Perm[a] # {}
    /\ ~Ours(a) \/ mem[a].data = Zeros
    /\ crashed' = "app"
    /\ UNCHANGED <<mem, world, hider, snap, hides, failed, hurt, hidden>>

MapOther(a) ==
    /\ Running /\ mem[a].is = "none"
    /\ mem' = [mem EXCEPT ![a] = Other]
    /\ taken' = (taken \/ hider.at # "idle")
    /\ UNCHANGED <<want, hider, snap, crashed, unloaded, hides, failed, lost, hurt, hidden>>

\* The linker unmaps the library's addresses, whatever is there.
Unload ==
    /\ Running /\ ~unloaded
    /\ unloaded' = TRUE
    /\ hurt' = (hurt \/ \E a \in Ranges : mem[a].is = "other")
    /\ mem' = [a \in Ranges |-> None]
    /\ UNCHANGED <<want, hider, snap, crashed, hides, failed, taken, lost, hidden>>
-----------------------------------------------------------------------------
Steps ==
    \/ NextItem \/ Backup \/ Copy \/ Unmap \/ Map \/ Writable \/ Restore \/ Readonly
    \/ Header \/ Protect \/ Clear \/ Perms

Next ==
    \/ \E op \in {"hide", "header"} : ReadMaps(op)
    \/ Steps
    \/ \E a \in Ranges : AppWrite(a) \/ AppUse(a) \/ MapOther(a)
    \/ Unload

Spec == Init /\ [][Next]_vars
-----------------------------------------------------------------------------
(* Properties *)

RemappedAsItWas ==
    hider.at = "idle" /\ crashed = "no" /\ ~failed /\ ~taken /\ ~unloaded =>
      \A a \in Ranges :
        /\ Ours(a) /\ mem[a].perm = Perm[a]
        /\ a \notin lost => mem[a].data = want[a]
        /\ a \in hidden => mem[a].is = "anon"

CrashesAreExplained ==
    /\ crashed = "hider" =>
         failed \/ unloaded \/ (hider.at = "header" /\ "r" \notin Perm[A])
    /\ crashed = "app" =>
         failed \/ taken \/ hider.at \in {"map", "writable", "restore"}
    /\ hurt => taken

\* After the calls the library is mapped where it was, with the protection that it
\* had and the contents that it has now, and what riru_hide went through is anonymous
\* memory; except for writes between the copy and its restoring, which are lost.
\* riru_hide itself crashes only after a system call failed, or on a library that was
\* unloaded after its maps were read, and clear_elf_header also on a mapping that
\* cannot be read; the application crashes only between the unmapping and the
\* restoring, or when something failed or was mapped in the hole.  Memory that is not
\* the library's is unmapped, written to or protected only if it was mapped at an
\* address of the library during a call.
HidingIsClean == RemappedAsItWas /\ CrashesAreExplained
=============================================================================
