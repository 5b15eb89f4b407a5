------------------------------- MODULE Trampo -------------------------------
(***************************************************************************)
(* sh_trampo.cpp: a trampoline manager.  Executable pages are mapped on    *)
(* demand and cut into slots of Size bytes; a slot is handed out by        *)
(* sh_trampo_alloc and given back by sh_trampo_free.  Three managers use   *)
(* it: the hub trampolines, the enter trampolines and the exit trampolines *)
(* (the only ones that pass a hint and a branch range).                    *)
(*                                                                         *)
(* Both operations read the clock BEFORE they take pages_lock, so each is  *)
(* two steps: Begin reads the clock, the other is the critical section.    *)
(***************************************************************************)
EXTENDS Integers, Sequences

CONSTANTS
    Threads,
    Places,     \* addresses at which the kernel may map a page
    PageSize,   \* SH_TRAMPO_PAGE_SZ
    Size,       \* trampo_size
    Delay,      \* delay_sec
    Windows,    \* the requests: [hint, lo, hi], hint FALSE for "anywhere"
    MaxPages,   \* bound: pages the process can map
    MaxTime     \* bound: the clock stops here

Count == PageSize \div Size

ASSUME SizeAssumption ==
    /\ PageSize \in Nat /\ Size \in Nat \ {0} /\ Size <= PageSize
    /\ Count \in Nat \ {0}
ASSUME BoundAssumption == Delay \in Nat /\ MaxPages \in Nat /\ MaxTime \in Nat
ASSUME PlacesAssumption == Places \subseteq Nat
ASSUME WindowsAssumption ==
    Windows \subseteq [hint : BOOLEAN, lo : Nat, hi : Nat]
\* The manager that is asked for a branch range cuts its pages of 4096 bytes
\* into 8 or 16, and the range of a branch instruction is wider than a slot.
ASSUME RangeAssumption ==
    \A w \in Windows : w.hint => PageSize = Size * Count /\ w.lo + Size <= w.hi + 1

VARIABLES
    clock,      \* gettimeofday(), seconds
    pages,      \* the mapped pages, in the order of their creation
    used,       \* slots whose bit is set in page->flags
    stamp,      \* page->timestamps
    pc, now, want, slot,    \* per thread: control point and locals
    owners, released        \* history: owners of a slot, time of its release

vars == <<clock, pages, used, stamp, pc, now, want, slot, owners, released>>
local == <<now, want, slot>>

\* A slot is named by the number of its page and its index in the page.
Slots == (1..MaxPages) \X (0..Count - 1)
None == <<0, 0>>
Never == -1
Anywhere == [hint |-> FALSE, lo |-> 0, hi |-> 0]

Mapped(s) == s[1] <= Len(pages)
SlotAddr(place, i) == place + Size * i

\* Line 70 and line 103 test the page, each its own way; 85 and 126 the slot.
PageInRange(place, w) ==
    w.hint => ~(place + PageSize - Size < w.lo \/ w.hi < place)
NewPageInRange_Mutant(place, w) ==     \* forgets that a slot has a size
    w.hint => ~(w.lo >= place + PageSize \/ w.hi < place)
NewPageInRange(place, w) ==
    w.hint => ~(w.lo >= place + PageSize - Size \/ w.hi < place)
SlotInRange(place, i, w) ==
    w.hint => ~(SlotAddr(place, i) < w.lo \/ w.hi < SlotAddr(place, i))

\* SLIST_INSERT_HEAD: the newest page is searched first, then index by index.
Before(s, o) == s[1] > o[1] \/ (s[1] = o[1] /\ s[2] < o[2])

\* The quarantine test of line 79, with the clock value the caller read.
StampPassed_Mutant(s, t) ==            \* off by one second
    Delay > 0 => ~(now[t] <= stamp[s] \/ now[t] - stamp[s] < Delay)
StampPassed(s, t) ==
    Delay > 0 => ~(now[t] <= stamp[s] \/ now[t] - stamp[s] <= Delay)

Reusable(t) ==
    {s \in Slots \ used :
        /\ Mapped(s)
        /\ PageInRange(pages[s[1]], want[t])
        /\ StampPassed(s, t)
        /\ SlotInRange(pages[s[1]], s[2], want[t])}
-----------------------------------------------------------------------------
Init ==
    /\ clock = Delay + 1
    /\ pages = << >>
    /\ used = {}
    /\ stamp = [s \in Slots |-> 0]
    /\ pc = [t \in Threads |-> "idle"]
    /\ now = [t \in Threads |-> 0]
    /\ want = [t \in Threads |-> Anywhere]
    /\ slot = [t \in Threads |-> None]
    /\ owners = [s \in Slots |-> 0]
    /\ released = [s \in Slots |-> Never]

Tick ==
    /\ clock < MaxTime
    /\ clock' = clock + 1
    /\ UNCHANGED <<pages, used, stamp, pc, local, owners, released>>

AllocBegin(t, w) ==
    /\ pc[t] = "idle"
    /\ pc' = [pc EXCEPT ![t] = "alloc"]
    /\ now' = [now EXCEPT ![t] = clock]
    /\ want' = [want EXCEPT ![t] = w]
    /\ UNCHANGED <<clock, pages, used, stamp, slot, owners, released>>

\* The call returns; its locals are dead.
Return(t) ==
    /\ pc' = [pc EXCEPT ![t] = "idle"]
    /\ now' = [now EXCEPT ![t] = 0]
    /\ want' = [want EXCEPT ![t] = Anywhere]
    /\ slot' = [slot EXCEPT ![t] = None]

\* The caller receives slot s.
HandOut(t, s) ==
    /\ used' = used \union {s}
    /\ owners' = [owners EXCEPT ![s] = @ + 1]
    /\ Return(t)

\* Lines 66-94: the first unused slot, in page order, that passes all tests.
AllocReuse(t) ==
    /\ pc[t] = "alloc"
    /\ \E s \in Reusable(t) :
        /\ \A o \in Reusable(t) \ {s} : Before(s, o)
        /\ HandOut(t, s)
    /\ UNCHANGED <<clock, pages, stamp, released>>

\* Lines 97-133: a new page at a place of the kernel's choice.  When the page
\* passed its test and no slot of it is in range, the process aborts.
AllocPage(t) ==
    /\ pc[t] = "alloc"
    /\ Reusable(t) = {}
    /\ Len(pages) < MaxPages
    /\ \E place \in Places :
        /\ \A k \in 1..Len(pages) : pages[k] # place
        /\ NewPageInRange(place, want[t])
        /\ pages' = Append(pages, place)
        /\ LET fits == {i \in 0..Count - 1 : SlotInRange(place, i, want[t])}
           IN  IF fits = {}
               THEN /\ pc' = [pc EXCEPT ![t] = "abort"]
                    /\ UNCHANGED <<used, owners, local>>
               ELSE \E i \in fits :
                    /\ \A j \in fits : i <= j
                    /\ HandOut(t, <<Len(pages) + 1, i>>)
    /\ UNCHANGED <<clock, stamp, released>>

\* The err path: mmap or calloc failed, or the new page is out of range.
AllocFail(t) ==
    /\ pc[t] = "alloc"
    /\ Reusable(t) = {}
    /\ Return(t)
    /\ UNCHANGED <<clock, pages, used, stamp, owners, released>>

\* The owner gives the slot up: any thread may do it, as an unhook does.
FreeBegin(t, s) ==
    /\ pc[t] = "idle"
    /\ owners[s] > 0
    /\ pc' = [pc EXCEPT ![t] = "free"]
    /\ now' = [now EXCEPT ![t] = clock]
    /\ slot' = [slot EXCEPT ![t] = s]
    /\ owners' = [owners EXCEPT ![s] = @ - 1]
    /\ released' = [released EXCEPT ![s] = clock]
    /\ UNCHANGED <<clock, pages, used, stamp, want>>

\* Lines 157-171.
FreeEnd_Mutant(t) ==                   \* clears the bit of the first slot of the page
    /\ pc[t] = "free"
    /\ stamp' = [stamp EXCEPT ![slot[t]] = IF Delay > 0 THEN now[t] ELSE @]
    /\ used' = used \ {<<slot[t][1], 0>>}
    /\ Return(t)
    /\ UNCHANGED <<clock, pages, owners, released>>
FreeEnd(t) ==
    /\ pc[t] = "free"
    /\ stamp' = [stamp EXCEPT ![slot[t]] = IF Delay > 0 THEN now[t] ELSE @]
    /\ used' = used \ {slot[t]}
    /\ Return(t)
    /\ UNCHANGED <<clock, pages, owners, released>>

Next ==
    \/ Tick
    \/ \E t \in Threads :
        \/ \E w \in Windows : AllocBegin(t, w)
        \/ AllocReuse(t)
        \/ AllocPage(t)
        \/ AllocFail(t)
        \/ \E s \in Slots : FreeBegin(t, s)
        \/ FreeEnd(t)

Spec == Init /\ [][Next]_vars
-----------------------------------------------------------------------------
TypeOK ==
    /\ clock \in Nat
    /\ pages \in Seq(Places) /\ Len(pages) <= MaxPages
    /\ used \subseteq Slots
    /\ stamp \in [Slots -> Nat]
    /\ pc \in [Threads -> {"idle", "alloc", "free", "abort"}]
    /\ now \in [Threads -> Nat]
    /\ want \in [Threads -> Windows \union {Anywhere}]
    /\ slot \in [Threads -> Slots \union {None}]
    /\ owners \in [Slots -> Nat]
    /\ released \in [Slots -> Nat \union {Never}]

(* A region of executable memory belongs to one hook at a time: the bit    *)
(* map, the quarantine and the two unlocked clock reads never let two      *)
(* callers of sh_trampo_alloc hold the same slot.                          *)
OneOwner == \A s \in Slots : owners[s] <= 1

(* A new page that passed its range test has a slot in the range: the test *)
(* of line 103 and that of line 126 agree at the boundaries of the branch  *)
(* range, so the abort() of line 133 is never reached.                     *)
NeverAborts == \A t \in Threads : pc[t] # "abort"

(* The manager implements a pool of slots that are granted to one owner at *)
(* a time and rest for more than delay_sec seconds between two owners.     *)
Pool == INSTANCE SlotPool
PoolSpec == Pool!Spec
=============================================================================
