---------------------------- MODULE TrampoProofs ----------------------------
(***************************************************************************)
(* Proofs about Trampo, for every number of threads, pages and slots.      *)
(*                                                                         *)
(* OneOwner is not inductive: nothing in it ties the owners of a slot to   *)
(* its bit.  The invariant below adds that an owned slot has its bit set,  *)
(* that the bit stays set while a free is between its clock read and its   *)
(* critical section, and that the time stamp of a slot whose bit is clear  *)
(* is the time of its release, as the owner saw it.                        *)
(*                                                                         *)
(* NeverAborts is about the two tests of a branch range.  That a page that *)
(* passes the first has a slot that passes the second is arithmetic: the   *)
(* first slot at or above the low end lies in the range, since the range   *)
(* is no shorter than a slot, and on the page, since slots fill the page.  *)
(***************************************************************************)
EXTENDS Trampo, TLAPS

Owned == \A s \in Slots : owners[s] > 0 => s \in used

Freeing ==
    /\ \A t \in Threads : pc[t] = "free" =>
        /\ slot[t] \in used
        /\ owners[slot[t]] = 0
        /\ now[t] = released[slot[t]]
    /\ \A t, u \in Threads :
        pc[t] = "free" /\ pc[u] = "free" /\ slot[t] = slot[u] => t = u

Stamped == \A s \in Slots \ used :
    released[s] # Never /\ Delay > 0 => stamp[s] = released[s]

ClockRead == \A t \in Threads : now[t] <= clock

Unmapped == \A s \in Slots : ~Mapped(s) =>
    s \notin used /\ owners[s] = 0 /\ released[s] = Never

IInv == TypeOK /\ OneOwner /\ Owned /\ Freeing /\ Stamped /\ ClockRead /\ Unmapped

USE SizeAssumption, BoundAssumption, PlacesAssumption, WindowsAssumption
USE DEF Never, None

LEMMA SlotPage == \A s \in Slots : s[1] \in Nat
BY DEF Slots

LEMMA InitIInv == Init => IInv
<1> SUFFICES ASSUME Init PROVE IInv
  OBVIOUS
<1>1. TypeOK
  BY DEF Init, TypeOK
<1>2. OneOwner /\ Owned /\ Unmapped
  BY DEF Init, OneOwner, Owned, Unmapped
<1>3. Freeing /\ Stamped /\ ClockRead
  BY DEF Init, Freeing, Stamped, ClockRead
<1> QED
  BY <1>1, <1>2, <1>3 DEF IInv

LEMMA StutterIInv ==
    ASSUME IInv, UNCHANGED vars PROVE IInv'
BY DEF IInv, vars, local, TypeOK, OneOwner, Owned, Freeing, Stamped, ClockRead,
       Unmapped, Mapped

LEMMA TickIInv ==
    ASSUME IInv, Tick PROVE IInv'
BY DEF Tick, local, IInv, TypeOK, OneOwner, Owned, Freeing, Stamped, ClockRead,
       Unmapped, Mapped

LEMMA AllocBeginIInv ==
    ASSUME IInv, NEW t \in Threads, NEW w \in Windows, AllocBegin(t, w)
    PROVE  IInv'
BY DEF AllocBegin, IInv, TypeOK, OneOwner, Owned, Freeing, Stamped, ClockRead,
       Unmapped, Mapped

(* A slot whose bit was clear may be handed out: nobody owns it and nobody *)
(* is freeing it.                                                          *)
LEMMA HandOutIInv ==
    ASSUME IInv, NEW t \in Threads, NEW s \in Slots, s \notin used,
           pc[t] = "alloc", HandOut(t, s),
           pages' \in Seq(Places), Len(pages') <= MaxPages,
           Len(pages) <= Len(pages'), s[1] <= Len(pages'),
           UNCHANGED <<clock, stamp, released>>
    PROVE  IInv'
<1> USE DEF HandOut, Return
<1>0. owners[s] = 0
  BY DEF IInv, TypeOK, Owned
<1>1. TypeOK'
  BY DEF IInv, TypeOK
<1>2. OneOwner' /\ Owned'
  BY <1>0 DEF IInv, TypeOK, OneOwner, Owned
<1>3. Freeing'
  BY DEF IInv, TypeOK, Freeing
<1>4. Stamped' /\ ClockRead'
  BY DEF IInv, TypeOK, Stamped, ClockRead
<1>5. Unmapped'
  <2>1. \A o \in Slots : ~Mapped(o)' => ~Mapped(o) /\ o # s
    BY SlotPage DEF Mapped, IInv, TypeOK
  <2> QED
    BY <2>1 DEF IInv, TypeOK, Unmapped
<1> QED
  BY <1>1, <1>2, <1>3, <1>4, <1>5 DEF IInv

LEMMA AllocReuseIInv ==
    ASSUME IInv, NEW t \in Threads, AllocReuse(t) PROVE IInv'
<1>1. PICK s \in Reusable(t) : HandOut(t, s)
  BY DEF AllocReuse
<1>2. s \in Slots /\ s \notin used /\ s[1] <= Len(pages)
  BY DEF Reusable, Mapped
<1>3. pages \in Seq(Places) /\ Len(pages) \in Nat /\ Len(pages) <= MaxPages
  BY DEF IInv, TypeOK
<1>4. pc[t] = "alloc" /\ UNCHANGED <<pages, clock, stamp, released>>
  BY DEF AllocReuse
<1> QED
  BY <1>1, <1>2, <1>3, <1>4, HandOutIInv

LEMMA AllocPageIInv ==
    ASSUME IInv, NEW t \in Threads, AllocPage(t) PROVE IInv'
<1> DEFINE fits(place) == {i \in 0..Count - 1 : SlotInRange(place, i, want[t])}
<1>1. PICK place \in Places :
        /\ pages' = Append(pages, place)
        /\ IF fits(place) = {}
           THEN /\ pc' = [pc EXCEPT ![t] = "abort"]
                /\ UNCHANGED <<used, owners, local>>
           ELSE \E i \in fits(place) : HandOut(t, <<Len(pages) + 1, i>>)
  BY DEF AllocPage
<1>2. /\ pages \in Seq(Places)
      /\ pages' \in Seq(Places)
      /\ Len(pages') = Len(pages) + 1
      /\ Len(pages') <= MaxPages
      /\ Len(pages) \in Nat
  BY <1>1 DEF AllocPage, IInv, TypeOK
<1>3. CASE fits(place) = {}
  <2>1. /\ pc' = [pc EXCEPT ![t] = "abort"]
        /\ UNCHANGED <<clock, used, stamp, now, want, slot, owners, released>>
    BY <1>1, <1>3 DEF AllocPage, local
  <2>2. \A s \in Slots : ~Mapped(s)' => ~Mapped(s)
    BY <1>2, SlotPage DEF Mapped
  <2>3. TypeOK' /\ OneOwner' /\ Owned' /\ Stamped' /\ ClockRead'
    BY <1>2, <2>1 DEF IInv, TypeOK, OneOwner, Owned, Stamped, ClockRead
  <2>4. Freeing' /\ Unmapped'
    BY <2>1, <2>2 DEF IInv, TypeOK, Freeing, Unmapped
  <2> QED
    BY <2>3, <2>4 DEF IInv
<1>4. CASE fits(place) # {}
  <2>1. PICK i \in 0..Count - 1 : HandOut(t, <<Len(pages) + 1, i>>)
    BY <1>1, <1>4
  <2> DEFINE s == <<Len(pages) + 1, i>>
  <2>2. s \in Slots /\ s[1] = Len(pages) + 1
    BY <1>2 DEF Slots
  <2>3. ~Mapped(s)
    BY <1>2, <2>2 DEF Mapped
  <2>4. s \notin used
    BY <2>2, <2>3 DEF IInv, Unmapped
  <2> HIDE DEF s
  <2> QED
    BY <1>2, <2>1, <2>2, <2>4, HandOutIInv DEF AllocPage, s
<1> QED
  BY <1>3, <1>4

LEMMA AllocFailIInv ==
    ASSUME IInv, NEW t \in Threads, AllocFail(t) PROVE IInv'
BY DEF AllocFail, Return, IInv, TypeOK, OneOwner, Owned, Freeing, Stamped, ClockRead,
       Unmapped, Mapped

LEMMA FreeBeginIInv ==
    ASSUME IInv, NEW t \in Threads, NEW s \in Slots, FreeBegin(t, s) PROVE IInv'
<1>1. s \in used /\ owners[s] = 1 /\ Mapped(s)
  BY DEF FreeBegin, IInv, TypeOK, OneOwner, Owned, Unmapped
<1>2. TypeOK'
  BY <1>1 DEF FreeBegin, IInv, TypeOK
<1>3. OneOwner' /\ Owned' /\ ClockRead'
  BY <1>1 DEF FreeBegin, IInv, TypeOK, OneOwner, Owned, ClockRead
<1>4. Freeing'
  BY <1>1 DEF FreeBegin, IInv, TypeOK, Freeing
<1>5. Stamped' /\ Unmapped'
  BY <1>1 DEF FreeBegin, IInv, TypeOK, Stamped, Unmapped, Mapped
<1> QED
  BY <1>2, <1>3, <1>4, <1>5 DEF IInv

LEMMA FreeEndIInv ==
    ASSUME IInv, NEW t \in Threads, FreeEnd(t) PROVE IInv'
<1>1. /\ slot[t] \in Slots
      /\ owners[slot[t]] = 0
      /\ now[t] = released[slot[t]]
  BY DEF FreeEnd, IInv, TypeOK, Freeing
<1>2. TypeOK'
  BY <1>1 DEF FreeEnd, Return, IInv, TypeOK
<1>3. OneOwner' /\ Owned' /\ ClockRead' /\ Unmapped'
  BY <1>1 DEF FreeEnd, Return, IInv, TypeOK, OneOwner, Owned, ClockRead, Unmapped, Mapped
<1>4. Freeing'
  BY <1>1 DEF FreeEnd, Return, IInv, TypeOK, Freeing
<1>5. Stamped'
  BY <1>1 DEF FreeEnd, Return, IInv, TypeOK, Stamped
<1> QED
  BY <1>2, <1>3, <1>4, <1>5 DEF IInv

LEMMA NextIInv == IInv /\ [Next]_vars => IInv'
<1> SUFFICES ASSUME IInv, [Next]_vars PROVE IInv'
  OBVIOUS
<1>1. CASE Tick
  BY <1>1, TickIInv
<1>2. CASE UNCHANGED vars
  BY <1>2, StutterIInv
<1>3. ASSUME NEW t \in Threads,
             \/ \E w \in Windows : AllocBegin(t, w)
             \/ AllocReuse(t)
             \/ AllocPage(t)
             \/ AllocFail(t)
             \/ \E s \in Slots : FreeBegin(t, s)
             \/ FreeEnd(t)
      PROVE  IInv'
  BY <1>3, AllocBeginIInv, AllocReuseIInv, AllocPageIInv, AllocFailIInv,
     FreeBeginIInv, FreeEndIInv
<1> QED
  BY <1>1, <1>2, <1>3 DEF Next

LEMMA Invariance == Spec => []IInv
BY InitIInv, NextIInv, PTL DEF Spec

(* Every variable of a trampoline manager keeps its type.                  *)
THEOREM TypeCorrect == Spec => []TypeOK
<1>1. IInv => TypeOK
  BY DEF IInv
<1> QED
  BY <1>1, Invariance, PTL

(* sh_trampo_alloc never gives a slot to two owners.                       *)
THEOREM SlotExclusive == Spec => []OneOwner
<1>1. IInv => OneOwner
  BY DEF IInv
<1> QED
  BY <1>1, Invariance, PTL

-----------------------------------------------------------------------------
LEMMA DivFacts ==
    ASSUME NEW a \in Nat, NEW b \in Nat \ {0}
    PROVE  a \div b \in Nat /\ b * (a \div b) <= a /\ a < b * (a \div b) + b
OBVIOUS

LEMMA TimesBelow ==
    ASSUME NEW a \in Nat, NEW b \in Nat, NEW c \in Nat \ {0}, c * a < c * b
    PROVE  a < b
OBVIOUS

(* A page in the range of a branch, as line 103 sees it, has a slot in the *)
(* range as line 126 sees it.                                              *)
LEMMA RangeHasSlot ==
    ASSUME NEW w \in Windows \union {Anywhere}, NEW place \in Places,
           NewPageInRange(place, w)
    PROVE  \E i \in 0..Count - 1 : SlotInRange(place, i, w)
<1>1. /\ w \in [hint : BOOLEAN, lo : Nat, hi : Nat] /\ place \in Nat
      /\ Size \in Nat \ {0} /\ Count \in Nat \ {0} /\ Size * 0 = 0
  <2>1. w \in [hint : BOOLEAN, lo : Nat, hi : Nat]
    <3>1. CASE w \in Windows
      BY <3>1, Zenon
    <3>2. CASE w = Anywhere
      BY <3>2, SMT DEF Anywhere
    <3> QED
      BY <3>1, <3>2
  <2>2. place \in Nat /\ Size \in Nat \ {0} /\ Count \in Nat \ {0}
    OBVIOUS
  <2>3. Size * 0 = 0
    BY <2>2
  <2> QED
    BY <2>1, <2>2, <2>3
<1>2. CASE ~w.hint
  BY <1>1, <1>2 DEF SlotInRange
<1>3. CASE w.hint
  <2>1. PICK c : c = Count
    OBVIOUS
  <2>2. /\ PageSize = Size * c /\ w.lo + Size <= w.hi + 1 /\ c \in Nat \ {0}
        /\ w.lo < place + PageSize - Size /\ place <= w.hi
    BY <1>1, <1>3, <2>1, RangeAssumption DEF NewPageInRange, Anywhere
  <2>3. CASE w.lo <= place
    <3>1. SlotInRange(place, 0, w)
      BY <1>1, <2>2, <2>3 DEF SlotInRange, SlotAddr
    <3> QED
      BY <1>1, <3>1
  <2>4. CASE place < w.lo
    <3> DEFINE a == w.lo - place + Size - 1
    <3>1. a \in Nat
      BY <1>1, <2>4
    <3>2. PICK i \in Nat : Size * i <= a /\ a < Size * i + Size
      BY <1>1, <3>1, DivFacts
    <3>3. Size * i < Size * c
      BY <1>1, <2>2, <3>2
    <3>4. i < c
      BY <1>1, <2>2, <3>3, TimesBelow
    <3>5. w.lo <= place + Size * i /\ place + Size * i <= w.hi
      BY <1>1, <2>2, <3>2
    <3>6. SlotInRange(place, i, w)
      BY <1>1, <3>5 DEF SlotInRange, SlotAddr
    <3> QED
      BY <1>1, <2>1, <2>2, <3>4, <3>6
  <2> QED
    BY <1>1, <2>3, <2>4
<1> QED
  BY <1>1, <1>2, <1>3

LEMMA NextAborts == IInv /\ NeverAborts /\ [Next]_vars => NeverAborts'
<1> SUFFICES ASSUME IInv, NeverAborts, [Next]_vars PROVE NeverAborts'
  OBVIOUS
<1> USE DEF IInv, TypeOK, NeverAborts
<1>1. CASE Tick \/ UNCHANGED vars
  BY <1>1 DEF Tick, vars
<1>2. ASSUME NEW t \in Threads,
             \/ \E w \in Windows : AllocBegin(t, w)
             \/ AllocReuse(t)
             \/ AllocFail(t)
             \/ \E s \in Slots : FreeBegin(t, s)
             \/ FreeEnd(t)
      PROVE  NeverAborts'
  BY <1>2 DEF AllocBegin, AllocReuse, AllocFail, FreeBegin, FreeEnd, HandOut, Return
<1>3. ASSUME NEW t \in Threads, AllocPage(t) PROVE NeverAborts'
  <2> DEFINE fits(place) == {i \in 0..Count - 1 : SlotInRange(place, i, want[t])}
  <2>1. PICK place \in Places :
          /\ NewPageInRange(place, want[t])
          /\ fits(place) # {} => \E i \in fits(place) : HandOut(t, <<Len(pages) + 1, i>>)
    BY <1>3 DEF AllocPage
  <2>2. fits(place) # {}
    BY <2>1, RangeHasSlot
  <2>3. pc' = [pc EXCEPT ![t] = "idle"]
    BY <2>1, <2>2 DEF HandOut, Return
  <2> QED
    BY <2>3
<1> QED
  BY <1>1, <1>2, <1>3 DEF Next

(* sh_trampo_alloc never reaches its abort(): a new page that passed the   *)
(* test of line 103 always has a slot that passes that of line 126, for    *)
(* any page, slot size and branch range that RangeAssumption allows.       *)
THEOREM AbortUnreachable == Spec => []NeverAborts
<1>1. Init => NeverAborts
  BY DEF Init, NeverAborts
<1> QED
  BY <1>1, NextAborts, Invariance, PTL DEF Spec

-----------------------------------------------------------------------------
(* The refinement: handing a slot out is Grant, the call of                *)
(* sh_trampo_free is Release, every other step leaves the pool unchanged.  *)
LEMMA HandOutGrants ==
    ASSUME IInv, NEW t \in Threads, NEW s \in Slots, s \notin used,
           pc[t] = "alloc", HandOut(t, s), Pool!Cool(s),
           UNCHANGED <<clock, released>>
    PROVE  Pool!Grant(s)
<1>1. owners[s] = 0
  BY DEF IInv, TypeOK, Owned
<1>2. owners' = [owners EXCEPT ![s] = 1]
  BY <1>1 DEF HandOut, IInv, TypeOK
<1> QED
  BY <1>1, <1>2 DEF Pool!Grant

LEMMA AllocReuseGrants ==
    ASSUME IInv, NEW t \in Threads, AllocReuse(t) PROVE Pool!Next
<1>1. PICK s \in Reusable(t) : HandOut(t, s)
  BY DEF AllocReuse
<1>2. s \in Slots /\ s \notin used /\ StampPassed(s, t)
  BY <1>1 DEF Reusable
<1>3. Pool!Cool(s)
  <2>1. CASE released[s] = Never \/ Delay = 0
    BY <2>1 DEF Pool!Cool, Pool!Never
  <2>2. CASE released[s] # Never /\ Delay # 0
    <3>1. stamp[s] = released[s] /\ now[t] <= clock
      BY <1>2, <2>2 DEF IInv, Stamped, ClockRead
    <3>2. clock - released[s] > Delay
      BY <1>2, <2>2, <3>1 DEF StampPassed, IInv, TypeOK
    <3> QED
      BY <3>2 DEF Pool!Cool
  <2> QED
    BY <2>1, <2>2
<1>4. Pool!Grant(s)
  BY <1>1, <1>2, <1>3, HandOutGrants DEF AllocReuse
<1> QED
  BY <1>2, <1>4 DEF Pool!Next

LEMMA AllocPageGrants ==
    ASSUME IInv, NEW t \in Threads, AllocPage(t)
    PROVE  Pool!Next \/ UNCHANGED Pool!poolVars
<1> DEFINE fits(place) == {i \in 0..Count - 1 : SlotInRange(place, i, want[t])}
<1>1. PICK place \in Places :
        IF fits(place) = {}
        THEN UNCHANGED <<used, owners, local>>
        ELSE \E i \in fits(place) : HandOut(t, <<Len(pages) + 1, i>>)
  BY DEF AllocPage
<1>2. CASE fits(place) = {}
  BY <1>1, <1>2 DEF AllocPage, Pool!poolVars
<1>3. CASE fits(place) # {}
  <2>1. PICK i \in 0..Count - 1 : HandOut(t, <<Len(pages) + 1, i>>)
    BY <1>1, <1>3
  <2> DEFINE s == <<Len(pages) + 1, i>>
  <2>2. s \in Slots /\ s[1] = Len(pages) + 1 /\ Len(pages) \in Nat
    BY DEF Slots, AllocPage, IInv, TypeOK
  <2>3. s \notin used /\ released[s] = Never
    BY <2>2 DEF IInv, Unmapped, Mapped
  <2>4. Pool!Cool(s)
    BY <2>3 DEF Pool!Cool, Pool!Never
  <2> HIDE DEF s
  <2>5. Pool!Grant(s)
    BY <2>1, <2>2, <2>3, <2>4, HandOutGrants DEF AllocPage, s
  <2> QED
    BY <2>2, <2>5 DEF Pool!Next
<1> QED
  BY <1>2, <1>3

LEMMA FreeBeginReleases ==
    ASSUME IInv, NEW t \in Threads, NEW s \in Slots, FreeBegin(t, s)
    PROVE  Pool!Next
<1>1. owners[s] = 1
  BY DEF FreeBegin, IInv, TypeOK, OneOwner
<1>2. Pool!Release(s)
  BY <1>1 DEF FreeBegin, Pool!Release, IInv, TypeOK
<1> QED
  BY <1>2 DEF Pool!Next

LEMMA StepRefines == IInv /\ [Next]_vars => [Pool!Next]_(Pool!poolVars)
<1> SUFFICES ASSUME IInv, [Next]_vars
             PROVE  Pool!Next \/ UNCHANGED Pool!poolVars
  OBVIOUS
<1>1. CASE Tick
  BY <1>1 DEF Tick, Pool!Next, Pool!Tick
<1>2. CASE UNCHANGED vars
  BY <1>2 DEF vars, Pool!poolVars
<1>3. ASSUME NEW t \in Threads,
             \/ \E w \in Windows : AllocBegin(t, w)
             \/ AllocFail(t)
             \/ FreeEnd(t)
      PROVE  UNCHANGED Pool!poolVars
  BY <1>3 DEF AllocBegin, AllocFail, FreeEnd, Pool!poolVars
<1>4. ASSUME NEW t \in Threads,
             \/ AllocReuse(t)
             \/ AllocPage(t)
             \/ \E s \in Slots : FreeBegin(t, s)
      PROVE  Pool!Next \/ UNCHANGED Pool!poolVars
  BY <1>4, AllocReuseGrants, AllocPageGrants, FreeBeginReleases
<1> QED
  BY <1>1, <1>2, <1>3, <1>4 DEF Next

(* The trampoline manager implements the pool: a slot rests for more than  *)
(* delay_sec seconds between two owners, although both operations read the *)
(* clock before they take pages_lock.                                      *)
THEOREM TrampoImplementsPool == Spec => PoolSpec
<1>1. Init => Pool!Init
  BY DEF Init, Pool!Init, Pool!Never
<1> QED
  BY <1>1, StepRefines, Invariance, PTL DEF Spec, PoolSpec, Pool!Spec
=============================================================================
