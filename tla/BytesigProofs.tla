--------------------------- MODULE BytesigProofs ---------------------------
(***************************************************************************)
(* Proofs about Bytesig, for any number of threads, signals, slots and     *)
(* sections: the types; the handler is registered once per signal; a jump  *)
(* goes to an open section; and a section that nothing has disturbed       *)
(* catches its faults.                                                     *)
(*                                                                         *)
(* The invariant has a part for bytesig_init (InitInv), one for the tables *)
(* (TableInv), and one for each thread (ThreadInv), which a step of        *)
(* another thread cannot disturb (OthersKeep).                             *)
(***************************************************************************)
EXTENDS Bytesig, TLAPS

Registering == {"register", "publish"}
Protecting == {"protect", "claim", "save"}
Releasing == {"unprotect", "release"}

-----------------------------------------------------------------------------
(* The invariant *)

InitInv ==
    /\ \A t \in Threads :
        /\ thread[t].pc \in Registering <=> init_lock = t
        /\ thread[t].pc \in {"init", "register", "publish", "handler"} => thread[t].sig \in Sigs
        /\ thread[t].pc = "register" =>
               action[thread[t].sig] = Theirs /\ table[thread[t].sig] = Null
        /\ thread[t].pc = "publish" =>
               thread[t].prev = Theirs /\ table[thread[t].sig] = Null
    /\ \A s \in Sigs : action[s] = Ours =>
        \/ table[s] # Null
        \/ \E t \in Threads : thread[t].pc = "publish" /\ thread[t].sig = s
    /\ PreviousIsTheirs

\* A thread has one slot of a table, and only of tables that exist.
TableInv == \A s \in Sigs :
    /\ \A t \in Threads : \A i, j \in Own(t, s) : i = j
    /\ \A i \in Slots : tids[s][i] # Nobody => table[s] # Null

\* What the control point of t says of its slots and sections.
Locals(t) ==
    /\ thread[t].pc \notin Protecting \cup Releasing => thread[t].k = 1
    /\ thread[t].pc \in {"claim", "save", "release"} => thread[t].k <= Len(Signums)
    /\ thread[t].pc \in Protecting \cup Releasing => InSection(t)
    /\ thread[t].pc = "claim" => Own(t, Sig(t)) = {} /\ table[Sig(t)] # Null
    /\ thread[t].pc \in {"save", "release"} => tids[Sig(t)][thread[t].j] = t
    /\ thread[t].pc \in Protecting => Top(t).protected /\ (Top(t).clean => ~thread[t].leaked)

\* bytesig_unprotect has released the slots of the signals it has done.
Released(t) == thread[t].pc \in Releasing =>
    \A m \in 1..(thread[t].k - 1) : Own(t, Signums[m]) = {}

Saving(t, s) == thread[t].pc = "save" /\ Sig(t) = s
ToRelease(t, s) == /\ thread[t].pc \in Releasing
                   /\ \E m \in thread[t].k..Len(Signums) : Signums[m] = s

\* A slot of t leads to an open section with protection, or is being saved or
\* released, or belongs to a section that was left by a return statement.
SlotsLead(t) == \A s \in Sigs : \A i \in Own(t, s) :
    \/ Saving(t, s) \/ ToRelease(t, s) \/ thread[t].leaked
    \/ \E d \in DOMAIN sections[t] :
           jbufs[s][i] = Buffer(t, d) /\ sections[t][d].protected

\* Section e of t has promised to catch s, and nothing has disturbed it.
Undisturbed(t, e, s) ==
    /\ s \in sections[t][e].ready /\ sections[t][e].clean
    /\ \A d \in e..Len(sections[t]) : sections[t][d].protected /\ ~sections[t][d].nested
    /\ thread[t].pc \notin Releasing
    /\ thread[t].pc \in Protecting /\ e = Len(sections[t]) =>
           \E m \in 1..(thread[t].k - 1) : Signums[m] = s

Caught(t, e, s) ==
    /\ ~Saving(t, s)
    /\ \E i \in Own(t, s), d \in 1..e : jbufs[s][i] = Buffer(t, d)

Covers(t) == \A e \in DOMAIN sections[t] : \A s \in Sigs :
    Undisturbed(t, e, s) => Caught(t, e, s)

ReadyHaveTables(t) == \A e \in DOMAIN sections[t] :
    \A s \in sections[t][e].ready : table[s] # Null

ThreadInv(t) ==
    /\ Locals(t)
    /\ Released(t)
    /\ SlotsLead(t)
    /\ Covers(t)
    /\ ReadyHaveTables(t)
    /\ thread[t].pc = "wild" => thread[t].leaked

IInv == TypeOK /\ InitInv /\ TableInv /\ \A t \in Threads : ThreadInv(t)

USE ConstantsAssumption DEF ConstantsAssumption, Nobody, Null, Theirs, Ours

-----------------------------------------------------------------------------
(* Types *)

\* Leaving the innermost section keeps what the others are.
LEMMA FrontFacts ==
    ASSUME NEW q \in Seq(Sections), q # <<>>
    PROVE  /\ Len(q) \in Nat \ {0} /\ Last(q) = q[Len(q)] /\ Last(q) \in Sections
           /\ Front(q) \in Seq(Sections)
           /\ Len(Front(q)) = Len(q) - 1
           /\ \A d \in 1..(Len(q) - 1) : Front(q)[d] = q[d]
<1>1. Len(q) \in Nat \ {0}
  OBVIOUS
<1>2. Last(q) = q[Len(q)] /\ Last(q) \in Sections
  BY <1>1 DEF Last
<1>3. Front(q) = [i \in 1..(Len(q) - 1) |-> q[i]]
  BY <1>1 DEF Front
<1>. QED  BY <1>1, <1>2, <1>3

\* Section r is section o, which may have been disturbed since.
Like(r, o) == r.n = o.n /\ r.protected = o.protected /\ r.ready = o.ready /\ r.clean = o.clean

LEMMA PoppedFacts ==
    ASSUME NEW q \in Seq(Sections), q # <<>>
    PROVE  /\ Popped(q) \in Seq(Sections)
           /\ Len(Popped(q)) = Len(q) - 1
           /\ \A d \in 1..(Len(q) - 1) :
                  /\ Like(Popped(q)[d], q[d])
                  /\ Popped(q)[d].nested = (d = Len(q) - 1 \/ q[d].nested)
<1>1. PICK f \in Seq(Sections) : f = Front(q)
  BY FrontFacts
<1>2. /\ Len(q) \in Nat \ {0} /\ Len(f) = Len(q) - 1
      /\ \A d \in 1..(Len(q) - 1) : f[d] = q[d]
  BY <1>1, FrontFacts
<1>3. Popped(q) = IF f = <<>> THEN f ELSE [f EXCEPT ![Len(f)].nested = TRUE]
  BY <1>1 DEF Popped
<1>4. CASE f = <<>>
  <2>1. Popped(q) = f /\ Len(f) = 0
    BY <1>3, <1>4
  <2>2. Popped(q) \in Seq(Sections) /\ Len(Popped(q)) = Len(q) - 1
    BY <1>2, <2>1
  <2>3. \A d \in 1..(Len(q) - 1) : FALSE
    <3>1. Len(q) - 1 = 0
      BY <1>2, <2>1
    <3>2. \A d \in 1..0 : FALSE
      OBVIOUS
    <3>. QED  BY <3>1, <3>2, Zenon
  <2>. QED  BY <2>2, <2>3, Zenon
<1>5. CASE f # <<>>
  <2>1. Len(f) \in 1..Len(f) /\ f[Len(f)] \in Sections
    BY <1>5
  <2>2. PICK r \in Sections : r = [f[Len(f)] EXCEPT !.nested = TRUE]
    BY <2>1 DEF Sections
  <2>3. Like(r, f[Len(f)]) /\ r.nested = TRUE
    BY <2>1, <2>2 DEF Sections, Like
  <2>4. Popped(q) = [f EXCEPT ![Len(f)] = r]
    BY <1>3, <1>5, <2>2
  <2>5. Popped(q) \in Seq(Sections) /\ Len(Popped(q)) = Len(f)
    BY <2>1, <2>4
  <2>6. \A d \in 1..Len(f) : Popped(q)[d] = IF d = Len(f) THEN r ELSE f[d]
    BY <2>1, <2>4
  <2>7. \A d \in 1..Len(f) : f[d] \in Sections /\ f[d] = q[d]
    BY <1>2
  <2>8. ASSUME NEW d \in 1..Len(f)
        PROVE  /\ Like(Popped(q)[d], q[d])
               /\ Popped(q)[d].nested = (d = Len(f) \/ q[d].nested)
    <3>1. CASE d = Len(f)
      BY <2>1, <2>3, <2>6, <2>7, <3>1
    <3>2. CASE d # Len(f)
      BY <2>6, <2>7, <3>2 DEF Like, Sections
    <3>. QED  BY <3>1, <3>2
  <2>. QED  BY <1>2, <2>5, <2>8
<1>. QED  BY <1>4, <1>5

\* A jump leaves the sections inside its target.
LEMMA SubSeqFacts ==
    ASSUME NEW q \in Seq(Sections), NEW d \in DOMAIN q
    PROVE  /\ SubSeq(q, 1, d) \in Seq(Sections)
           /\ Len(SubSeq(q, 1, d)) = d
           /\ \A e \in 1..d : SubSeq(q, 1, d)[e] = q[e]
<1>1. Len(q) \in Nat /\ d \in 1..Len(q)
  OBVIOUS
<1>2. SubSeq(q, 1, d) = [i \in 1..d |-> q[i]]
  BY <1>1
<1>3. \A i \in 1..d : q[i] \in Sections
  BY <1>1
<1>. QED  BY <1>1, <1>2, <1>3

\* The only slot of a set is the one the search finds.
LEMMA FirstIn ==
    ASSUME NEW S \in SUBSET Slots, S # {}, \A i, j \in S : i = j
    PROVE  First(S) \in S
<1>1. PICK i \in S : \A j \in S : i = j
  OBVIOUS
<1>2. i <= i /\ i \in Nat
  BY DEF Slots
<1>3. \A j \in S : i <= j
  BY <1>1, <1>2
<1>. QED  BY <1>3 DEF First

\* Every step keeps the types of the threads, and leaves the others alone.
Moved(t, p, k, j, b) ==
    /\ thread' \in [Threads -> ThreadStates]
    /\ \A u \in Threads \ {t} : thread'[u] = thread[u]
    /\ thread'[t].pc = p /\ thread'[t].k = k /\ thread'[t].j = j /\ thread'[t].leaked = b

Keeps(t, p) == /\ Moved(t, p, thread[t].k, thread[t].j, thread[t].leaked)
               /\ thread'[t].sig = thread[t].sig

LEMMA SigFacts ==
    /\ Len(Signums) \in Nat /\ 1 \in Slots
    /\ \A k \in 1..Len(Signums) : Signums[k] \in Sigs
    /\ \A s \in Sigs : \E k \in 1..Len(Signums) : Signums[k] = s
BY DEF Sigs, Slots

LEMMA SectionFacts ==
    ASSUME NEW q \in Seq(Sections)
    PROVE  /\ Len(q) \in Nat /\ DOMAIN q = 1..Len(q)
           /\ \A e \in DOMAIN q :
                  /\ q[e] \in Sections /\ q[e].n \in 1..MaxSections
                  /\ q[e].ready \in SUBSET Sigs
<1>1. Len(q) \in Nat /\ DOMAIN q = 1..Len(q) /\ \A e \in DOMAIN q : q[e] \in Sections
  OBVIOUS
<1>2. \A r \in Sections : r.n \in 1..MaxSections /\ r.ready \in SUBSET Sigs
  BY DEF Sections
<1>. QED  BY <1>1, <1>2

LEMMA StateFacts ==
    ASSUME NEW r \in ThreadStates
    PROVE  /\ r.pc \in Points /\ r.k \in 1..(Len(Signums) + 1) /\ r.j \in Slots
           /\ r.sig \in Sigs \cup {Null} /\ r.prev \in {Null, Theirs, Ours}
           /\ r.to \in {"exit", "catch"} /\ r.leaked \in BOOLEAN
BY DEF ThreadStates

LEMMA Replaced ==
    ASSUME thread \in [Threads -> ThreadStates], NEW t \in Threads, NEW r \in ThreadStates,
           thread' = [thread EXCEPT ![t] = r]
    PROVE  Moved(t, r.pc, r.k, r.j, r.leaked) /\ thread'[t] = r
BY DEF Moved

LEMMA GotoFacts ==
    ASSUME thread \in [Threads -> ThreadStates], NEW t \in Threads, NEW p \in Points, Goto(t, p)
    PROVE  Keeps(t, p)
<1>1. PICK q \in ThreadStates : q = thread[t]
  OBVIOUS
<1>2. PICK r \in ThreadStates : r = [q EXCEPT !.pc = p]
  BY DEF ThreadStates
<1>3. r.pc = p /\ r.k = q.k /\ r.j = q.j /\ r.sig = q.sig /\ r.leaked = q.leaked
  BY <1>2 DEF ThreadStates
<1>4. thread' = [thread EXCEPT ![t] = r]
  BY <1>1, <1>2 DEF Goto
<1>5. Moved(t, r.pc, r.k, r.j, r.leaked) /\ thread'[t] = r
  BY <1>4, Replaced, Zenon
<1>. QED  BY <1>1, <1>3, <1>5, Zenon DEF Keeps

LEMMA RunFacts ==
    ASSUME thread \in [Threads -> ThreadStates], NEW t \in Threads, NEW b \in BOOLEAN,
           thread' = [thread EXCEPT ![t] = Running(b)]
    PROVE  Moved(t, "run", 1, 1, b)
<1>1. PICK r \in ThreadStates : r = Running(b)
  <2>1. 1 \in 1..(Len(Signums) + 1)
    BY SigFacts
  <2>. QED  BY <2>1, SigFacts DEF ThreadStates, Running, Points
<1>2. r.pc = "run" /\ r.k = 1 /\ r.j = 1 /\ r.leaked = b
  BY <1>1, SigFacts DEF Running, ThreadStates
<1>3. Moved(t, r.pc, r.k, r.j, r.leaked)
  BY <1>1, Replaced, Zenon
<1>. QED  BY <1>2, <1>3, Zenon

LEMMA RunAgain ==
    ASSUME thread \in [Threads -> ThreadStates], NEW t \in Threads, Run(t)
    PROVE  Moved(t, "run", 1, 1, thread[t].leaked)
<1>1. PICK q \in ThreadStates : q = thread[t]
  OBVIOUS
<1>2. thread' = [thread EXCEPT ![t] = Running(q.leaked)]
  BY <1>1 DEF Run
<1>. QED  BY <1>1, <1>2, RunFacts, StateFacts

LEMMA AdvanceFacts ==
    ASSUME thread \in [Threads -> ThreadStates], NEW t \in Threads, thread[t].k <= Len(Signums),
           thread' = [thread EXCEPT ![t].k = @ + 1]
    PROVE  Moved(t, thread[t].pc, thread[t].k + 1, thread[t].j, thread[t].leaked)
<1>1. PICK q \in ThreadStates : q = thread[t]
  OBVIOUS
<1>2. PICK r \in ThreadStates : r = [q EXCEPT !.k = @ + 1]
  <2>1. q.k + 1 \in 1..(Len(Signums) + 1)
    BY <1>1, SigFacts, StateFacts
  <2>. QED  BY <2>1 DEF ThreadStates
<1>3. r.pc = q.pc /\ r.k = q.k + 1 /\ r.j = q.j /\ r.leaked = q.leaked
  BY <1>2 DEF ThreadStates
<1>4. thread' = [thread EXCEPT ![t] = r]
  BY <1>1, <1>2, Zenon
<1>5. Moved(t, r.pc, r.k, r.j, r.leaked) /\ thread'[t] = r
  BY <1>4, Replaced, Zenon
<1>. QED  BY <1>1, <1>3, <1>5, Zenon

LEMMA NextFacts ==
    ASSUME thread \in [Threads -> ThreadStates], NEW t \in Threads, NEW p \in Points,
           thread[t].k <= Len(Signums),
           thread' = [thread EXCEPT ![t].pc = p, ![t].k = @ + 1, ![t].j = 1]
    PROVE  Moved(t, p, thread[t].k + 1, 1, thread[t].leaked)
<1>1. PICK q \in ThreadStates : q = thread[t]
  OBVIOUS
<1>2. PICK r \in ThreadStates : r = [q EXCEPT !.pc = p, !.k = @ + 1, !.j = 1]
  <2>1. q.k + 1 \in 1..(Len(Signums) + 1)
    BY <1>1, SigFacts, StateFacts
  <2>. QED  BY <2>1, SigFacts DEF ThreadStates
<1>3. r.pc = p /\ r.k = q.k + 1 /\ r.j = 1 /\ r.leaked = q.leaked
  BY <1>2 DEF ThreadStates
<1>4. thread' = [thread EXCEPT ![t] = r]
  BY <1>1, <1>2, Zenon
<1>5. Moved(t, r.pc, r.k, r.j, r.leaked) /\ thread'[t] = r
  BY <1>4, Replaced, Zenon
<1>. QED  BY <1>1, <1>3, <1>5, Zenon

LEMMA SlotFacts ==
    ASSUME thread \in [Threads -> ThreadStates], NEW t \in Threads, NEW p \in Points,
           NEW j \in Slots, thread' = [thread EXCEPT ![t].pc = p, ![t].j = j]
    PROVE  Moved(t, p, thread[t].k, j, thread[t].leaked)
<1>1. PICK q \in ThreadStates : q = thread[t]
  OBVIOUS
<1>2. PICK r \in ThreadStates : r = [q EXCEPT !.pc = p, !.j = j]
  BY DEF ThreadStates
<1>3. r.pc = p /\ r.k = q.k /\ r.j = j /\ r.leaked = q.leaked
  BY <1>2 DEF ThreadStates
<1>4. thread' = [thread EXCEPT ![t] = r]
  BY <1>1, <1>2, Zenon
<1>5. Moved(t, r.pc, r.k, r.j, r.leaked) /\ thread'[t] = r
  BY <1>4, Replaced, Zenon
<1>. QED  BY <1>1, <1>3, <1>5, Zenon

LEMMA SigSetFacts ==
    ASSUME thread \in [Threads -> ThreadStates], NEW t \in Threads, NEW p \in Points,
           NEW s \in Sigs, thread' = [thread EXCEPT ![t].pc = p, ![t].sig = s]
    PROVE  Moved(t, p, thread[t].k, thread[t].j, thread[t].leaked) /\ thread'[t].sig = s
<1>1. PICK q \in ThreadStates : q = thread[t]
  OBVIOUS
<1>2. PICK r \in ThreadStates : r = [q EXCEPT !.pc = p, !.sig = s]
  BY DEF ThreadStates
<1>3. r.pc = p /\ r.k = q.k /\ r.j = q.j /\ r.leaked = q.leaked /\ r.sig = s
  BY <1>2 DEF ThreadStates
<1>4. thread' = [thread EXCEPT ![t] = r]
  BY <1>1, <1>2, Zenon
<1>5. Moved(t, r.pc, r.k, r.j, r.leaked) /\ thread'[t] = r
  BY <1>4, Replaced, Zenon
<1>. QED  BY <1>1, <1>3, <1>5, Zenon

LEMMA PrevFacts ==
    ASSUME thread \in [Threads -> ThreadStates], NEW t \in Threads, NEW v \in {Null, Theirs, Ours},
           thread' = [thread EXCEPT ![t].pc = "publish", ![t].prev = v]
    PROVE  Keeps(t, "publish") /\ thread'[t].prev = v
<1>1. PICK q \in ThreadStates : q = thread[t]
  OBVIOUS
<1>2. PICK r \in ThreadStates : r = [q EXCEPT !.pc = "publish", !.prev = v]
  BY DEF ThreadStates, Points
<1>3. /\ r.pc = "publish" /\ r.k = q.k /\ r.j = q.j /\ r.leaked = q.leaked /\ r.sig = q.sig
      /\ r.prev = v
  BY <1>2 DEF ThreadStates
<1>4. thread' = [thread EXCEPT ![t] = r]
  BY <1>1, <1>2, Zenon
<1>5. Moved(t, r.pc, r.k, r.j, r.leaked) /\ thread'[t] = r
  BY <1>4, Replaced, Zenon
<1>. QED  BY <1>1, <1>3, <1>5, Zenon DEF Keeps

LEMMA ToFacts ==
    ASSUME thread \in [Threads -> ThreadStates], NEW t \in Threads, NEW o \in {"exit", "catch"},
           thread' = [thread EXCEPT ![t].pc = "unprotect", ![t].to = o]
    PROVE  Keeps(t, "unprotect")
<1>1. PICK q \in ThreadStates : q = thread[t]
  OBVIOUS
<1>2. PICK r \in ThreadStates : r = [q EXCEPT !.pc = "unprotect", !.to = o]
  BY DEF ThreadStates, Points
<1>3. r.pc = "unprotect" /\ r.k = q.k /\ r.j = q.j /\ r.leaked = q.leaked /\ r.sig = q.sig
  BY <1>2 DEF ThreadStates
<1>4. thread' = [thread EXCEPT ![t] = r]
  BY <1>1, <1>2, Zenon
<1>5. Moved(t, r.pc, r.k, r.j, r.leaked) /\ thread'[t] = r
  BY <1>4, Replaced, Zenon
<1>. QED  BY <1>1, <1>3, <1>5, Zenon DEF Keeps

LEMMA LeakFacts ==
    ASSUME thread \in [Threads -> ThreadStates], NEW t \in Threads,
           thread' = [thread EXCEPT ![t].leaked = TRUE]
    PROVE  Moved(t, thread[t].pc, thread[t].k, thread[t].j, TRUE)
<1>1. PICK q \in ThreadStates : q = thread[t]
  OBVIOUS
<1>2. PICK r \in ThreadStates : r = [q EXCEPT !.leaked = TRUE]
  BY DEF ThreadStates
<1>3. r.pc = q.pc /\ r.k = q.k /\ r.j = q.j /\ r.leaked = TRUE
  BY <1>2 DEF ThreadStates
<1>4. thread' = [thread EXCEPT ![t] = r]
  BY <1>1, <1>2, Zenon
<1>5. Moved(t, r.pc, r.k, r.j, r.leaked) /\ thread'[t] = r
  BY <1>4, Replaced, Zenon
<1>. QED  BY <1>1, <1>3, <1>5, Zenon

-----------------------------------------------------------------------------
(* What a step leaves alone *)

LEMMA TypesKeep ==
    ASSUME TypeOK, thread' \in [Threads -> ThreadStates],
           UNCHANGED <<tablevars, tids, jbufs, sections, begun>>
    PROVE  TypeOK'
BY DEF TypeOK, tablevars

\* The part of bytesig_init: the other parts of a thread do not touch it.
LEMMA InitKeeps ==
    ASSUME InitInv, NEW t \in Threads, \A u \in Threads \ {t} : thread'[u] = thread[u],
           thread[t].pc \notin Registering, thread'[t].pc \notin Registering,
           thread'[t].pc \in {"init", "handler"} => thread'[t].sig \in Sigs,
           UNCHANGED tablevars
    PROVE  InitInv'
<1>. UNCHANGED <<action, table, init_lock>>
  BY DEF tablevars
<1>1. \A u \in Threads :
        /\ thread[u].pc \in Registering <=> thread'[u].pc \in Registering
        /\ thread[u].pc \in Registering => thread'[u] = thread[u]
        /\ thread'[u].pc \in {"init", "handler"} => thread'[u] = thread[u] \/ thread'[u].sig \in Sigs
  OBVIOUS
<1>. QED  BY <1>1 DEF InitInv, Registering, PreviousIsTheirs

\* What a step of t leaves to the other threads.
Frame(t) ==
    /\ \A u \in Threads \ {t} : thread'[u] = thread[u] /\ sections'[u] = sections[u]
    /\ \A s \in Sigs : table[s] # Null => table'[s] # Null
    /\ \A s \in Sigs : \A i \in Slots : \A u \in Threads \ {t} : tids'[s][i] = u <=> tids[s][i] = u
    /\ \A s \in Sigs : \A i \in Slots : jbufs'[s][i] = jbufs[s][i] \/ tids[s][i] = t

LEMMA OthersKeep ==
    ASSUME IInv, NEW t \in Threads, Frame(t), NEW u \in Threads \ {t}
    PROVE  ThreadInv(u)'
<1>1. /\ thread'[u] = thread[u] /\ sections'[u] = sections[u]
      /\ Sig(u)' = Sig(u) /\ InSection(u)' = InSection(u) /\ Top(u)' = Top(u)
  BY DEF Frame, Sig, InSection, Top
<1>2. ASSUME NEW s \in Sigs PROVE Own(u, s)' = Own(u, s)
  BY DEF Own, Frame
<1>3. ASSUME NEW s \in Sigs, NEW i \in Own(u, s) PROVE jbufs'[s][i] = jbufs[s][i]
  BY DEF Own, Frame
<1>4. thread[u].pc \in {"claim", "save", "release"} => Sig(u) \in Sigs /\ thread[u].j \in Slots
  <2>1. thread[u] \in ThreadStates
    BY DEF IInv, TypeOK
  <2>. QED  BY <2>1, SigFacts, StateFacts DEF IInv, ThreadInv, Locals, Sig
<1>5. Locals(u) /\ Released(u) /\ SlotsLead(u) /\ Covers(u) /\ ReadyHaveTables(u)
      /\ (thread[u].pc = "wild" => thread[u].leaked)
  BY DEF IInv, ThreadInv
<1>6. Locals(u)'
  <2>1. thread[u].pc \in {"save", "release"} =>
            (tids'[Sig(u)][thread[u].j] = u <=> tids[Sig(u)][thread[u].j] = u)
    BY <1>4 DEF Frame
  <2>2. thread[u].pc = "claim" => /\ Own(u, Sig(u))' = Own(u, Sig(u))
                                  /\ table[Sig(u)] # Null => table'[Sig(u)] # Null
    <3>1. ASSUME thread[u].pc = "claim" PROVE Sig(u) \in Sigs
      BY <1>4, <3>1
    <3>2. Own(u, Sig(u))' = {i \in Slots : tids'[Sig(u)][i] = u}
      BY <1>1 DEF Own
    <3>. QED  BY <3>1, <3>2 DEF Own, Frame
  <2>. QED  BY <1>1, <1>5, <2>1, <2>2 DEF Locals
<1>7. Released(u)'
  <2>1. \A m \in 1..(thread[u].k - 1) : Signums[m] \in Sigs
    <3>1. thread[u].k \in 1..(Len(Signums) + 1)
      BY StateFacts DEF IInv, TypeOK
    <3>. QED  BY <3>1, SigFacts
  <2>. QED  BY <1>1, <1>2, <1>5, <2>1 DEF Released
<1>8. SlotsLead(u)'
  <2>1. \A s \in Sigs : (Saving(u, s) <=> Saving(u, s)') /\ (ToRelease(u, s) <=> ToRelease(u, s)')
    BY <1>1 DEF Saving, ToRelease
  <2>. QED  BY <1>1, <1>2, <1>3, <1>5, <2>1 DEF SlotsLead, Buffer
<1>9. Covers(u)'
  <2>1. \A e \in DOMAIN sections[u], s \in Sigs : Undisturbed(u, e, s)' => Undisturbed(u, e, s)
    BY <1>1 DEF Undisturbed
  <2>2. \A e \in DOMAIN sections[u], s \in Sigs : Caught(u, e, s) => Caught(u, e, s)'
    BY <1>1, <1>2, <1>3 DEF Caught, Saving, Buffer
  <2>. QED  BY <1>1, <1>5, <2>1, <2>2 DEF Covers
<1>10. ReadyHaveTables(u)'
  <2>1. \A e \in DOMAIN sections[u] : sections[u][e].ready \in SUBSET Sigs
    BY SectionFacts DEF IInv, TypeOK
  <2>. QED  BY <1>1, <1>5, <2>1 DEF ReadyHaveTables, Frame
<1>. QED  BY <1>1, <1>5, <1>6, <1>7, <1>8, <1>9, <1>10 DEF ThreadInv

\* A step between the protection of sections keeps the tables as well.
Calm(t, p, j) ==
    /\ Moved(t, p, 1, j, thread[t].leaked)
    /\ thread[t].pc \notin Protecting \cup Releasing /\ p \notin Protecting \cup Releasing
    /\ p = "wild" => thread[t].leaked
    /\ \A s \in Sigs : table[s] # Null => table'[s] # Null
    /\ UNCHANGED <<tids, jbufs, sections, begun>>

LEMMA CalmStep ==
    ASSUME IInv, NEW t \in Threads, NEW p, NEW j, Calm(t, p, j)
    PROVE  TableInv' /\ \A u \in Threads : ThreadInv(u)'
<1>. USE DEF Calm
<1>1. Frame(t)
  BY DEF Frame, Moved
<1>2. /\ thread'[t].pc = p /\ thread'[t].k = 1 /\ thread'[t].leaked = thread[t].leaked
      /\ \A s \in Sigs : Own(t, s)' = Own(t, s)
  BY DEF Moved, Own
<1>3. SlotsLead(t) /\ Covers(t) /\ ReadyHaveTables(t)
  BY DEF IInv, ThreadInv
<1>4. Locals(t)'
  BY <1>2 DEF Locals, Protecting, Releasing
<1>5. Released(t)'
  BY <1>2 DEF Released
<1>6. SlotsLead(t)'
  <2>1. \A s \in Sigs : ~Saving(t, s) /\ ~ToRelease(t, s)
    BY DEF Saving, ToRelease, Protecting
  <2>. QED  BY <1>2, <1>3, <2>1 DEF SlotsLead, Buffer
<1>7. Covers(t)'
  <2>1. \A e \in DOMAIN sections[t], s \in Sigs : Undisturbed(t, e, s)' => Undisturbed(t, e, s)
    BY <1>2 DEF Undisturbed
  <2>2. \A e \in DOMAIN sections[t], s \in Sigs : Caught(t, e, s) => Caught(t, e, s)'
    BY <1>2 DEF Caught, Saving, Buffer, Protecting
  <2>. QED  BY <1>3, <2>1, <2>2 DEF Covers
<1>8. ReadyHaveTables(t)'
  <2>1. \A e \in DOMAIN sections[t] : sections[t][e].ready \in SUBSET Sigs
    BY SectionFacts DEF IInv, TypeOK
  <2>. QED  BY <1>3, <2>1 DEF ReadyHaveTables
<1>9. ThreadInv(t)'
  BY <1>2, <1>4, <1>5, <1>6, <1>7, <1>8 DEF ThreadInv
<1>10. TableInv'
  BY DEF IInv, TableInv, Own
<1>. QED  BY <1>1, <1>9, <1>10, OthersKeep

-----------------------------------------------------------------------------
(* bytesig_init *)

LEMMA InitBeginStep ==
    ASSUME IInv, NEW t \in Threads, InitBegin(t)
    PROVE  IInv'
<1>1. PICK s \in Sigs : thread' = [thread EXCEPT ![t].pc = "init", ![t].sig = s]
  <2>1. \A k \in DOMAIN Signums : Signums[k] \in Sigs
    BY DEF Sigs
  <2>. QED  BY <2>1 DEF InitBegin
<1>2. /\ Moved(t, "init", thread[t].k, thread[t].j, thread[t].leaked) /\ thread'[t].sig = s
  BY <1>1, SigSetFacts DEF IInv, TypeOK, Points
<1>3. thread[t].pc = "run" /\ thread[t].k = 1 /\ UNCHANGED <<tablevars, tids, jbufs, sections, begun>>
  BY DEF InitBegin, At, IInv, ThreadInv, Locals, Protecting, Releasing
<1>4. TypeOK'
  BY <1>2, <1>3, TypesKeep DEF Moved, IInv
<1>5. InitInv'
  BY <1>2, <1>3, InitKeeps DEF Moved, IInv, Registering
<1>6. TableInv' /\ \A u \in Threads : ThreadInv(u)'
  <2>1. Calm(t, "init", thread[t].j)
    BY <1>2, <1>3 DEF Calm, tablevars, Protecting, Releasing
  <2>. QED  BY <2>1, CalmStep
<1>. QED  BY <1>4, <1>5, <1>6 DEF IInv

LEMMA InitLockStep ==
    ASSUME IInv, NEW t \in Threads, InitLock(t)
    PROVE  IInv'
<1>1. /\ thread[t].pc = "init" /\ thread[t].k = 1 /\ init_lock = Nobody
      /\ UNCHANGED <<action, table, tids, jbufs, sections, begun>>
  BY DEF InitLock, At, IInv, ThreadInv, Locals, Protecting, Releasing
<1>2. CASE table[thread[t].sig] # Null
  <2>1. Moved(t, "run", 1, 1, thread[t].leaked) /\ UNCHANGED tablevars
    BY <1>2, RunAgain DEF InitLock, tablevars, IInv, TypeOK
  <2>2. TypeOK'
    BY <1>1, <2>1, TypesKeep DEF Moved, IInv
  <2>3. InitInv'
    BY <1>1, <2>1, InitKeeps DEF Moved, IInv, Registering
  <2>4. TableInv' /\ \A u \in Threads : ThreadInv(u)'
    <3>1. Calm(t, "run", 1)
      BY <1>1, <2>1 DEF Calm, tablevars, Protecting, Releasing
    <3>. QED  BY <3>1, CalmStep
  <2>. QED  BY <2>2, <2>3, <2>4 DEF IInv
<1>3. CASE table[thread[t].sig] = Null
  <2>1. Keeps(t, "register") /\ init_lock' = t
    BY <1>3, GotoFacts DEF InitLock, IInv, TypeOK, Points
  <2>2. TypeOK'
    BY <1>1, <2>1 DEF Keeps, Moved, IInv, TypeOK
  <2>3. /\ thread'[t].pc = "register" /\ thread'[t].sig = thread[t].sig
        /\ \A u \in Threads \ {t} : thread'[u] = thread[u]
    BY <2>1 DEF Keeps, Moved
  <2>4. /\ thread[t].sig \in Sigs
        /\ \A u \in Threads : thread[u].pc \notin Registering
    BY <1>1 DEF IInv, InitInv
  <2>5. action[thread[t].sig] = Theirs
    BY <1>3, <2>4 DEF IInv, InitInv, TypeOK, Registering
  <2>6. InitInv'
    <3>1. \A u \in Threads : thread'[u].pc \in Registering <=> init_lock' = u
      BY <2>1, <2>3, <2>4 DEF Registering
    <3>2. \A u \in Threads :
            /\ thread'[u].pc \in {"init", "register", "publish", "handler"} => thread'[u].sig \in Sigs
            /\ thread'[u].pc = "register" =>
                   action'[thread'[u].sig] = Theirs /\ table'[thread'[u].sig] = Null
            /\ thread'[u].pc = "publish" =>
                   thread'[u].prev = Theirs /\ table'[thread'[u].sig] = Null
      BY <1>1, <1>3, <2>3, <2>4, <2>5 DEF IInv, InitInv, Registering
    <3>3. \A s \in Sigs : action'[s] = Ours => table'[s] # Null
      BY <1>1, <2>4 DEF IInv, InitInv, Registering
    <3>4. PreviousIsTheirs'
      BY <1>1 DEF IInv, InitInv, PreviousIsTheirs
    <3>. QED  BY <3>1, <3>2, <3>3, <3>4 DEF InitInv
  <2>7. TableInv' /\ \A u \in Threads : ThreadInv(u)'
    <3>1. Calm(t, "register", thread[t].j)
      BY <1>1, <2>1 DEF Calm, Keeps, Protecting, Releasing
    <3>. QED  BY <3>1, CalmStep
  <2>. QED  BY <2>2, <2>6, <2>7 DEF IInv
<1>. QED  BY <1>2, <1>3

LEMMA InitFailsStep ==
    ASSUME IInv, NEW t \in Threads, InitFails(t)
    PROVE  IInv'
<1>1. /\ thread[t].pc = "register" /\ thread[t].k = 1 /\ init_lock' = Nobody
      /\ UNCHANGED <<action, table, tids, jbufs, sections, begun>>
  BY DEF InitFails, At, IInv, ThreadInv, Locals, Protecting, Releasing
<1>2. Moved(t, "run", 1, 1, thread[t].leaked)
  BY RunAgain DEF InitFails, IInv, TypeOK
<1>3. TypeOK'
  BY <1>1, <1>2 DEF Moved, IInv, TypeOK
<1>4. /\ thread'[t].pc = "run" /\ \A u \in Threads \ {t} : thread'[u] = thread[u]
      /\ \A u \in Threads : thread'[u].pc \notin Registering
  BY <1>1, <1>2 DEF Moved, IInv, InitInv, Registering
<1>5. \A s \in Sigs : action[s] = Ours => table[s] # Null
  BY <1>1 DEF IInv, InitInv, Registering
<1>6. InitInv'
  <2>1. \A u \in Threads : thread'[u].pc \in {"init", "handler"} => thread'[u].sig \in Sigs
    BY <1>4 DEF IInv, InitInv
  <2>2. \A u \in Threads : init_lock' # u
    BY <1>1
  <2>3. PreviousIsTheirs'
    BY <1>1 DEF IInv, InitInv, PreviousIsTheirs
  <2>. QED  BY <1>1, <1>4, <1>5, <2>1, <2>2, <2>3 DEF InitInv, Registering
<1>7. TableInv' /\ \A u \in Threads : ThreadInv(u)'
  <2>1. Calm(t, "run", 1)
    BY <1>1, <1>2 DEF Calm, Protecting, Releasing
  <2>. QED  BY <2>1, CalmStep
<1>. QED  BY <1>3, <1>6, <1>7 DEF IInv

LEMMA RegisterStep ==
    ASSUME IInv, NEW t \in Threads, Register(t)
    PROVE  IInv'
<1>1. /\ thread[t].pc = "register" /\ thread[t].k = 1 /\ action' = [action EXCEPT ![thread[t].sig] = Ours]
      /\ UNCHANGED <<table, init_lock, tids, jbufs, sections, begun>>
  BY DEF Register, At, IInv, ThreadInv, Locals, Protecting, Releasing
<1>2. /\ thread[t].sig \in Sigs /\ table[thread[t].sig] = Null /\ action[thread[t].sig] = Theirs
      /\ init_lock = t
  BY <1>1 DEF IInv, InitInv, Registering
<1>3. Keeps(t, "publish") /\ thread'[t].prev = Theirs
  <2>1. thread' = [thread EXCEPT ![t].pc = "publish", ![t].prev = Theirs]
    BY <1>2 DEF Register
  <2>. QED  BY <2>1, PrevFacts DEF IInv, TypeOK
<1>4. TypeOK'
  BY <1>1, <1>3 DEF Keeps, Moved, IInv, TypeOK
<1>5. /\ thread'[t].pc = "publish" /\ thread'[t].sig = thread[t].sig
      /\ \A u \in Threads \ {t} : thread'[u] = thread[u] /\ thread[u].pc \notin Registering
  BY <1>2, <1>3 DEF Keeps, Moved, IInv, InitInv
<1>6. InitInv'
  <2>1. \A u \in Threads : thread'[u].pc \in Registering <=> init_lock' = u
    BY <1>1, <1>2, <1>5 DEF Registering
  <2>2. \A u \in Threads :
          /\ thread'[u].pc \in {"init", "register", "publish", "handler"} => thread'[u].sig \in Sigs
          /\ thread'[u].pc # "register"
          /\ thread'[u].pc = "publish" =>
                 thread'[u].prev = Theirs /\ table'[thread'[u].sig] = Null
    BY <1>1, <1>2, <1>3, <1>5 DEF IInv, InitInv, Registering
  <2>3. \A s \in Sigs : action'[s] = Ours => table'[s] # Null \/ s = thread'[t].sig
    BY <1>1, <1>2, <1>5 DEF IInv, InitInv, Registering, TypeOK
  <2>4. PreviousIsTheirs'
    BY <1>1 DEF IInv, InitInv, PreviousIsTheirs
  <2>. QED  BY <1>5, <2>1, <2>2, <2>3, <2>4 DEF InitInv
<1>7. TableInv' /\ \A u \in Threads : ThreadInv(u)'
  <2>1. Calm(t, "publish", thread[t].j)
    BY <1>1, <1>3 DEF Calm, Keeps, Protecting, Releasing
  <2>. QED  BY <2>1, CalmStep
<1>. QED  BY <1>4, <1>6, <1>7 DEF IInv

LEMMA PublishStep ==
    ASSUME IInv, NEW t \in Threads, Publish(t)
    PROVE  IInv'
<1>1. /\ thread[t].pc = "publish" /\ thread[t].k = 1 /\ init_lock' = Nobody
      /\ table' = [table EXCEPT ![thread[t].sig] = thread[t].prev]
      /\ UNCHANGED <<action, tids, jbufs, sections, begun>>
  BY DEF Publish, At, IInv, ThreadInv, Locals, Protecting, Releasing
<1>2. /\ thread[t].sig \in Sigs /\ thread[t].prev = Theirs /\ init_lock = t
  BY <1>1 DEF IInv, InitInv, Registering
<1>3. Moved(t, "run", 1, 1, thread[t].leaked)
  BY RunAgain DEF Publish, IInv, TypeOK
<1>4. /\ table' \in [Sigs -> {Null, Theirs, Ours}]
      /\ \A s \in Sigs : table'[s] = IF s = thread[t].sig THEN Theirs ELSE table[s]
  BY <1>1, <1>2 DEF IInv, TypeOK
<1>5. TypeOK'
  BY <1>1, <1>3, <1>4 DEF Moved, IInv, TypeOK
<1>6. /\ thread'[t].pc = "run" /\ \A u \in Threads \ {t} : thread'[u] = thread[u]
      /\ \A u \in Threads : thread'[u].pc \notin Registering
  BY <1>1, <1>2, <1>3 DEF Moved, IInv, InitInv, Registering
<1>7. InitInv'
  <2>1. \A u \in Threads : thread'[u].pc \in {"init", "handler"} => thread'[u].sig \in Sigs
    BY <1>6 DEF IInv, InitInv
  <2>2. \A u \in Threads : init_lock' # u
    BY <1>1
  <2>3. PreviousIsTheirs'
    BY <1>4 DEF IInv, InitInv, PreviousIsTheirs
  <2>4. \A s \in Sigs : action'[s] = Ours => table'[s] # Null
    <3>1. \A u \in Threads : thread[u].pc = "publish" => u = t
      BY <1>2 DEF IInv, InitInv, Registering
    <3>. QED  BY <1>1, <1>2, <1>4, <3>1 DEF IInv, InitInv
  <2>. QED  BY <1>1, <1>6, <2>1, <2>2, <2>3, <2>4 DEF InitInv, Registering
<1>8. TableInv' /\ \A u \in Threads : ThreadInv(u)'
  <2>1. \A s \in Sigs : table[s] # Null => table'[s] # Null
    BY <1>4
  <2>2. Calm(t, "run", 1)
    BY <1>1, <1>3, <2>1 DEF Calm, Protecting, Releasing
  <2>. QED  BY <2>2, CalmStep
<1>. QED  BY <1>5, <1>7, <1>8 DEF IInv

-----------------------------------------------------------------------------
(* bytesig_handler *)

LEMMA FaultStep ==
    ASSUME IInv, NEW t \in Threads, NEW s \in Sigs, Fault(t, s)
    PROVE  IInv'
<1>1. thread[t].pc = "run" /\ thread[t].k = 1 /\ UNCHANGED <<tablevars, tids, jbufs, sections, begun>>
  BY DEF Fault, At, IInv, ThreadInv, Locals, Protecting, Releasing
<1>2. Moved(t, "handler", thread[t].k, thread[t].j, thread[t].leaked) /\ thread'[t].sig = s
  BY SigSetFacts DEF Fault, IInv, TypeOK, Points
<1>3. TypeOK'
  BY <1>1, <1>2, TypesKeep DEF Moved, IInv
<1>4. InitInv'
  BY <1>1, <1>2, InitKeeps DEF Moved, IInv, Registering
<1>5. TableInv' /\ \A u \in Threads : ThreadInv(u)'
  <2>1. Calm(t, "handler", thread[t].j)
    BY <1>1, <1>2 DEF Calm, tablevars, Protecting, Releasing
  <2>. QED  BY <2>1, CalmStep
<1>. QED  BY <1>3, <1>4, <1>5 DEF IInv

LEMMA HandlerEnds ==
    ASSUME IInv, NEW t \in Threads, NEW p \in {"no table", "killed", "wild"}, Goto(t, p),
           thread[t].pc = "handler", p = "wild" => thread[t].leaked,
           UNCHANGED <<tablevars, tids, jbufs, sections, begun>>
    PROVE  IInv'
<1>1. Keeps(t, p) /\ thread[t].k = 1
  <2>1. p \in Points
    BY DEF Points
  <2>2. Keeps(t, p)
    BY <2>1, GotoFacts DEF IInv, TypeOK
  <2>3. thread[t].k = 1
    BY DEF IInv, ThreadInv, Locals, Protecting, Releasing
  <2>. QED  BY <2>2, <2>3
<1>2. TypeOK'
  BY <1>1, TypesKeep DEF Keeps, Moved, IInv
<1>3. InitInv'
  BY <1>1, InitKeeps DEF Keeps, Moved, IInv, Registering
<1>4. TableInv' /\ \A u \in Threads : ThreadInv(u)'
  <2>1. Calm(t, p, thread[t].j)
    BY <1>1 DEF Calm, tablevars, Keeps, Protecting, Releasing
  <2>. QED  BY <2>1, CalmStep
<1>. QED  BY <1>2, <1>3, <1>4 DEF IInv

LEMMA HandlerPassStep ==
    ASSUME IInv, NEW t \in Threads, HandlerPass(t)
    PROVE  IInv'
<1>1. thread[t].pc = "handler" /\ UNCHANGED <<tablevars, tids, jbufs, sections, begun>>
  BY DEF HandlerPass, At
<1>2. CASE Run(t)
  <2>1. Moved(t, "run", 1, 1, thread[t].leaked)
    BY <1>2, RunAgain DEF IInv, TypeOK
  <2>2. TypeOK'
    BY <1>1, <2>1, TypesKeep DEF Moved, IInv
  <2>3. InitInv'
    BY <1>1, <2>1, InitKeeps DEF Moved, IInv, Registering
  <2>4. TableInv' /\ \A u \in Threads : ThreadInv(u)'
    <3>1. Calm(t, "run", 1)
      BY <1>1, <2>1 DEF Calm, tablevars, Protecting, Releasing
    <3>. QED  BY <3>1, CalmStep
  <2>. QED  BY <2>2, <2>3, <2>4 DEF IInv
<1>3. CASE Goto(t, "killed")
  BY <1>1, <1>3, HandlerEnds
<1>. QED  BY <1>2, <1>3 DEF HandlerPass

\* The handler finds the slot of the thread, which leads to an open section.
LEMMA HandlerWildStep ==
    ASSUME IInv, NEW t \in Threads, HandlerWild(t)
    PROVE  IInv'
<1>1. /\ thread[t].pc = "handler" /\ Goto(t, "wild")
      /\ UNCHANGED <<tablevars, tids, jbufs, sections, begun>>
  BY DEF HandlerWild, Jumps, At
<1>2. thread[t].sig \in Sigs
  BY <1>1 DEF IInv, InitInv
<1>3. PICK s \in Sigs : s = thread[t].sig
  BY <1>2
<1>4. First(Own(t, s)) \in Own(t, s)
  <2>1. Own(t, s) \in SUBSET Slots /\ Own(t, s) # {}
    BY <1>3 DEF HandlerWild, Jumps, Own
  <2>. QED  BY <2>1, FirstIn DEF IInv, TableInv
<1>5. \A d \in DOMAIN sections[t] : jbufs[s][First(Own(t, s))] # Buffer(t, d)
  BY <1>3 DEF HandlerWild, Target
<1>6. thread[t].leaked
  <2>1. ~Saving(t, s) /\ ~ToRelease(t, s)
    BY <1>1 DEF Saving, ToRelease, Releasing
  <2>. QED  BY <1>4, <1>5, <2>1 DEF IInv, ThreadInv, SlotsLead
<1>. QED  BY <1>1, <1>6, HandlerEnds

-----------------------------------------------------------------------------
(* bytesig_protect *)

\* A step that has nothing to do with bytesig_init.
Work(t, p, k, j, b) ==
    /\ Moved(t, p, k, j, b)
    /\ thread[t].pc \notin Registering /\ p \notin Registering \cup {"init", "handler"}
    /\ UNCHANGED tablevars
    /\ \A u \in Threads \ {t} : sections'[u] = sections[u]
    /\ \A s \in Sigs : \A i \in Slots : \A u \in Threads \ {t} : tids'[s][i] = u <=> tids[s][i] = u
    /\ \A s \in Sigs : \A i \in Slots : jbufs'[s][i] = jbufs[s][i] \/ tids[s][i] = t
    /\ tids' \in [Sigs -> [Slots -> Threads \cup {Nobody}]]
    /\ jbufs' \in [Sigs -> [Slots -> (Threads \X (1..MaxSections)) \cup {NoBuffer}]]
    /\ sections' \in [Threads -> Seq(Sections)]
    /\ begun' \in [Threads -> 0..MaxSections]

LEMMA WorkStep ==
    ASSUME IInv, NEW t \in Threads, NEW p, NEW k, NEW j, NEW b, Work(t, p, k, j, b),
           TableInv', ThreadInv(t)'
    PROVE  IInv'
<1>1. Frame(t)
  BY DEF Work, Moved, Frame, tablevars
<1>2. TypeOK'
  BY DEF Work, Moved, IInv, TypeOK, tablevars
<1>3. InitInv'
  BY InitKeeps DEF Work, Moved, IInv
<1>4. \A u \in Threads : ThreadInv(u)'
  BY <1>1, OthersKeep
<1>. QED  BY <1>2, <1>3, <1>4 DEF IInv

\* A step that only moves the thread.
Local(t, p, k, j) ==
    /\ Moved(t, p, k, j, thread[t].leaked)
    /\ thread[t].pc \notin Registering /\ p \notin Registering \cup {"init", "handler"}
    /\ UNCHANGED <<tablevars, tids, jbufs, sections, begun>>

LEMMA LocalFacts ==
    ASSUME IInv, NEW t \in Threads, NEW p, NEW k, NEW j, Local(t, p, k, j)
    PROVE  /\ Work(t, p, k, j, thread[t].leaked) /\ TableInv'
           /\ \A s \in Sigs : Own(t, s)' = Own(t, s)
           /\ ReadyHaveTables(t)'
           /\ thread'[t].pc = p /\ thread'[t].k = k /\ thread'[t].j = j
           /\ thread'[t].leaked = thread[t].leaked
<1>1. Work(t, p, k, j, thread[t].leaked)
  BY DEF Local, Work, IInv, TypeOK
<1>2. TableInv' /\ \A s \in Sigs : Own(t, s)' = Own(t, s)
  BY DEF Local, IInv, TableInv, Own, tablevars
<1>3. ReadyHaveTables(t)'
  BY DEF Local, IInv, ThreadInv, ReadyHaveTables, tablevars
<1>4. /\ thread'[t].pc = p /\ thread'[t].k = k /\ thread'[t].j = j
      /\ thread'[t].leaked = thread[t].leaked
  BY DEF Local, Moved
<1>. QED  BY <1>1, <1>2, <1>3, <1>4

\* What IInv says of the thread that steps.
LEMMA Mine ==
    ASSUME IInv, NEW t \in Threads
    PROVE  /\ Locals(t) /\ Released(t) /\ SlotsLead(t) /\ Covers(t) /\ ReadyHaveTables(t)
           /\ thread[t] \in ThreadStates /\ sections[t] \in Seq(Sections)
           /\ thread[t].k \in 1..(Len(Signums) + 1) /\ thread[t].j \in Slots
           /\ thread[t].leaked \in BOOLEAN
           /\ thread[t].k <= Len(Signums) => Sig(t) \in Sigs
           /\ InSection(t) => /\ Len(sections[t]) \in DOMAIN sections[t]
                              /\ Top(t) = sections[t][Len(sections[t])]
<1>1. Locals(t) /\ Released(t) /\ SlotsLead(t) /\ Covers(t) /\ ReadyHaveTables(t)
  BY DEF IInv, ThreadInv
<1>2. thread[t] \in ThreadStates /\ sections[t] \in Seq(Sections)
  BY DEF IInv, TypeOK
<1>3. /\ thread[t].k \in 1..(Len(Signums) + 1) /\ thread[t].j \in Slots
      /\ thread[t].leaked \in BOOLEAN
  BY <1>2, StateFacts
<1>4. thread[t].k <= Len(Signums) => Sig(t) \in Sigs
  BY <1>3, SigFacts DEF Sig
<1>5. ASSUME InSection(t)
      PROVE  Len(sections[t]) \in DOMAIN sections[t] /\ Top(t) = sections[t][Len(sections[t])]
  BY <1>2, <1>5, FrontFacts DEF InSection, Top
<1>. QED  BY <1>1, <1>2, <1>3, <1>4, <1>5

\* A signal that is passed over has no table, and then the section promises
\* nothing, or the thread has a slot, which leads to a section around this one.
LEMMA RepeatedStep ==
    ASSUME IInv, NEW t \in Threads, Repeated(t)
    PROVE  IInv'
<1>1. /\ thread[t].pc = "protect" /\ thread[t].k <= Len(Signums) /\ Sig(t) \in Sigs
      /\ table[Sig(t)] = Null \/ Own(t, Sig(t)) # {}
  BY Mine DEF Repeated, Working, At
<1>2. Local(t, "protect", thread[t].k + 1, thread[t].j)
  <2>1. /\ thread \in [Threads -> ThreadStates]
        /\ thread' = [thread EXCEPT ![t].k = @ + 1]
    BY DEF Repeated, IInv, TypeOK
  <2>2. Moved(t, thread[t].pc, thread[t].k + 1, thread[t].j, thread[t].leaked)
    BY <1>1, <2>1, AdvanceFacts, Zenon
  <2>3. Moved(t, "protect", thread[t].k + 1, thread[t].j, thread[t].leaked)
    BY <1>1, <2>2
  <2>. QED  BY <1>1, <2>3 DEF Local, Repeated, Registering
<1>3. /\ thread'[t].pc = "protect" /\ thread'[t].k = thread[t].k + 1
      /\ thread'[t].leaked = thread[t].leaked
      /\ UNCHANGED <<tids, jbufs, sections>> /\ \A s \in Sigs : Own(t, s)' = Own(t, s)
      /\ TableInv' /\ ReadyHaveTables(t)'
  <2>1. UNCHANGED <<tids, jbufs, sections>>
    BY <1>2 DEF Local
  <2>. QED  BY <1>2, <2>1, LocalFacts
<1>4. Locals(t)'
  BY <1>1, <1>3, Mine DEF Locals, Protecting, Releasing, InSection, Top
<1>5. Released(t)'
  BY <1>3 DEF Released, Releasing
<1>6. ASSUME NEW s \in Sigs
      PROVE  ~Saving(t, s) /\ ~Saving(t, s)' /\ ~ToRelease(t, s)
  BY <1>1, <1>3 DEF Saving, ToRelease, Releasing
<1>7. SlotsLead(t)'
  BY <1>3, <1>6, Mine DEF SlotsLead, Buffer
<1>8. Covers(t)'
  <2>. SUFFICES ASSUME NEW e \in DOMAIN sections[t], NEW s \in Sigs, Undisturbed(t, e, s)'
                PROVE  Caught(t, e, s)'
    BY <1>3 DEF Covers
  <2>1. CASE Undisturbed(t, e, s)
    <3>1. Caught(t, e, s)
      BY <2>1, Mine DEF Covers
    <3>. QED  BY <1>3, <1>6, <3>1 DEF Caught, Buffer
  <2>2. CASE ~Undisturbed(t, e, s)
    <3>1. e = Len(sections[t]) /\ Signums[thread[t].k] = s /\ s \in sections[t][e].ready
          /\ sections[t][e].clean
      BY <1>1, <1>3, <2>2, Mine DEF Undisturbed, Protecting, Releasing
    <3>2. s = Sig(t) /\ table[s] # Null
      BY <3>1, Mine DEF Sig, ReadyHaveTables
    <3>3. PICK i \in Own(t, s) : TRUE
      BY <1>1, <3>2
    <3>4. ~thread[t].leaked
      BY <1>1, <3>1, Mine DEF Locals, Protecting
    <3>5. PICK d \in DOMAIN sections[t] : jbufs[s][i] = Buffer(t, d)
      BY <1>6, <3>3, <3>4, Mine DEF SlotsLead
    <3>6. d \in 1..e
      BY <3>1, <3>5, Mine, SectionFacts
    <3>. QED  BY <1>3, <1>6, <3>3, <3>5, <3>6 DEF Caught, Buffer
  <2>. QED  BY <2>1, <2>2
<1>9. ThreadInv(t)'
  BY <1>3, <1>4, <1>5, <1>7, <1>8 DEF ThreadInv
<1>. QED  BY <1>2, <1>3, <1>9, LocalFacts, WorkStep

\* The search for a slot: what was saved before stays.
Searches(t, p, j) ==
    /\ p \in {"protect", "claim"} /\ thread[t].pc \in {"protect", "claim"}
    /\ thread[t].k <= Len(Signums) /\ Own(t, Sig(t)) = {} /\ table[Sig(t)] # Null
    /\ Local(t, p, thread[t].k, j)

LEMMA SearchStep ==
    ASSUME IInv, NEW t \in Threads, NEW p, NEW j, Searches(t, p, j)
    PROVE  IInv'
<1>. USE DEF Searches
<1>1. Sig(t) \in Sigs
  BY Mine
<1>2. /\ thread'[t].pc = p /\ thread'[t].k = thread[t].k
      /\ thread'[t].leaked = thread[t].leaked
      /\ UNCHANGED <<table, tids, jbufs, sections>> /\ \A s \in Sigs : Own(t, s)' = Own(t, s)
      /\ TableInv' /\ ReadyHaveTables(t)'
  <2>1. UNCHANGED <<table, tids, jbufs, sections>>
    BY DEF Local, tablevars
  <2>. QED  BY <2>1, LocalFacts
<1>3. Locals(t)'
  <2>1. Sig(t)' = Sig(t) /\ Own(t, Sig(t))' = {}
    BY <1>1, <1>2 DEF Sig, Own
  <2>. QED  BY <1>2, <2>1, Mine DEF Locals, Protecting, Releasing, InSection, Top
<1>4. Released(t)'
  BY <1>2 DEF Released, Releasing
<1>5. ASSUME NEW s \in Sigs
      PROVE  ~Saving(t, s) /\ ~Saving(t, s)' /\ ~ToRelease(t, s)
  BY <1>2 DEF Saving, ToRelease, Releasing
<1>6. SlotsLead(t)'
  BY <1>2, <1>5, Mine DEF SlotsLead, Buffer
<1>7. Covers(t)'
  <2>1. \A e \in DOMAIN sections[t], s \in Sigs : Undisturbed(t, e, s)' => Undisturbed(t, e, s)
    BY <1>2 DEF Undisturbed, Protecting, Releasing
  <2>2. \A e \in DOMAIN sections[t], s \in Sigs : Caught(t, e, s) => Caught(t, e, s)'
    BY <1>2, <1>5 DEF Caught, Buffer
  <2>. QED  BY <1>2, <2>1, <2>2, Mine DEF Covers
<1>8. ThreadInv(t)'
  BY <1>2, <1>3, <1>4, <1>6, <1>7 DEF ThreadInv
<1>. QED  BY <1>2, <1>8, LocalFacts, WorkStep

LEMMA NextSlotFacts == \A t \in Threads : thread[t].j \in Slots => NextSlot(t) \in Slots
BY DEF NextSlot, Slots

LEMMA TestSlotStep ==
    ASSUME IInv, NEW t \in Threads, TestSlot(t)
    PROVE  IInv'
<1>1. /\ thread[t].pc = "protect" /\ thread[t].k <= Len(Signums)
      /\ table[Sig(t)] # Null /\ Own(t, Sig(t)) = {}
      /\ UNCHANGED <<tablevars, tids, jbufs, sections, begun>>
  BY DEF TestSlot, Working, At
<1>2. CASE tids[Sig(t)][thread[t].j] = Nobody
  <2>1. Goto(t, "claim")
    BY <1>2 DEF TestSlot, Goto
  <2>2. Keeps(t, "claim")
    BY <2>1, GotoFacts DEF IInv, TypeOK, Points
  <2>3. Local(t, "claim", thread[t].k, thread[t].j)
    BY <1>1, <2>2 DEF Local, Keeps, Registering
  <2>4. Searches(t, "claim", thread[t].j)
    BY <1>1, <2>3 DEF Searches
  <2>. QED  BY <2>4, SearchStep
<1>3. CASE tids[Sig(t)][thread[t].j] # Nobody
  <2>1. PICK j \in Slots : j = NextSlot(t)
    BY Mine, NextSlotFacts
  <2>2. PICK q \in ThreadStates : q = thread[t]
    BY Mine
  <2>3. PICK r \in ThreadStates : r = [q EXCEPT !.j = j]
    BY DEF ThreadStates
  <2>4. r.pc = q.pc /\ r.k = q.k /\ r.j = j /\ r.leaked = q.leaked
    BY <2>3 DEF ThreadStates
  <2>5. thread' = [thread EXCEPT ![t] = r]
    BY <1>3, <2>1, <2>2, <2>3, Zenon DEF TestSlot
  <2>6. Moved(t, r.pc, r.k, r.j, r.leaked)
    BY <2>5, Replaced DEF IInv, TypeOK
  <2>7. Moved(t, "protect", thread[t].k, j, thread[t].leaked)
    BY <1>1, <2>2, <2>4, <2>6
  <2>8. Local(t, "protect", thread[t].k, j)
    BY <1>1, <2>7 DEF Local, Registering
  <2>9. Searches(t, "protect", j)
    BY <1>1, <2>8 DEF Searches
  <2>. QED  BY <2>9, SearchStep
<1>. QED  BY <1>2, <1>3

LEMMA MissSlotStep ==
    ASSUME IInv, NEW t \in Threads, MissSlot(t)
    PROVE  IInv'
<1>1. /\ thread[t].pc = "claim" /\ thread[t].k <= Len(Signums)
      /\ table[Sig(t)] # Null /\ Own(t, Sig(t)) = {}
      /\ UNCHANGED <<tablevars, tids, jbufs, sections, begun>>
  BY Mine DEF MissSlot, At, Locals
<1>2. PICK j \in Slots : j = NextSlot(t)
  BY Mine, NextSlotFacts
<1>3. Moved(t, "protect", thread[t].k, j, thread[t].leaked)
  <2>1. thread' = [thread EXCEPT ![t].pc = "protect", ![t].j = j]
    BY <1>2 DEF MissSlot
  <2>. QED  BY <2>1, SlotFacts DEF IInv, TypeOK, Points
<1>4. Local(t, "protect", thread[t].k, j)
  BY <1>1, <1>3 DEF Local, Registering
<1>5. Searches(t, "protect", j)
  BY <1>1, <1>4 DEF Searches
<1>. QED  BY <1>5, SearchStep

\* The slot was nobody's, and the thread had none.
LEMMA ClaimSlotStep ==
    ASSUME IInv, NEW t \in Threads, ClaimSlot(t)
    PROVE  IInv'
<1>. DEFINE k == thread[t].k
            j == thread[t].j
<1>1. /\ thread[t].pc = "claim" /\ k <= Len(Signums) /\ Sig(t) \in Sigs /\ j \in Slots
      /\ table[Sig(t)] # Null /\ Own(t, Sig(t)) = {} /\ tids[Sig(t)][j] = Nobody
      /\ tids' = [tids EXCEPT ![Sig(t)][j] = t]
      /\ UNCHANGED <<tablevars, jbufs, sections, begun>>
  BY Mine DEF ClaimSlot, At, Locals
<1>2. Moved(t, "save", k, j, thread[t].leaked)
  BY GotoFacts DEF ClaimSlot, IInv, TypeOK, Points, Keeps
<1>3. /\ tids' \in [Sigs -> [Slots -> Threads \cup {Nobody}]]
      /\ \A s \in Sigs : \A i \in Slots :
             tids'[s][i] = IF s = Sig(t) /\ i = j THEN t ELSE tids[s][i]
  BY <1>1 DEF IInv, TypeOK
<1>4. Work(t, "save", k, j, thread[t].leaked)
  BY <1>1, <1>2, <1>3 DEF Work, IInv, TypeOK, Registering
<1>5. /\ thread'[t].pc = "save" /\ thread'[t].k = k /\ thread'[t].j = j
      /\ thread'[t].leaked = thread[t].leaked /\ Sig(t)' = Sig(t)
      /\ UNCHANGED <<table, jbufs, sections>>
  BY <1>1, <1>2 DEF Moved, Sig, tablevars
<1>6. ASSUME NEW s \in Sigs
      PROVE  /\ s = Sig(t) => Own(t, s)' = {j}
             /\ s # Sig(t) => Own(t, s)' = Own(t, s)
  BY <1>1, <1>3 DEF Own
<1>7. TableInv'
  <2>1. ASSUME NEW s \in Sigs, NEW u \in Threads
        PROVE  \A i, l \in Own(u, s)' : i = l
    <3>1. CASE u = t
      BY <1>6, <3>1 DEF IInv, TableInv
    <3>2. CASE u # t
      BY <1>3, <3>2 DEF IInv, TableInv, Own
    <3>. QED  BY <3>1, <3>2
  <2>2. \A s \in Sigs : \A i \in Slots : tids'[s][i] # Nobody => table'[s] # Null
    BY <1>1, <1>3, <1>5 DEF IInv, TableInv
  <2>. QED  BY <2>1, <2>2 DEF TableInv
<1>8. Locals(t)'
  BY <1>1, <1>3, <1>5, Mine DEF Locals, Protecting, Releasing, InSection, Top
<1>9. Released(t)'
  BY <1>5 DEF Released, Releasing
<1>10. ASSUME NEW s \in Sigs
       PROVE  ~Saving(t, s) /\ (Saving(t, s)' <=> s = Sig(t)) /\ ~ToRelease(t, s)
  BY <1>1, <1>5 DEF Saving, ToRelease, Releasing
<1>11. SlotsLead(t)'
  BY <1>5, <1>6, <1>10, Mine DEF SlotsLead, Buffer
<1>12. Covers(t)'
  <2>1. \A e \in DOMAIN sections[t], s \in Sigs : Undisturbed(t, e, s)' => Undisturbed(t, e, s)
    BY <1>1, <1>5 DEF Undisturbed, Protecting, Releasing
  <2>2. \A e \in DOMAIN sections[t], s \in Sigs : Caught(t, e, s) => Caught(t, e, s)'
    BY <1>1, <1>5, <1>6, <1>10 DEF Caught, Buffer
  <2>. QED  BY <1>5, <2>1, <2>2, Mine DEF Covers
<1>13. ReadyHaveTables(t)'
  BY <1>5, Mine DEF ReadyHaveTables
<1>14. ThreadInv(t)'
  BY <1>5, <1>8, <1>9, <1>11, <1>12, <1>13 DEF ThreadInv
<1>. QED  BY <1>4, <1>7, <1>14, WorkStep

LEMMA SaveBufferStep ==
    ASSUME IInv, NEW t \in Threads, SaveBuffer(t)
    PROVE  IInv'
<1>. DEFINE k == thread[t].k
            j == thread[t].j
            top == Len(sections[t])
<1>1. /\ thread[t].pc = "save" /\ k <= Len(Signums) /\ Sig(t) \in Sigs /\ j \in Slots
      /\ tids[Sig(t)][j] = t /\ InSection(t)
      /\ jbufs' = [jbufs EXCEPT ![Sig(t)][j] = Buffer(t, top)]
      /\ UNCHANGED <<tablevars, tids, sections, begun>>
  BY Mine DEF SaveBuffer, At, Locals, Protecting
<1>2. /\ top \in DOMAIN sections[t] /\ sections[t][top].protected
      /\ sections[t][top].clean => ~thread[t].leaked
  BY <1>1, Mine DEF Locals, Protecting
<1>3. Moved(t, "protect", k + 1, 1, thread[t].leaked)
  BY <1>1, NextFacts DEF SaveBuffer, IInv, TypeOK, Points
<1>4. /\ jbufs' \in [Sigs -> [Slots -> (Threads \X (1..MaxSections)) \cup {NoBuffer}]]
      /\ \A s \in Sigs : \A i \in Slots :
             jbufs'[s][i] = IF s = Sig(t) /\ i = j THEN Buffer(t, top) ELSE jbufs[s][i]
  <2>1. Buffer(t, top) \in Threads \X (1..MaxSections)
    BY <1>2, Mine, SectionFacts DEF Buffer
  <2>. QED  BY <1>1, <2>1 DEF IInv, TypeOK
<1>5. Work(t, "protect", k + 1, 1, thread[t].leaked)
  BY <1>1, <1>3, <1>4 DEF Work, IInv, TypeOK, Registering
<1>6. /\ thread'[t].pc = "protect" /\ thread'[t].k = k + 1
      /\ thread'[t].leaked = thread[t].leaked
      /\ UNCHANGED <<table, tids, sections>>
      /\ \A s \in Sigs : Own(t, s)' = Own(t, s)
  BY <1>1, <1>3 DEF Moved, tablevars, Own
<1>7. TableInv'
  BY <1>6 DEF IInv, TableInv, Own
<1>8. Own(t, Sig(t)) = {j}
  BY <1>1 DEF IInv, TableInv, Own
<1>9. Locals(t)'
  BY <1>1, <1>6, Mine DEF Locals, Protecting, Releasing, InSection, Top
<1>10. Released(t)'
  BY <1>6 DEF Released, Releasing
<1>11. ASSUME NEW s \in Sigs
       PROVE  (Saving(t, s) <=> s = Sig(t)) /\ ~Saving(t, s)' /\ ~ToRelease(t, s)
  BY <1>1, <1>6 DEF Saving, ToRelease, Releasing
<1>12. \A d : Buffer(t, d)' = Buffer(t, d)
  BY <1>6 DEF Buffer
<1>13. SlotsLead(t)'
  <2>. SUFFICES ASSUME NEW s \in Sigs, NEW i \in Own(t, s), ~thread[t].leaked
                PROVE  \E d \in DOMAIN sections[t] :
                           jbufs'[s][i] = Buffer(t, d) /\ sections[t][d].protected
    BY <1>6, <1>12 DEF SlotsLead
  <2>1. i \in Slots
    BY DEF Own
  <2>2. CASE s = Sig(t)
    BY <1>2, <1>4, <1>8, <2>1, <2>2
  <2>3. CASE s # Sig(t)
    BY <1>4, <1>11, <2>1, <2>3, Mine DEF SlotsLead
  <2>. QED  BY <2>2, <2>3
<1>14. Covers(t)'
  <2>. SUFFICES ASSUME NEW e \in DOMAIN sections[t], NEW s \in Sigs, Undisturbed(t, e, s)'
                PROVE  \E i \in Own(t, s), d \in 1..e : jbufs'[s][i] = Buffer(t, d)
    BY <1>6, <1>11, <1>12 DEF Covers, Caught
  <2>1. CASE Undisturbed(t, e, s)
    <3>1. ~Saving(t, s) /\ \E i \in Own(t, s), d \in 1..e : jbufs[s][i] = Buffer(t, d)
      BY <2>1, Mine DEF Covers, Caught
    <3>2. \A i \in Own(t, s) : i \in Slots
      BY DEF Own
    <3>. QED  BY <1>4, <1>11, <3>1, <3>2
  <2>2. CASE ~Undisturbed(t, e, s)
    <3>1. e = top /\ s = Sig(t)
      <4>1. e = top /\ \A m \in 1..(k - 1) : Signums[m] # s
        BY <1>1, <1>6, <2>2 DEF Undisturbed, Protecting, Releasing
      <4>2. PICK m \in 1..k : Signums[m] = s
        <5>1. (k + 1) - 1 = k
          BY Mine
        <5>. QED  BY <1>6, <4>1, <5>1 DEF Undisturbed, Protecting
      <4>3. m = k
        BY <4>1, <4>2, Mine
      <4>. QED  BY <4>1, <4>2, <4>3 DEF Sig
    <3>2. e \in 1..e
      BY Mine, SectionFacts
    <3>. QED  BY <1>1, <1>4, <1>8, <3>1, <3>2
  <2>. QED  BY <2>1, <2>2
<1>15. ReadyHaveTables(t)'
  BY <1>6, Mine DEF ReadyHaveTables
<1>16. ThreadInv(t)'
  BY <1>6, <1>9, <1>10, <1>13, <1>14, <1>15 DEF ThreadInv
<1>. QED  BY <1>5, <1>7, <1>16, WorkStep

LEMMA SetJmpStep ==
    ASSUME IInv, NEW t \in Threads, SetJmp(t)
    PROVE  IInv'
<1>1. thread[t].pc = "protect" /\ thread[t].k > Len(Signums)
  BY DEF SetJmp, At
<1>2. Local(t, "run", 1, 1)
  <2>1. Moved(t, "run", 1, 1, thread[t].leaked)
    BY RunAgain DEF SetJmp, IInv, TypeOK
  <2>. QED  BY <1>1, <2>1 DEF SetJmp, Local, Registering
<1>3. /\ thread'[t].pc = "run" /\ thread'[t].k = 1 /\ thread'[t].leaked = thread[t].leaked
      /\ \A s \in Sigs : Own(t, s)' = Own(t, s)
      /\ TableInv' /\ ReadyHaveTables(t)'
  BY <1>2, LocalFacts
<1>4. UNCHANGED <<tids, jbufs, sections>>
  BY <1>2 DEF Local
<1>5. Locals(t)' /\ Released(t)'
  BY <1>3 DEF Locals, Released, Protecting, Releasing
<1>6. ASSUME NEW s \in Sigs
      PROVE  ~Saving(t, s) /\ ~Saving(t, s)' /\ ~ToRelease(t, s)
  BY <1>1, <1>3 DEF Saving, ToRelease, Releasing
<1>7. SlotsLead(t)'
  BY <1>3, <1>4, <1>6, Mine DEF SlotsLead, Buffer
<1>8. Covers(t)'
  <2>1. ASSUME NEW e \in DOMAIN sections[t], NEW s \in Sigs, Undisturbed(t, e, s)'
        PROVE  Undisturbed(t, e, s)
    <3>1. PICK m \in 1..Len(Signums) : Signums[m] = s
      BY SigFacts
    <3>2. m \in 1..(thread[t].k - 1)
      BY <1>1, Mine, SigFacts
    <3>. QED  BY <1>1, <1>4, <2>1, <3>1, <3>2 DEF Undisturbed, Releasing
  <2>2. \A e \in DOMAIN sections[t], s \in Sigs : Caught(t, e, s) => Caught(t, e, s)'
    BY <1>3, <1>4, <1>6 DEF Caught, Buffer
  <2>. QED  BY <1>4, <2>1, <2>2, Mine DEF Covers
<1>9. ThreadInv(t)'
  BY <1>3, <1>5, <1>7, <1>8 DEF ThreadInv
<1>. QED  BY <1>2, <1>3, <1>9, LocalFacts, WorkStep

-----------------------------------------------------------------------------
(* bytesig_unprotect *)

LEMMA NotMineStep ==
    ASSUME IInv, NEW t \in Threads, NotMine(t)
    PROVE  IInv'
<1>1. /\ thread[t].pc = "unprotect" /\ thread[t].k <= Len(Signums) /\ Sig(t) \in Sigs
      /\ table[Sig(t)] = Null \/ Own(t, Sig(t)) = {}
  BY Mine DEF NotMine, Working, At
<1>2. Own(t, Sig(t)) = {}
  BY <1>1 DEF IInv, TableInv, Own
<1>3. Local(t, "unprotect", thread[t].k + 1, thread[t].j)
  <2>1. /\ thread \in [Threads -> ThreadStates]
        /\ thread' = [thread EXCEPT ![t].k = @ + 1]
    BY DEF NotMine, IInv, TypeOK
  <2>2. Moved(t, thread[t].pc, thread[t].k + 1, thread[t].j, thread[t].leaked)
    BY <1>1, <2>1, AdvanceFacts, Zenon
  <2>3. Moved(t, "unprotect", thread[t].k + 1, thread[t].j, thread[t].leaked)
    BY <1>1, <2>2
  <2>. QED  BY <1>1, <2>3 DEF Local, NotMine, Registering
<1>4. /\ thread'[t].pc = "unprotect" /\ thread'[t].k = thread[t].k + 1
      /\ thread'[t].leaked = thread[t].leaked
      /\ \A s \in Sigs : Own(t, s)' = Own(t, s)
      /\ TableInv' /\ ReadyHaveTables(t)'
  BY <1>3, LocalFacts
<1>5. UNCHANGED <<tids, jbufs, sections>>
  BY <1>3 DEF Local
<1>6. Locals(t)'
  BY <1>1, <1>4, <1>5, Mine DEF Locals, Protecting, Releasing, InSection
<1>7. Released(t)'
  <2>1. ASSUME NEW m \in 1..thread[t].k PROVE Own(t, Signums[m])' = {}
    <3>1. Signums[m] \in Sigs
      BY <1>1, Mine, SigFacts
    <3>2. m = thread[t].k \/ m \in 1..(thread[t].k - 1)
      BY Mine
    <3>3. Own(t, Signums[m]) = {}
      BY <1>1, <1>2, <3>2, Mine DEF Released, Releasing, Sig
    <3>. QED  BY <1>4, <3>1, <3>3
  <2>2. thread'[t].k - 1 = thread[t].k
    BY <1>4, Mine
  <2>. QED  BY <2>1, <2>2 DEF Released
<1>8. SlotsLead(t)'
  <2>1. ASSUME NEW s \in Sigs, Own(t, s) # {}
        PROVE  ~Saving(t, s) /\ (ToRelease(t, s) => ToRelease(t, s)')
    <3>1. s # Signums[thread[t].k]
      BY <1>2, <2>1 DEF Sig
    <3>2. \A m \in thread[t].k..Len(Signums) : m = thread[t].k \/ m \in (thread[t].k + 1)..Len(Signums)
      BY Mine, SigFacts
    <3>. QED  BY <1>1, <1>4, <3>1, <3>2 DEF Saving, ToRelease, Releasing
  <2>2. \A s \in Sigs : \A i \in Own(t, s) : Own(t, s) # {}
    OBVIOUS
  <2>. QED  BY <1>4, <1>5, <2>1, <2>2, Mine DEF SlotsLead, Buffer
<1>9. Covers(t)'
  BY <1>4 DEF Covers, Undisturbed, Releasing
<1>10. ThreadInv(t)'
  BY <1>4, <1>6, <1>7, <1>8, <1>9 DEF ThreadInv
<1>. QED  BY <1>3, <1>4, <1>10, LocalFacts, WorkStep

LEMMA ClearBufferStep ==
    ASSUME IInv, NEW t \in Threads, ClearBuffer(t)
    PROVE  IInv'
<1>. DEFINE k == thread[t].k
<1>1. /\ thread[t].pc = "unprotect" /\ k <= Len(Signums) /\ Sig(t) \in Sigs
      /\ Own(t, Sig(t)) # {} /\ UNCHANGED <<tablevars, tids, sections, begun>>
  BY Mine DEF ClearBuffer, Working, At
<1>2. PICK j \in Own(t, Sig(t)) : j = First(Own(t, Sig(t)))
  <2>1. Own(t, Sig(t)) \in SUBSET Slots
    BY DEF Own
  <2>. QED  BY <1>1, <2>1, FirstIn DEF IInv, TableInv
<1>3. j \in Slots /\ tids[Sig(t)][j] = t
  BY <1>2 DEF Own
<1>4. /\ thread' = [thread EXCEPT ![t].pc = "release", ![t].j = j]
      /\ jbufs' = [jbufs EXCEPT ![Sig(t)][j] = NoBuffer]
  BY <1>2 DEF ClearBuffer
<1>5. Moved(t, "release", k, j, thread[t].leaked)
  BY <1>3, <1>4, SlotFacts DEF IInv, TypeOK, Points
<1>6. /\ jbufs' \in [Sigs -> [Slots -> (Threads \X (1..MaxSections)) \cup {NoBuffer}]]
      /\ \A s \in Sigs : \A i \in Slots :
             jbufs'[s][i] = IF s = Sig(t) /\ i = j THEN NoBuffer ELSE jbufs[s][i]
  BY <1>1, <1>3, <1>4 DEF IInv, TypeOK
<1>7. Work(t, "release", k, j, thread[t].leaked)
  BY <1>1, <1>3, <1>5, <1>6 DEF Work, IInv, TypeOK, Registering
<1>8. /\ thread'[t].pc = "release" /\ thread'[t].k = k /\ thread'[t].j = j
      /\ thread'[t].leaked = thread[t].leaked /\ Sig(t)' = Sig(t)
      /\ UNCHANGED <<table, tids, sections>>
      /\ \A s \in Sigs : Own(t, s)' = Own(t, s)
  BY <1>1, <1>5 DEF Moved, tablevars, Own, Sig
<1>9. TableInv'
  BY <1>8 DEF IInv, TableInv, Own
<1>10. Locals(t)'
  BY <1>1, <1>3, <1>8, Mine DEF Locals, Protecting, Releasing, InSection
<1>11. Released(t)'
  <2>1. \A m \in 1..(k - 1) : Signums[m] \in Sigs
    BY <1>1, Mine, SigFacts
  <2>. QED  BY <1>1, <1>8, <2>1, Mine DEF Released, Releasing
<1>12. SlotsLead(t)'
  <2>1. ASSUME NEW s \in Sigs
        PROVE  ~Saving(t, s) /\ (ToRelease(t, s) <=> ToRelease(t, s)')
    BY <1>1, <1>8 DEF Saving, ToRelease, Releasing
  <2>2. ToRelease(t, Sig(t))
    BY <1>1, Mine, SigFacts DEF ToRelease, Releasing, Sig
  <2>3. ASSUME NEW s \in Sigs, s # Sig(t), NEW i \in Own(t, s)
        PROVE  jbufs'[s][i] = jbufs[s][i]
    BY <1>6, <2>3 DEF Own
  <2>4. \A d : Buffer(t, d)' = Buffer(t, d)
    BY <1>8 DEF Buffer
  <2>5. SlotsLead(t)
    BY Mine
  <2>. QED  BY <1>8, <2>1, <2>2, <2>3, <2>4, <2>5 DEF SlotsLead
<1>13. Covers(t)'
  BY <1>8 DEF Covers, Undisturbed, Releasing
<1>14. ReadyHaveTables(t)'
  BY <1>8, Mine DEF ReadyHaveTables
<1>15. ThreadInv(t)'
  BY <1>8, <1>10, <1>11, <1>12, <1>13, <1>14 DEF ThreadInv
<1>. QED  BY <1>7, <1>9, <1>15, WorkStep

LEMMA ReleaseStep ==
    ASSUME IInv, NEW t \in Threads, Release(t)
    PROVE  IInv'
<1>. DEFINE k == thread[t].k
            j == thread[t].j
<1>1. /\ thread[t].pc = "release" /\ k <= Len(Signums) /\ Sig(t) \in Sigs /\ j \in Slots
      /\ tids[Sig(t)][j] = t /\ tids' = [tids EXCEPT ![Sig(t)][j] = Nobody]
      /\ UNCHANGED <<tablevars, jbufs, sections, begun>>
  BY Mine DEF Release, At, Locals
<1>2. Moved(t, "unprotect", k + 1, 1, thread[t].leaked)
  BY <1>1, NextFacts DEF Release, IInv, TypeOK, Points
<1>3. /\ tids' \in [Sigs -> [Slots -> Threads \cup {Nobody}]]
      /\ \A s \in Sigs : \A i \in Slots :
             tids'[s][i] = IF s = Sig(t) /\ i = j THEN Nobody ELSE tids[s][i]
  BY <1>1 DEF IInv, TypeOK
<1>4. Work(t, "unprotect", k + 1, 1, thread[t].leaked)
  BY <1>1, <1>2, <1>3 DEF Work, IInv, TypeOK, Registering
<1>5. /\ thread'[t].pc = "unprotect" /\ thread'[t].k = k + 1
      /\ thread'[t].leaked = thread[t].leaked
      /\ UNCHANGED <<table, jbufs, sections>>
  BY <1>1, <1>2 DEF Moved, tablevars
<1>6. ASSUME NEW s \in Sigs
      PROVE  /\ s = Sig(t) => Own(t, s)' = {}
             /\ s # Sig(t) => Own(t, s)' = Own(t, s)
  <2>1. \A i \in Own(t, Sig(t)) : i = j
    BY <1>1 DEF IInv, TableInv, Own
  <2>. QED  BY <1>1, <1>3, <2>1 DEF Own
<1>7. TableInv'
  <2>1. ASSUME NEW s \in Sigs, NEW u \in Threads
        PROVE  \A i, l \in Own(u, s)' : i = l
    <3>1. \A i \in Own(u, s)' : i \in Own(u, s)
      BY <1>3 DEF Own
    <3>. QED  BY <3>1 DEF IInv, TableInv
  <2>2. \A s \in Sigs : \A i \in Slots : tids'[s][i] # Nobody => table'[s] # Null
    BY <1>1, <1>3, <1>5 DEF IInv, TableInv
  <2>. QED  BY <2>1, <2>2 DEF TableInv
<1>8. Locals(t)'
  BY <1>1, <1>5, Mine DEF Locals, Protecting, Releasing, InSection
<1>9. Released(t)'
  <2>1. ASSUME NEW m \in 1..k PROVE Own(t, Signums[m])' = {}
    <3>1. Signums[m] \in Sigs
      BY <1>1, Mine, SigFacts
    <3>2. m = k \/ m \in 1..(k - 1)
      BY Mine
    <3>3. CASE Signums[m] = Sig(t)
      BY <1>1, <1>6, <3>3
    <3>4. CASE Signums[m] # Sig(t)
      <4>1. Own(t, Signums[m]) = {}
        BY <1>1, <3>2, <3>4, Mine DEF Released, Releasing, Sig
      <4>. QED  BY <1>6, <3>1, <3>4, <4>1
    <3>. QED  BY <3>3, <3>4
  <2>2. thread'[t].k - 1 = k
    BY <1>5, Mine
  <2>. QED  BY <2>1, <2>2 DEF Released
<1>10. SlotsLead(t)'
  <2>1. ASSUME NEW s \in Sigs, s # Sig(t)
        PROVE  ~Saving(t, s) /\ (ToRelease(t, s) => ToRelease(t, s)')
    <3>1. \A m \in k..Len(Signums) : m = k \/ m \in (k + 1)..Len(Signums)
      BY Mine, SigFacts
    <3>. QED  BY <1>1, <1>5, <2>1, <3>1 DEF Saving, ToRelease, Releasing, Sig
  <2>. QED  BY <1>5, <1>6, <2>1, Mine DEF SlotsLead, Buffer
<1>11. Covers(t)'
  BY <1>5 DEF Covers, Undisturbed, Releasing
<1>12. ReadyHaveTables(t)'
  BY <1>5, Mine DEF ReadyHaveTables
<1>13. ThreadInv(t)'
  BY <1>5, <1>8, <1>9, <1>10, <1>11, <1>12 DEF ThreadInv
<1>. QED  BY <1>4, <1>7, <1>13, WorkStep

\* The slots of the thread are released, and the section is gone or has no
\* protection any more.
LEMMA UnprotectedStep ==
    ASSUME IInv, NEW t \in Threads, Unprotected(t)
    PROVE  IInv'
<1>1. /\ thread[t].pc = "unprotect" /\ thread[t].k > Len(Signums) /\ InSection(t)
      /\ UNCHANGED <<tablevars, tids, jbufs, begun>>
  BY Mine DEF Unprotected, At, Locals, Releasing
<1>2. \A s \in Sigs : Own(t, s) = {}
  <2>1. ASSUME NEW m \in 1..Len(Signums) PROVE Own(t, Signums[m]) = {}
    <3>1. m \in 1..(thread[t].k - 1)
      BY <1>1, Mine, SigFacts
    <3>. QED  BY <1>1, <3>1, Mine DEF Released, Releasing
  <2>. QED  BY <2>1, SigFacts
<1>3. PICK q \in Seq(Sections) : q = sections[t]
  BY Mine
<1>4. Len(q) \in DOMAIN q /\ Len(q) \in Nat \ {0} /\ q # <<>>
  BY <1>1, <1>3, Mine, SectionFacts DEF InSection
<1>5. PICK o \in Seq(Sections) :
        /\ sections' = [sections EXCEPT ![t] = o]
        /\ Len(o) <= Len(q)
        /\ \A d \in DOMAIN o : o[d].ready = q[d].ready
        /\ o # <<>> => o[Len(o)].nested \/ ~o[Len(o)].protected
  <2>1. CASE thread[t].to = "exit"
    <3>1. sections' = [sections EXCEPT ![t] = Popped(q)]
      BY <1>3, <2>1 DEF Unprotected
    <3>2. PICK o \in Seq(Sections) : o = Popped(q)
      BY <1>4, PoppedFacts
    <3>3. /\ Len(o) = Len(q) - 1
          /\ \A d \in 1..(Len(q) - 1) : Like(o[d], q[d]) /\ o[d].nested = (d = Len(q) - 1 \/ q[d].nested)
      BY <1>4, <3>2, PoppedFacts
    <3>4. DOMAIN o = 1..(Len(q) - 1)
      BY <3>3, SectionFacts
    <3>5. o # <<>> => Len(o) \in 1..(Len(q) - 1)
      BY <1>4, <3>3
    <3>6. o # <<>> => o[Len(o)].nested
      BY <3>3, <3>5
    <3>7. Len(o) <= Len(q) /\ \A d \in DOMAIN o : o[d].ready = q[d].ready
      BY <1>4, <3>3, <3>4 DEF Like
    <3>8. sections' = [sections EXCEPT ![t] = o]
      BY <3>1, <3>2
    <3>. QED  BY <3>6, <3>7, <3>8
  <2>2. CASE thread[t].to # "exit"
    <3>1. sections' = [sections EXCEPT ![t] = [q EXCEPT ![Len(q)].protected = FALSE]]
      BY <1>3, <2>2 DEF Unprotected
    <3>2. q[Len(q)] \in Sections
      BY <1>4, SectionFacts
    <3>3. PICK r \in Sections : r = [q[Len(q)] EXCEPT !.protected = FALSE]
      BY <3>2 DEF Sections
    <3>4. r.protected = FALSE /\ r.ready = q[Len(q)].ready
      BY <3>2, <3>3 DEF Sections
    <3>5. PICK o \in Seq(Sections) : o = [q EXCEPT ![Len(q)] = r]
      <4>1. Len(q) \in 1..Len(q)
        BY <1>4
      <4>2. [q EXCEPT ![Len(q)] = r] \in Seq(Sections)
        BY <4>1
      <4>. QED  BY <4>2
    <3>6. /\ Len(o) = Len(q) /\ DOMAIN o = DOMAIN q
          /\ \A d \in DOMAIN q : o[d] = IF d = Len(q) THEN r ELSE q[d]
      BY <1>4, <3>5
    <3>7. sections' = [sections EXCEPT ![t] = o]
      BY <3>1, <3>3, <3>5
    <3>8. o[Len(o)].protected = FALSE
      BY <1>4, <3>4, <3>6
    <3>9. \A d \in DOMAIN o : o[d].ready = q[d].ready
      BY <3>4, <3>6
    <3>10. Len(o) <= Len(q)
      BY <1>4, <3>6
    <3>. QED  BY <3>7, <3>8, <3>9, <3>10
  <2>. QED  BY <2>1, <2>2
<1>6. /\ sections' \in [Threads -> Seq(Sections)] /\ sections'[t] = o
      /\ \A u \in Threads \ {t} : sections'[u] = sections[u]
  BY <1>5 DEF IInv, TypeOK
<1>7. Moved(t, "run", 1, 1, FALSE)
  BY RunFacts DEF Unprotected, IInv, TypeOK
<1>8. Work(t, "run", 1, 1, FALSE)
  BY <1>1, <1>6, <1>7 DEF Work, IInv, TypeOK, Registering
<1>9. thread'[t].pc = "run" /\ thread'[t].k = 1 /\ \A s \in Sigs : Own(t, s)' = {}
  BY <1>1, <1>2, <1>7 DEF Moved, Own
<1>10. TableInv'
  BY <1>1 DEF IInv, TableInv, Own, tablevars
<1>11. Locals(t)' /\ Released(t)'
  BY <1>9 DEF Locals, Released, Protecting, Releasing
<1>12. SlotsLead(t)'
  BY <1>9 DEF SlotsLead
<1>13. Covers(t)'
  <2>1. ASSUME NEW e \in DOMAIN o, NEW s \in Sigs PROVE ~Undisturbed(t, e, s)'
    <3>1. Len(o) \in e..Len(o) /\ o # <<>>
      BY SectionFacts
    <3>. QED  BY <1>5, <1>6, <3>1 DEF Undisturbed
  <2>. QED  BY <1>6, <2>1 DEF Covers
<1>14. ReadyHaveTables(t)'
  <2>1. \A d \in DOMAIN o : d \in DOMAIN q
    BY <1>5, SectionFacts
  <2>. QED  BY <1>1, <1>3, <1>5, <1>6, <2>1, Mine DEF ReadyHaveTables, tablevars
<1>15. ThreadInv(t)'
  BY <1>9, <1>11, <1>12, <1>13, <1>14 DEF ThreadInv
<1>. QED  BY <1>8, <1>10, <1>15, WorkStep

-----------------------------------------------------------------------------
(* Begin, end and leave a section *)

LEMMA BeginStep ==
    ASSUME IInv, NEW t \in Threads, Begin(t)
    PROVE  IInv'
<1>1. /\ thread[t].pc = "run" /\ thread[t].k = 1
      /\ begun[t] + 1 \in 1..MaxSections /\ begun' = [begun EXCEPT ![t] = @ + 1]
      /\ UNCHANGED <<tablevars, tids, jbufs>>
  <2>1. thread[t].pc = "run" /\ thread[t].k = 1
    BY Mine DEF Begin, At, Locals, Protecting, Releasing
  <2>2. begun[t] \in 0..MaxSections /\ begun[t] < MaxSections
    BY DEF Begin, IInv, TypeOK
  <2>3. begun[t] + 1 \in 1..MaxSections
    BY <2>2
  <2>. QED  BY <2>1, <2>3 DEF Begin
<1>2. PICK q \in Seq(Sections) : q = sections[t]
  BY Mine
<1>3. PICK r \in Sections :
        /\ sections' = [sections EXCEPT ![t] = Append(q, r)]
        /\ r.protected /\ ~r.nested /\ (r.clean => ~thread[t].leaked)
        /\ \A s \in r.ready : table[s] # Null
  <2>1. {s \in Sigs : table[s] # Null} \in SUBSET Sigs /\ thread[t].leaked \in BOOLEAN
    BY Mine
  <2>2. PICK r \in Sections : r =
            [n |-> begun[t] + 1, protected |-> TRUE, nested |-> FALSE,
             ready |-> {s \in Sigs : table[s] # Null}, clean |-> ~thread[t].leaked]
    <3>1. (~thread[t].leaked) \in BOOLEAN
      BY Zenon
    <3>. QED  BY <1>1, <2>1, <3>1 DEF Sections
  <2>3. sections' = [sections EXCEPT ![t] = Append(q, r)]
    BY <1>2, <2>2 DEF Begin
  <2>. QED  BY <2>1, <2>2, <2>3
<1>4. PICK o \in Seq(Sections) :
        /\ o = Append(q, r) /\ Len(o) = Len(q) + 1 /\ o # <<>>
        /\ o[Len(o)] = r /\ \A d \in 1..Len(q) : o[d] = q[d]
  <2>1. Append(q, r) \in Seq(Sections) /\ Append(q, r) # <<>>
    OBVIOUS
  <2>2. Len(Append(q, r)) = Len(q) + 1 /\ Append(q, r)[Len(q) + 1] = r
    OBVIOUS
  <2>3. \A d \in 1..Len(q) : Append(q, r)[d] = q[d]
    OBVIOUS
  <2>. QED  BY <2>1, <2>2, <2>3
<1>5. /\ sections' \in [Threads -> Seq(Sections)] /\ sections'[t] = o
      /\ \A u \in Threads \ {t} : sections'[u] = sections[u]
  BY <1>3, <1>4 DEF IInv, TypeOK
<1>6. DOMAIN q = 1..Len(q) /\ DOMAIN o = 1..(Len(q) + 1) /\ Len(q) \in Nat
  BY <1>4, SectionFacts
<1>7. Moved(t, "protect", 1, thread[t].j, thread[t].leaked)
  <2>1. Goto(t, "protect")
    BY DEF Begin, Goto
  <2>. QED  BY <1>1, <2>1, GotoFacts DEF IInv, TypeOK, Points, Keeps
<1>8. begun' \in [Threads -> 0..MaxSections]
  BY <1>1 DEF IInv, TypeOK
<1>9. Work(t, "protect", 1, thread[t].j, thread[t].leaked)
  BY <1>1, <1>5, <1>7, <1>8 DEF Work, IInv, TypeOK, Registering
<1>10. /\ thread'[t].pc = "protect" /\ thread'[t].k = 1
       /\ thread'[t].leaked = thread[t].leaked
       /\ UNCHANGED <<table, tids, jbufs>>
       /\ \A s \in Sigs : Own(t, s)' = Own(t, s)
  BY <1>1, <1>7 DEF Moved, tablevars, Own
<1>11. TableInv'
  BY <1>10 DEF IInv, TableInv, Own
<1>12. InSection(t)' /\ Top(t)' = r
  <2>1. Top(t)' = Last(o) /\ Last(o) = o[Len(o)]
    BY <1>4, <1>5, FrontFacts DEF Top
  <2>. QED  BY <1>4, <1>5, <2>1 DEF InSection
<1>13. Locals(t)'
  BY <1>3, <1>10, <1>12 DEF Locals, Protecting, Releasing
<1>14. Released(t)'
  BY <1>10 DEF Released, Releasing
<1>15. ASSUME NEW s \in Sigs
       PROVE  ~Saving(t, s) /\ ~Saving(t, s)' /\ ~ToRelease(t, s)
  BY <1>1, <1>10 DEF Saving, ToRelease, Releasing
<1>16. \A d \in DOMAIN q : /\ d \in DOMAIN o /\ o[d] = q[d]
                           /\ Buffer(t, d)' = Buffer(t, d)
  BY <1>2, <1>4, <1>5, <1>6 DEF Buffer
<1>17. SlotsLead(t)'
  BY <1>2, <1>5, <1>10, <1>15, <1>16, Mine DEF SlotsLead
<1>18. Covers(t)'
  <2>. SUFFICES ASSUME NEW e \in DOMAIN o, NEW s \in Sigs, Undisturbed(t, e, s)'
                PROVE  Caught(t, e, s)'
    BY <1>5 DEF Covers
  <2>1. e # Len(o)
    BY <1>5, <1>10 DEF Undisturbed, Protecting
  <2>2. e \in DOMAIN q
    BY <1>4, <1>6, <2>1
  <2>3. \A d \in e..Len(q) : d \in e..Len(o) /\ d \in DOMAIN q
    BY <1>4, <1>6, <2>2
  <2>4. Undisturbed(t, e, s)
    BY <1>1, <1>2, <1>5, <1>16, <2>2, <2>3 DEF Undisturbed, Protecting, Releasing
  <2>5. Caught(t, e, s)
    BY <1>2, <2>2, <2>4, Mine DEF Covers
  <2>6. \A d \in 1..e : d \in DOMAIN q
    BY <1>6, <2>2
  <2>. QED  BY <1>10, <1>15, <1>16, <2>5, <2>6 DEF Caught
<1>19. ReadyHaveTables(t)'
  <2>1. \A e \in DOMAIN o : e \in DOMAIN q \/ e = Len(o)
    BY <1>4, <1>6
  <2>. QED  BY <1>2, <1>3, <1>4, <1>5, <1>10, <1>16, <2>1, Mine DEF ReadyHaveTables
<1>20. ThreadInv(t)'
  BY <1>10, <1>13, <1>14, <1>17, <1>18, <1>19 DEF ThreadInv
<1>. QED  BY <1>9, <1>11, <1>20, WorkStep

\* A jump, or the end of the body, goes on to the release of all slots.
Unwinds(t, o) ==
    /\ Keeps(t, "unprotect") /\ thread[t].pc \in {"run", "handler"}
    /\ o # <<>> /\ o \in Seq(Sections) /\ Len(o) <= Len(sections[t])
    /\ \A e \in DOMAIN o : o[e] = sections[t][e]
    /\ sections' = [sections EXCEPT ![t] = o]
    /\ UNCHANGED <<tablevars, tids, jbufs, begun>>

LEMMA UnwindStep ==
    ASSUME IInv, NEW t \in Threads, NEW o, Unwinds(t, o)
    PROVE  IInv'
<1>1. thread[t].k = 1
  BY Mine DEF Unwinds, Locals, Protecting, Releasing
<1>2. /\ sections' \in [Threads -> Seq(Sections)] /\ sections'[t] = o
      /\ \A u \in Threads \ {t} : sections'[u] = sections[u]
  BY DEF Unwinds, IInv, TypeOK
<1>3. Work(t, "unprotect", 1, thread[t].j, thread[t].leaked)
  BY <1>1, <1>2 DEF Unwinds, Keeps, Work, IInv, TypeOK, Registering
<1>4. /\ thread'[t].pc = "unprotect" /\ thread'[t].k = 1
      /\ UNCHANGED <<table, tids, jbufs>>
      /\ \A s \in Sigs : Own(t, s)' = Own(t, s)
  BY <1>1 DEF Unwinds, Keeps, Moved, tablevars, Own
<1>5. TableInv'
  BY <1>4 DEF IInv, TableInv, Own
<1>6. Locals(t)'
  BY <1>2, <1>4 DEF Locals, Protecting, Releasing, InSection, Unwinds
<1>7. Released(t)'
  BY <1>4 DEF Released
<1>8. SlotsLead(t)'
  <2>1. \A s \in Sigs : \E m \in 1..Len(Signums) : Signums[m] = s
    BY SigFacts
  <2>. QED  BY <1>4, <2>1 DEF SlotsLead, ToRelease, Releasing
<1>9. Covers(t)'
  BY <1>4 DEF Covers, Undisturbed, Releasing
<1>10. ReadyHaveTables(t)'
  <2>1. \A e \in DOMAIN o : e \in DOMAIN sections[t] /\ o[e] = sections[t][e]
    BY Mine, SectionFacts DEF Unwinds
  <2>. QED  BY <1>2, <1>4, <2>1, Mine DEF ReadyHaveTables
<1>11. ThreadInv(t)'
  BY <1>4, <1>6, <1>7, <1>8, <1>9, <1>10 DEF ThreadInv
<1>. QED  BY <1>3, <1>5, <1>11, WorkStep

LEMMA HandlerJumpStep ==
    ASSUME IInv, NEW t \in Threads, HandlerJump(t)
    PROVE  IInv'
<1>1. PICK d \in DOMAIN sections[t], to \in {"exit", "catch"} :
        /\ thread[t].pc = "handler"
        /\ sections' = [sections EXCEPT ![t] = SubSeq(@, 1, d)]
        /\ thread' = [thread EXCEPT ![t].pc = "unprotect", ![t].to = to]
        /\ UNCHANGED <<tablevars, tids, jbufs, begun>>
  BY DEF HandlerJump, Jumps, At
<1>2. PICK o \in Seq(Sections) :
        /\ o = SubSeq(sections[t], 1, d) /\ Len(o) = d
        /\ \A e \in 1..d : o[e] = sections[t][e]
  <2>1. PICK q \in Seq(Sections) : q = sections[t]
    BY Mine
  <2>2. /\ SubSeq(q, 1, d) \in Seq(Sections) /\ Len(SubSeq(q, 1, d)) = d
        /\ \A e \in 1..d : SubSeq(q, 1, d)[e] = q[e]
    BY <2>1, SubSeqFacts
  <2>. QED  BY <2>1, <2>2
<1>3. Keeps(t, "unprotect")
  BY <1>1, ToFacts DEF IInv, TypeOK
<1>4. /\ o # <<>> /\ Len(o) <= Len(sections[t])
      /\ \A e \in DOMAIN o : o[e] = sections[t][e]
  <2>1. d \in 1..Len(sections[t]) /\ DOMAIN o = 1..d
    BY <1>2, Mine, SectionFacts
  <2>2. o # <<>>
    BY <1>2, <2>1
  <2>. QED  BY <1>2, <2>1, <2>2
<1>5. Unwinds(t, o)
  BY <1>1, <1>2, <1>3, <1>4 DEF Unwinds
<1>. QED  BY <1>5, UnwindStep

\* The innermost section is gone, and the thread is not in bytesig.cpp.
Leaves(t, o, b) ==
    /\ Moved(t, "run", 1, thread[t].j, b) /\ thread[t].pc = "run" /\ InSection(t)
    /\ o \in Seq(Sections) /\ Len(o) = Len(sections[t]) - 1
    /\ \A d \in 1..(Len(sections[t]) - 1) : Like(o[d], sections[t][d])
    /\ sections' = [sections EXCEPT ![t] = o]
    /\ b \/ (b = thread[t].leaked /\ ~Top(t).protected)
    /\ \/ o # <<>> => o[Len(o)].nested
       \/ /\ Top(t).protected /\ ~Top(t).nested
          /\ \A d \in 1..(Len(sections[t]) - 1) : o[d].nested = sections[t][d].nested
    /\ UNCHANGED <<tablevars, tids, jbufs, begun>>

LEMMA LeaveStep ==
    ASSUME IInv, NEW t \in Threads, NEW o, NEW b, Leaves(t, o, b)
    PROVE  IInv'
<1>. DEFINE q == sections[t]
<1>1. /\ sections' \in [Threads -> Seq(Sections)] /\ sections'[t] = o
      /\ \A u \in Threads \ {t} : sections'[u] = sections[u]
  BY DEF Leaves, IInv, TypeOK
<1>2. Work(t, "run", 1, thread[t].j, b)
  BY <1>1 DEF Leaves, Work, IInv, TypeOK, Registering
<1>3. /\ thread[t].pc = "run" /\ thread'[t].pc = "run" /\ thread'[t].k = 1
      /\ thread'[t].leaked = b
      /\ UNCHANGED <<table, tids, jbufs>>
      /\ \A s \in Sigs : Own(t, s)' = Own(t, s)
  BY DEF Leaves, Moved, tablevars, Own
<1>4. /\ DOMAIN q = 1..Len(q) /\ Len(q) \in Nat \ {0} /\ DOMAIN o = 1..(Len(q) - 1)
      /\ Top(t) = q[Len(q)] /\ Len(o) = Len(q) - 1
  BY Mine, SectionFacts DEF Leaves
<1>5. \A d \in DOMAIN o :
        /\ d \in DOMAIN q /\ d # Len(q) /\ Like(o[d], q[d])
        /\ Buffer(t, d)' = Buffer(t, d)
  BY <1>1, <1>4 DEF Leaves, Like, Buffer
<1>6. TableInv'
  BY <1>3 DEF IInv, TableInv, Own
<1>7. Locals(t)' /\ Released(t)'
  BY <1>3 DEF Locals, Released, Protecting, Releasing
<1>8. ASSUME NEW s \in Sigs
      PROVE  ~Saving(t, s) /\ ~Saving(t, s)' /\ ~ToRelease(t, s)
  BY <1>3 DEF Saving, ToRelease, Releasing
<1>9. SlotsLead(t)'
  <2>. SUFFICES ASSUME NEW s \in Sigs, NEW i \in Own(t, s), ~b
                PROVE  \E d \in DOMAIN o : /\ jbufs[s][i] = Buffer(t, d)'
                                           /\ o[d].protected
    BY <1>1, <1>3 DEF SlotsLead
  <2>1. ~Top(t).protected /\ ~thread[t].leaked
    BY DEF Leaves
  <2>2. PICK d \in DOMAIN q : jbufs[s][i] = Buffer(t, d) /\ q[d].protected
    BY <1>8, <2>1, Mine DEF SlotsLead
  <2>3. d \in DOMAIN o
    BY <1>4, <2>1, <2>2
  <2>. QED  BY <1>5, <2>2, <2>3 DEF Like
<1>10. Covers(t)'
  <2>. SUFFICES ASSUME NEW e \in DOMAIN o, NEW s \in Sigs, Undisturbed(t, e, s)'
                PROVE  Caught(t, e, s)'
    BY <1>1 DEF Covers
  <2>1. Len(o) \in e..Len(o) /\ o # <<>>
    BY <1>4
  <2>2. ~o[Len(o)].nested
    BY <1>1, <2>1 DEF Undisturbed
  <2>3. /\ Top(t).protected /\ ~Top(t).nested
        /\ \A d \in 1..(Len(q) - 1) : o[d].nested = q[d].nested
    BY <2>1, <2>2 DEF Leaves
  <2>4. ASSUME NEW d \in e..Len(q), d # Len(q)
        PROVE  d \in e..Len(o) /\ d \in DOMAIN o
    <3>1. e \in 1..(Len(q) - 1) /\ d \in e..Len(q)
      BY <1>4
    <3>2. d \in 1..(Len(q) - 1) /\ d \in e..(Len(q) - 1)
      BY <1>4, <2>4, <3>1
    <3>. QED  BY <1>4, <3>2
  <2>5. ASSUME NEW d \in e..Len(q)
        PROVE  q[d].protected /\ ~q[d].nested
    <3>1. CASE d = Len(q)
      BY <1>4, <2>3, <3>1
    <3>2. CASE d # Len(q)
      <4>1. d \in e..Len(o) /\ d \in DOMAIN o
        BY <2>4, <3>2
      <4>2. o[d].protected /\ ~o[d].nested
        BY <1>1, <4>1 DEF Undisturbed
      <4>. QED  BY <1>4, <1>5, <2>3, <4>1, <4>2 DEF Like
    <3>. QED  BY <3>1, <3>2
  <2>6. s \in q[e].ready /\ q[e].clean
    BY <1>1, <1>5 DEF Undisturbed, Like
  <2>7. Undisturbed(t, e, s)
    BY <1>3, <2>5, <2>6 DEF Undisturbed, Protecting, Releasing
  <2>8. Caught(t, e, s)
    BY <1>5, <2>7, Mine DEF Covers
  <2>9. PICK i \in Own(t, s), d \in 1..e : jbufs[s][i] = Buffer(t, d)
    BY <2>8 DEF Caught
  <2>10. d \in DOMAIN o
    BY <1>4
  <2>11. jbufs'[s][i] = Buffer(t, d)' /\ i \in Own(t, s)'
    BY <1>3, <1>5, <2>9, <2>10
  <2>. QED  BY <1>8, <2>11 DEF Caught
<1>11. ReadyHaveTables(t)'
  <2>1. \A d \in DOMAIN o : d \in DOMAIN q /\ o[d].ready = q[d].ready
    BY <1>5 DEF Like
  <2>. QED  BY <1>1, <1>3, <2>1, Mine DEF ReadyHaveTables
<1>12. ThreadInv(t)'
  BY <1>3, <1>7, <1>9, <1>10, <1>11 DEF ThreadInv
<1>. QED  BY <1>2, <1>6, <1>12, WorkStep

LEMMA PopLeaves ==
    ASSUME IInv, NEW t \in Threads, NEW b, InSection(t), thread[t].pc = "run",
           Moved(t, "run", 1, thread[t].j, b),
           b \/ (b = thread[t].leaked /\ ~Top(t).protected),
           sections' = [sections EXCEPT ![t] = Popped(sections[t])],
           UNCHANGED <<tablevars, tids, jbufs, begun>>
    PROVE  IInv'
<1>1. PICK q \in Seq(Sections) : q = sections[t] /\ q # <<>>
  BY Mine DEF InSection
<1>2. PICK o \in Seq(Sections) : o = Popped(q)
  BY <1>1, PoppedFacts
<1>3. /\ Len(o) = Len(q) - 1
      /\ \A d \in 1..(Len(q) - 1) :
             Like(o[d], q[d]) /\ o[d].nested = (d = Len(q) - 1 \/ q[d].nested)
  <2>1. q # <<>>
    BY <1>1
  <2>. QED  BY <1>2, <2>1, PoppedFacts
<1>4. o # <<>> => o[Len(o)].nested
  <2>1. ASSUME o # <<>> PROVE Len(o) \in 1..(Len(q) - 1)
    BY <1>3, <2>1
  <2>. QED  BY <1>3, <2>1
<1>5. sections' = [sections EXCEPT ![t] = o]
  BY <1>1, <1>2
<1>6. Leaves(t, o, b)
  BY <1>1, <1>3, <1>4, <1>5 DEF Leaves
<1>. QED  BY <1>6, LeaveStep

LEMMA ExitStep ==
    ASSUME IInv, NEW t \in Threads, Exit(t)
    PROVE  IInv'
<1>1. /\ thread[t].pc = "run" /\ InSection(t) /\ thread[t].k = 1
      /\ UNCHANGED <<tablevars, tids, jbufs, begun>>
  BY Mine DEF Exit, At, Locals, Protecting, Releasing
<1>2. CASE Top(t).protected
  <2>1. Keeps(t, "unprotect") /\ UNCHANGED sections
    BY <1>2, ToFacts DEF Exit, IInv, TypeOK
  <2>2. sections' = [sections EXCEPT ![t] = sections[t]]
    BY <2>1 DEF IInv, TypeOK
  <2>3. /\ sections[t] \in Seq(Sections) /\ sections[t] # <<>>
        /\ Len(sections[t]) <= Len(sections[t])
    BY <1>1, Mine, SectionFacts DEF InSection
  <2>4. Unwinds(t, sections[t])
    BY <1>1, <2>1, <2>2, <2>3 DEF Unwinds
  <2>. QED  BY <2>4, UnwindStep
<1>3. CASE ~Top(t).protected
  <2>1. UNCHANGED thread /\ sections' = [sections EXCEPT ![t] = Popped(sections[t])]
    BY <1>3 DEF Exit
  <2>2. Moved(t, "run", 1, thread[t].j, thread[t].leaked)
    BY <1>1, <2>1 DEF Moved, IInv, TypeOK
  <2>. QED  BY <1>1, <1>3, <2>1, <2>2, PopLeaves
<1>. QED  BY <1>2, <1>3

LEMMA ReturnStep ==
    ASSUME IInv, NEW t \in Threads, Return(t)
    PROVE  IInv'
<1>1. /\ thread[t].pc = "run" /\ InSection(t) /\ thread[t].k = 1 /\ Top(t).protected
      /\ UNCHANGED <<tablevars, tids, jbufs, begun>>
  BY Mine DEF Return, At, Locals, Protecting, Releasing
<1>2. Moved(t, "run", 1, thread[t].j, TRUE)
  <2>1. thread' = [thread EXCEPT ![t].leaked = TRUE]
    BY DEF Return
  <2>2. Moved(t, thread[t].pc, thread[t].k, thread[t].j, TRUE)
    BY <2>1, LeakFacts DEF IInv, TypeOK
  <2>. QED  BY <1>1, <2>2
<1>3. CASE Top(t).nested
  <2>1. sections' = [sections EXCEPT ![t] = Popped(sections[t])]
    BY <1>3 DEF Return
  <2>. QED  BY <1>1, <1>2, <2>1, PopLeaves
<1>4. CASE ~Top(t).nested
  <2>1. PICK q \in Seq(Sections) : q = sections[t] /\ q # <<>>
    BY <1>1, Mine DEF InSection
  <2>2. PICK o \in Seq(Sections) :
          /\ o = Front(q) /\ Len(o) = Len(q) - 1
          /\ \A d \in 1..(Len(q) - 1) : o[d] = q[d]
    BY <2>1, FrontFacts
  <2>3. sections' = [sections EXCEPT ![t] = o]
    BY <1>4, <2>1, <2>2 DEF Return
  <2>4. Leaves(t, o, TRUE)
    BY <1>1, <1>2, <1>4, <2>1, <2>2, <2>3 DEF Leaves, Like
  <2>. QED  BY <2>4, LeaveStep
<1>. QED  BY <1>3, <1>4

-----------------------------------------------------------------------------
(* The theorems *)

LEMMA InitEstablishes == Init => IInv
<1>. SUFFICES ASSUME Init PROVE IInv
  OBVIOUS
<1>1. \A t \in Threads :
        /\ thread[t] \in ThreadStates /\ thread[t].pc = "run" /\ thread[t].k = 1
        /\ sections[t] = <<>>
  <2>1. PICK r \in ThreadStates : r = Running(FALSE)
    <3>1. 1 \in 1..(Len(Signums) + 1)
      BY SigFacts
    <3>. QED  BY <3>1, SigFacts DEF ThreadStates, Running, Points
  <2>2. r.pc = "run" /\ r.k = 1
    BY <2>1 DEF Running
  <2>. QED  BY <2>1, <2>2 DEF Init
<1>2. TypeOK
  <2>1. /\ action \in [Sigs -> {Theirs, Ours}] /\ table \in [Sigs -> {Null, Theirs, Ours}]
        /\ init_lock \in Threads \cup {Nobody}
    BY DEF Init
  <2>2. tids \in [Sigs -> [Slots -> Threads \cup {Nobody}]]
    BY DEF Init
  <2>3. jbufs \in [Sigs -> [Slots -> (Threads \X (1..MaxSections)) \cup {NoBuffer}]]
    BY DEF Init
  <2>4. thread \in [Threads -> ThreadStates]
    BY <1>1 DEF Init
  <2>5. <<>> \in Seq(Sections) /\ 0 \in 0..MaxSections
    OBVIOUS
  <2>6. sections \in [Threads -> Seq(Sections)] /\ begun \in [Threads -> 0..MaxSections]
    BY <2>5 DEF Init
  <2>. QED  BY <2>1, <2>2, <2>3, <2>4, <2>6 DEF TypeOK
<1>3. InitInv
  <2>1. \A s \in Sigs : action[s] = Theirs /\ table[s] = Null
    BY DEF Init
  <2>2. \A t \in Threads : init_lock # t
    BY DEF Init
  <2>. QED  BY <1>1, <2>1, <2>2 DEF InitInv, Registering, PreviousIsTheirs
<1>4. \A s \in Sigs : \A i \in Slots : tids[s][i] = Nobody
  BY DEF Init
<1>5. \A t \in Threads : \A s \in Sigs : Own(t, s) = {}
  BY <1>4 DEF Own
<1>6. TableInv
  BY <1>4, <1>5 DEF TableInv
<1>7. ASSUME NEW t \in Threads PROVE ThreadInv(t)
  <2>1. DOMAIN sections[t] = {}
    BY <1>1
  <2>2. Locals(t) /\ Released(t)
    BY <1>1 DEF Locals, Released, Protecting, Releasing
  <2>3. SlotsLead(t) /\ Covers(t) /\ ReadyHaveTables(t)
    BY <1>5, <2>1 DEF SlotsLead, Covers, ReadyHaveTables
  <2>. QED  BY <1>1, <2>2, <2>3 DEF ThreadInv
<1>. QED  BY <1>2, <1>3, <1>6, <1>7 DEF IInv

LEMMA StutterKeeps == IInv /\ UNCHANGED vars => IInv'
<1>. SUFFICES ASSUME IInv, UNCHANGED vars PROVE IInv'
  OBVIOUS
<1>. UNCHANGED <<action, table, init_lock, tids, jbufs, thread, sections, begun>>
  BY DEF vars
<1>1. \A t \in Threads, s \in Sigs : Own(t, s)' = Own(t, s)
  BY DEF Own
<1>2. TypeOK' /\ InitInv' /\ TableInv'
  BY <1>1 DEF IInv, TypeOK, InitInv, TableInv, PreviousIsTheirs
<1>3. ASSUME NEW t \in Threads PROVE ThreadInv(t)'
  <2>1. Locals(t)' /\ Released(t)'
    BY DEF IInv, ThreadInv, Locals, Released, InSection, Top, Own, Sig
  <2>2. SlotsLead(t)'
    BY <1>1 DEF IInv, ThreadInv, SlotsLead, Saving, ToRelease, Sig, Buffer
  <2>3. Covers(t)'
    <3>1. \A e \in DOMAIN sections[t], s \in Sigs : Undisturbed(t, e, s)' => Undisturbed(t, e, s)
      BY DEF Undisturbed
    <3>2. \A e \in DOMAIN sections[t], s \in Sigs : Caught(t, e, s) => Caught(t, e, s)'
      BY <1>1 DEF Caught, Saving, Sig, Buffer
    <3>3. Covers(t)
      BY DEF IInv, ThreadInv
    <3>. QED  BY <3>1, <3>2, <3>3 DEF Covers
  <2>4. ReadyHaveTables(t)'
    BY DEF IInv, ThreadInv, ReadyHaveTables
  <2>. QED  BY <2>1, <2>2, <2>3, <2>4 DEF IInv, ThreadInv
<1>. QED  BY <1>2, <1>3 DEF IInv

LEMMA NextKeeps == IInv /\ [Next]_vars => IInv'
<1>. SUFFICES ASSUME IInv, [Next]_vars PROVE IInv'
  OBVIOUS
<1>1. CASE UNCHANGED vars
  BY <1>1, StutterKeeps
<1>2. ASSUME NEW t \in Threads,
             InitBegin(t) \/ InitLock(t) \/ InitFails(t) \/ Register(t) \/ Publish(t)
      PROVE  IInv'
  BY <1>2, InitBeginStep, InitLockStep, InitFailsStep, RegisterStep, PublishStep
<1>3. ASSUME NEW t \in Threads,
             \/ Begin(t) \/ Repeated(t) \/ TestSlot(t) \/ ClaimSlot(t) \/ MissSlot(t)
             \/ SaveBuffer(t) \/ SetJmp(t)
      PROVE  IInv'
  BY <1>3, BeginStep, RepeatedStep, TestSlotStep, ClaimSlotStep, MissSlotStep,
     SaveBufferStep, SetJmpStep
<1>4. ASSUME NEW t \in Threads,
             \/ Exit(t) \/ Return(t) \/ NotMine(t) \/ ClearBuffer(t) \/ Release(t)
             \/ Unprotected(t)
      PROVE  IInv'
  BY <1>4, ExitStep, ReturnStep, NotMineStep, ClearBufferStep, ReleaseStep, UnprotectedStep
<1>5. ASSUME NEW t \in Threads,
             \/ HandlerNoTable(t) \/ HandlerJump(t) \/ HandlerWild(t) \/ HandlerPass(t)
             \/ \E s \in Sigs : Fault(t, s)
      PROVE  IInv'
  <2>1. CASE HandlerNoTable(t)
    BY <2>1, HandlerEnds DEF HandlerNoTable, At
  <2>. QED  BY <1>5, <2>1, HandlerJumpStep, HandlerWildStep, HandlerPassStep, FaultStep
<1>. QED  BY <1>1, <1>2, <1>3, <1>4, <1>5 DEF Next, Step

LEMMA Invariance == Spec => []IInv
BY InitEstablishes, NextKeeps, PTL DEF Spec

\* The tables and the threads' variables have their types.
THEOREM TypeCorrect == Spec => []TypeOK
<1>1. IInv => TypeOK
  BY DEF IInv
<1>. QED  BY <1>1, Invariance, PTL

\* bytesig_init registers the handler once per signal: it never finds itself
\* as the disposition it shall go back to.
THEOREM RegistersOnce == Spec => []PreviousIsTheirs
<1>1. IInv => PreviousIsTheirs
  BY DEF IInv, InitInv
<1>. QED  BY <1>1, Invariance, PTL

\* A jump of the handler leads to an open section of the thread, unless the
\* thread has left a section by a return statement.
THEOREM JumpsSoundly == Spec => []JumpsAreSound
<1>1. IInv => JumpsAreSound
  BY DEF IInv, ThreadInv, JumpsAreSound
<1>. QED  BY <1>1, Invariance, PTL

\* The innermost section of a thread, in its body, catches the signals it has
\* promised to catch, whatever the other threads do.
THEOREM CatchesFaults == Spec => []FaultsAreCaught
<1>1. IInv => FaultsAreCaught
  <2>. SUFFICES ASSUME IInv, NEW t \in Threads, NEW s \in Sigs,
                       thread[t].pc \in {"run", "handler"}, InSection(t), Top(t).protected,
                       Top(t).clean, ~Top(t).nested, s \in Top(t).ready
                PROVE  \E i \in Slots, d \in DOMAIN sections[t] :
                           tids[s][i] = t /\ jbufs[s][i] = Buffer(t, d)
    BY DEF FaultsAreCaught
  <2>1. PICK e \in DOMAIN sections[t] : e = Len(sections[t]) /\ Top(t) = sections[t][e]
    BY Mine
  <2>2. \A d \in e..Len(sections[t]) : d = e
    BY <2>1, Mine, SectionFacts
  <2>3. Undisturbed(t, e, s)
    BY <2>1, <2>2 DEF Undisturbed, Protecting, Releasing
  <2>4. Caught(t, e, s)
    BY <2>3, Mine DEF Covers
  <2>5. \A d \in 1..e : d \in DOMAIN sections[t]
    BY <2>1, Mine, SectionFacts
  <2>. QED  BY <2>4, <2>5 DEF Caught, Own
<1>. QED  BY <1>1, Invariance, PTL
=============================================================================
