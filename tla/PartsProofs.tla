----------------------------- MODULE PartsProofs -----------------------------
(***************************************************************************)
(* Proofs about the small parts that MCParts checks side by side: HubStack,*)
(* Tracer, MapsHide, Loader and SoList, for every value of their constants *)
(* that the assumptions of MCParts admit. Each part has an inductive       *)
(* invariant of its own; PartsCorrect, at the end, carries the results to  *)
(* the specification of the run.                                           *)
(*                                                                         *)
(* HubStack: the invariant that makes the two safety properties inductive  *)
(* says who can hold a stack (Busy: a local pointer lives from its         *)
(* allocation to the push of the frame), that a held stack is marked taken *)
(* (Taken), that a stack not yet installed is empty and held by one fiber  *)
(* (Fresh), and how a handler nests in the code it interrupts (Nested).    *)
(***************************************************************************)
EXTENDS MCParts, TLAPS, WellFoundedInduction, SequenceTheorems, FiniteSetTheorems

Sides == {"main", "handler"}

Busy == \A k \in Fibers : buf[k] # None <=> pc[k] \in {"set", "push"}

Taken ==
    /\ \A t \in Threads : tls[t] # None => tls[t] \in used \union mapped
    /\ \A k \in Fibers : buf[k] # None => buf[k] \in used \union mapped

Private ==
    /\ \A t, u \in Threads : tls[t] # None /\ tls[t] = tls[u] => t = u
    /\ \A k \in Fibers, u \in Threads :
        buf[k] # None /\ buf[k] = tls[u] => k[1] = u
    /\ \A k, m \in Fibers : buf[k] # None /\ buf[k] = buf[m] => k[1] = m[1]

Fresh == \A k \in Fibers : pc[k] = "set" =>
    /\ count[buf[k]] = 0
    /\ \A u \in Threads : tls[u] # buf[k]
    /\ \A m \in Fibers : buf[m] = buf[k] => m = k

Nested ==
    /\ \A k \in Fibers : pc[k] = "push" => buf[k] = tls[k[1]]
    /\ \A k \in Fibers : pc[k] = "proxy" => tls[k[1]] # None
    /\ \A k \in Fibers : pc[k] \in {"exchange"} => idx[k] \in Cache
    /\ \A t \in Threads :
        pc[<<t, "handler">>] \in {"scan", "exchange", "mmap", "set"} => tls[t] = None

NoAbort == \A k \in Fibers : pc[k] # "abort"

IInv == TypeOK /\ Busy /\ Taken /\ Private /\ Fresh /\ Nested /\ NoAbort
            /\ FramesAreMine

USE SizeAssumption
USE DEF None

LEMMA FiberFacts ==
    /\ \A k \in Fibers : k[1] \in Threads /\ k[2] \in Sides /\ k = <<k[1], k[2]>>
    /\ \A t \in Threads, c \in Sides : <<t, c>> \in Fibers
    /\ \A k, m \in Fibers : k[1] = m[1] /\ k[2] = m[2] => k = m
BY DEF Fibers, Sides

LEMMA StackFacts ==
    /\ \A b \in Stacks : b # 0 /\ (b \in Cache <=> b \notin Maps)
    /\ Cache \subseteq Stacks /\ Maps \subseteq Stacks
BY DEF Stacks, Cache, Maps

LEMMA InitIInv == Init => IInv
<1> SUFFICES ASSUME Init PROVE IInv
  OBVIOUS
<1>1. TypeOK
  <2>1. 1 \in 1..CacheSize + 1
    OBVIOUS
  <2> QED
    BY <2>1 DEF Init, TypeOK
<1>2. Busy /\ Taken /\ Private /\ Fresh /\ NoAbort /\ FramesAreMine
  BY FiberFacts DEF Init, Busy, Taken, Private, Fresh, NoAbort, FramesAreMine
<1>3. Nested
  BY FiberFacts DEF Init, Nested, Sides
<1> QED
  BY <1>1, <1>2, <1>3 DEF IInv

LEMMA StutterIInv ==
    ASSUME IInv, UNCHANGED vars PROVE IInv'
BY DEF IInv, vars, TypeOK, Busy, Taken, Private, Fresh, Nested, NoAbort,
       FramesAreMine, Running

LEMMA CallIInv ==
    ASSUME IInv, NEW k \in Fibers, Call(k) PROVE IInv'
<1> USE FiberFacts DEF Call, At, Goto, Runs
<1> DEFINE t == k[1]
<1>0. t \in Threads /\ buf[k] = None
  BY DEF IInv, TypeOK, Busy
<1>1. CASE tls[t] = None
  <2>0. pc' = [pc EXCEPT ![k] = "scan"] /\ UNCHANGED <<used, mapped, count, tls, idx, buf>>
    BY <1>1
  <2>1. TypeOK' /\ NoAbort' /\ Busy' /\ Taken' /\ Private' /\ Fresh'
    BY <2>0 DEF IInv, TypeOK, NoAbort, Busy, Taken, Private, Fresh
  <2>2. Nested'
    BY <1>1, <2>0 DEF IInv, TypeOK, Nested, Sides
  <2>3. FramesAreMine'
    BY <2>0 DEF IInv, TypeOK, FramesAreMine, Running, Sides
  <2> QED
    BY <2>1, <2>2, <2>3 DEF IInv
<1>2. CASE tls[t] # None
  <2>0. /\ pc' = [pc EXCEPT ![k] = "push"]
        /\ buf' = [buf EXCEPT ![k] = tls[t]]
        /\ UNCHANGED <<used, mapped, count, tls, idx>>
    BY <1>2
  <2>1. TypeOK' /\ NoAbort'
    BY <1>0, <2>0 DEF IInv, TypeOK, NoAbort
  <2>2. Busy' /\ Taken'
    BY <1>0, <1>2, <2>0 DEF IInv, TypeOK, Busy, Taken
  <2>3. Private'
    BY <1>0, <1>2, <2>0 DEF IInv, TypeOK, Private
  <2>4. Fresh'
    BY <1>0, <2>0 DEF IInv, TypeOK, Fresh
  <2>5. Nested'
    BY <1>0, <1>2, <2>0 DEF IInv, TypeOK, Nested, Sides
  <2>6. FramesAreMine'
    BY <2>0 DEF IInv, TypeOK, FramesAreMine, Running, Sides
  <2> QED
    BY <2>1, <2>2, <2>3, <2>4, <2>5, <2>6 DEF IInv
<1> QED
  BY <1>1, <1>2

(* The search for a free stack stays within the nesting.                   *)
LEMMA NestedStays ==
    ASSUME IInv, NEW k \in Fibers, NEW w \in {"scan", "exchange", "mmap"},
           pc[k] \in {"scan", "exchange"}, pc' = [pc EXCEPT ![k] = w],
           w = "exchange" => idx'[k] \in Cache,
           \A m \in Fibers : m # k => idx'[m] = idx[m],
           UNCHANGED <<tls, buf>>
    PROVE  Nested'
<1>1. pc'[k] = w /\ \A m \in Fibers : m # k => pc'[m] = pc[m]
  BY DEF IInv, TypeOK
<1>2. \A m \in Fibers : pc'[m] = "push" => buf'[m] = tls'[m[1]]
  BY <1>1 DEF IInv, Nested
<1>3. \A m \in Fibers : pc'[m] = "proxy" => tls'[m[1]] # None
  BY <1>1 DEF IInv, Nested
<1>4. \A m \in Fibers : pc'[m] \in {"exchange"} => idx'[m] \in Cache
  BY <1>1 DEF IInv, Nested
<1>5. ASSUME NEW t \in Threads,
             pc'[<<t, "handler">>] \in {"scan", "exchange", "mmap", "set"}
      PROVE  tls[t] = None
  <2>1. <<t, "handler">> \in Fibers
    BY FiberFacts DEF Sides
  <2>2. pc[<<t, "handler">>] \in {"scan", "exchange", "mmap", "set"}
    BY <1>1, <1>5, <2>1
  <2>. QED  BY <2>2 DEF IInv, Nested
<1>. QED  BY <1>2, <1>3, <1>4, <1>5 DEF Nested

LEMMA ScanIInv ==
    ASSUME IInv, NEW k \in Fibers, Scan(k) PROVE IInv'
<1> USE FiberFacts DEF Scan, At, Goto, Runs
<1>0. idx' \in [Fibers -> 1..CacheSize + 1]
  BY DEF IInv, TypeOK, Cache
<1>1. TypeOK' /\ NoAbort'
  BY <1>0 DEF IInv, TypeOK, NoAbort
<1>2. Busy' /\ Taken' /\ Private'
  BY DEF IInv, TypeOK, Busy, Taken, Private
<1>3. Fresh'
  BY DEF IInv, TypeOK, Busy, Fresh
<1>4. Nested'
  <2>1. PICK w \in {"scan", "exchange", "mmap"} :
            /\ pc' = [pc EXCEPT ![k] = w]
            /\ w = "exchange" => idx'[k] \in Cache
    BY DEF IInv, TypeOK
  <2>2. pc[k] = "scan" /\ UNCHANGED <<tls, buf>>
    OBVIOUS
  <2>3. \A m \in Fibers : m # k => idx'[m] = idx[m]
    BY DEF IInv, TypeOK
  <2>. HIDE DEF Scan, At, Goto, Runs
  <2>. QED  BY <2>1, <2>2, <2>3, NestedStays
<1>5. FramesAreMine'
  BY DEF IInv, TypeOK, FramesAreMine, Running, Sides
<1> QED
  BY <1>1, <1>2, <1>3, <1>4, <1>5 DEF IInv

(* A stack that nobody holds becomes the local stack of fiber k, empty.    *)
LEMMA ObtainIInv ==
    ASSUME IInv, NEW k \in Fibers, NEW b \in Stacks, b \notin used \union mapped,
           pc[k] \in {"exchange", "mmap"},
           used' \union mapped' = used \union mapped \union {b},
           used' \subseteq Cache, mapped' \subseteq Maps,
           count' = [count EXCEPT ![b] = 0],
           buf' = [buf EXCEPT ![k] = b],
           pc' = [pc EXCEPT ![k] = "set"],
           idx' \in [Fibers -> 1..CacheSize + 1],
           \A m \in Fibers \ {k} : idx'[m] = idx[m],
           UNCHANGED tls
    PROVE  IInv'
<1> USE FiberFacts, StackFacts
<1>1. TypeOK' /\ NoAbort'
  BY DEF IInv, TypeOK, NoAbort
<1>2. \A u \in Threads : tls[u] # b
  BY DEF IInv, TypeOK, Taken
<1>3. \A m \in Fibers : buf[m] # b
  BY DEF IInv, TypeOK, Taken
<1>4. Busy' /\ Taken'
  BY DEF IInv, TypeOK, Busy, Taken
<1>5. Private'
  BY <1>2, <1>3 DEF IInv, TypeOK, Private
<1>6. Fresh'
  BY <1>2, <1>3 DEF IInv, TypeOK, Busy, Fresh
<1>7. Nested'
  BY DEF IInv, TypeOK, Nested, Sides
<1>8. FramesAreMine'
  BY <1>2 DEF IInv, TypeOK, FramesAreMine, Running, Sides
<1> QED
  BY <1>1, <1>4, <1>5, <1>6, <1>7, <1>8 DEF IInv

LEMMA ExchangeIInv ==
    ASSUME IInv, NEW k \in Fibers, Exchange(k) PROVE IInv'
<1> USE DEF Exchange, At, Goto, Runs
<1>1. CASE idx[k] \in used
  <2> USE FiberFacts
  <2>0. idx' \in [Fibers -> 1..CacheSize + 1]
    BY <1>1 DEF IInv, TypeOK, Cache
  <2>1. TypeOK' /\ NoAbort'
    BY <1>1, <2>0 DEF IInv, TypeOK, NoAbort
  <2>2. Busy' /\ Taken' /\ Private'
    BY <1>1 DEF IInv, TypeOK, Busy, Taken, Private
  <2>3. Fresh'
    BY <1>1 DEF IInv, TypeOK, Busy, Fresh
  <2>4. Nested'
    <3>1. /\ pc[k] = "exchange" /\ pc' = [pc EXCEPT ![k] = "scan"]
          /\ UNCHANGED <<tls, buf>>
      BY <1>1
    <3>2. \A m \in Fibers : m # k => idx'[m] = idx[m]
      BY <1>1 DEF IInv, TypeOK
    <3>. HIDE DEF Exchange, At, Goto, Runs
    <3>. QED  BY <3>1, <3>2, NestedStays
  <2>5. FramesAreMine'
    BY <1>1 DEF IInv, TypeOK, FramesAreMine, Running, Sides
  <2> QED
    BY <2>1, <2>2, <2>3, <2>4, <2>5 DEF IInv
<1>2. CASE idx[k] \notin used
  <2>1. idx[k] \in Cache
    BY DEF IInv, Nested
  <2>2. idx[k] \in Stacks /\ idx[k] \notin used \union mapped
    BY <1>2, <2>1, StackFacts DEF IInv, TypeOK
  <2>3. /\ used' = used \union {idx[k]} /\ mapped' = mapped
        /\ used' \subseteq Cache /\ mapped' \subseteq Maps
    BY <1>2, <2>1 DEF IInv, TypeOK
  <2>4. idx' \in [Fibers -> 1..CacheSize + 1] /\ \A m \in Fibers \ {k} : idx'[m] = idx[m]
    BY <1>2 DEF IInv, TypeOK
  <2> QED
    BY <1>2, <2>2, <2>3, <2>4, ObtainIInv
<1> QED
  BY <1>1, <1>2

LEMMA MapIInv ==
    ASSUME IInv, NEW k \in Fibers, Map(k) PROVE IInv'
<1> USE DEF Map, At, Goto, Runs
<1>1. CASE Goto(k, "idle") /\ UNCHANGED <<mapped, count, buf>>
  <2> USE FiberFacts
  <2>1. TypeOK' /\ NoAbort' /\ Busy' /\ Taken' /\ Private'
    BY <1>1 DEF IInv, TypeOK, NoAbort, Busy, Taken, Private
  <2>2. Fresh' /\ Nested'
    BY <1>1 DEF IInv, TypeOK, Busy, Fresh, Nested, Sides
  <2>3. FramesAreMine'
    BY <1>1 DEF IInv, TypeOK, FramesAreMine, Running, Sides
  <2> QED
    BY <2>1, <2>2, <2>3 DEF IInv
<1>2. ASSUME NEW b \in Maps \ mapped,
             mapped' = mapped \union {b},
             count' = [count EXCEPT ![b] = 0],
             buf' = [buf EXCEPT ![k] = b],
             Goto(k, "set")
      PROVE  IInv'
  <2>1. b \in Stacks /\ b \notin used \union mapped
    BY StackFacts DEF IInv, TypeOK
  <2>2. used' \subseteq Cache /\ mapped' \subseteq Maps
    BY <1>2 DEF IInv, TypeOK
  <2>3. idx' \in [Fibers -> 1..CacheSize + 1] /\ \A m \in Fibers \ {k} : idx'[m] = idx[m]
    BY DEF IInv, TypeOK
  <2> QED
    BY <1>2, <2>1, <2>2, <2>3, ObtainIInv
<1> QED
  BY <1>1, <1>2

LEMMA SetSpecificIInv ==
    ASSUME IInv, NEW k \in Fibers, SetSpecific(k) PROVE IInv'
<1> USE FiberFacts DEF SetSpecific, At, Goto, Runs
<1>1. TypeOK' /\ NoAbort'
  BY DEF IInv, TypeOK, NoAbort
<1>2. Busy' /\ Taken'
  BY DEF IInv, TypeOK, Busy, Taken
<1>3. Private'
  BY DEF IInv, TypeOK, Busy, Private, Fresh
<1>4. Fresh'
  BY DEF IInv, TypeOK, Busy, Fresh
<1>5. Nested'
  <2>1. buf[k] # None /\ k[1] \in Threads
    BY DEF IInv, Busy
  <2>2. \A m \in Fibers : m[1] = k[1] /\ m # k => pc[m] # "push"
    BY DEF IInv, TypeOK, Busy, Nested, Sides
  <2>3. \A m \in Fibers : pc'[m] = "push" => buf'[m] = tls'[m[1]]
    BY <2>1, <2>2 DEF IInv, TypeOK, Nested
  <2>4. \A t \in Threads : pc'[<<t, "handler">>] \in {"scan", "exchange", "mmap", "set"}
            => tls'[t] = None
    BY <2>1 DEF IInv, TypeOK, Nested, Sides
  <2> QED
    BY <2>1, <2>3, <2>4 DEF IInv, TypeOK, Nested
<1>6. FramesAreMine'
  <2>1. pc[<<k[1], "main">>] # "proxy" /\ pc[<<k[1], "handler">>] # "proxy"
    BY DEF IInv, TypeOK, Nested, Sides
  <2> QED
    BY <2>1 DEF IInv, TypeOK, FramesAreMine, Fresh, Running, Sides
<1> QED
  BY <1>1, <1>2, <1>3, <1>4, <1>5, <1>6 DEF IInv

LEMMA PushFrameIInv ==
    ASSUME IInv, NEW k \in Fibers, PushFrame(k) PROVE IInv'
<1> USE FiberFacts DEF PushFrame, At, Goto, Runs
<1>0. buf[k] \in Stacks /\ buf[k] = tls[k[1]]
  BY DEF IInv, TypeOK, Busy, Nested
<1>1. TypeOK' /\ NoAbort'
  BY <1>0 DEF IInv, TypeOK, NoAbort
<1>2. Busy' /\ Taken' /\ Private'
  BY DEF IInv, TypeOK, Busy, Taken, Private
<1>3. Fresh'
  BY <1>0, StackFacts DEF IInv, TypeOK, Busy, Fresh
<1>4. Nested'
  BY <1>0, StackFacts DEF IInv, TypeOK, Nested, Sides
<1>5. FramesAreMine'
  <2>1. \A u \in Threads : u # k[1] /\ tls[u] # None =>
            count'[tls[u]] = count[tls[u]]
                /\ Running(<<u, "main">>)' = Running(<<u, "main">>)
                /\ Running(<<u, "handler">>)' = Running(<<u, "handler">>)
    BY <1>0 DEF IInv, TypeOK, Private, Running, Sides
  <2>2. count'[tls[k[1]]] = count[tls[k[1]]] + 1
    BY <1>0 DEF IInv, TypeOK
  <2>3. Running(<<k[1], "main">>)' + Running(<<k[1], "handler">>)'
            = Running(<<k[1], "main">>) + Running(<<k[1], "handler">>) + 1
    BY DEF IInv, TypeOK, Running, Sides
  <2>4. tls' = tls
    OBVIOUS
  <2>. HIDE DEF PushFrame, At, Goto, Runs
  <2>5. ASSUME NEW u \in Threads, tls[u] # None
        PROVE  count'[tls[u]]
                   = Running(<<u, "main">>)' + Running(<<u, "handler">>)'
    <3>1. count[tls[u]] = Running(<<u, "main">>) + Running(<<u, "handler">>)
      BY <2>5 DEF IInv, FramesAreMine
    <3>2. CASE u # k[1]
      BY <2>1, <2>5, <3>1, <3>2
    <3>3. CASE u = k[1]
      BY <2>2, <2>3, <3>1, <3>3
    <3> QED
      BY <3>2, <3>3
  <2> QED
    BY <2>4, <2>5 DEF FramesAreMine
<1> QED
  BY <1>1, <1>2, <1>3, <1>4, <1>5 DEF IInv

LEMMA PopFrameIInv ==
    ASSUME IInv, NEW k \in Fibers, PopFrame(k) PROVE IInv'
<1> USE FiberFacts DEF PopFrame, At, Goto, Runs
<1>0. /\ tls[k[1]] \in Stacks
      /\ count[tls[k[1]]] =
            Running(<<k[1], "main">>) + Running(<<k[1], "handler">>)
      /\ Running(k) = 1
  BY DEF IInv, TypeOK, Nested, FramesAreMine, Running
<1>1. count[tls[k[1]]] \in Nat \ {0}
  BY <1>0 DEF Running, Sides
<1>2. TypeOK' /\ NoAbort'
  <2>1. count[tls[k[1]]] - 1 \in Nat
    BY <1>1
  <2> QED
    BY <1>0, <2>1 DEF IInv, TypeOK, NoAbort
<1>3. Busy' /\ Taken' /\ Private'
  BY DEF IInv, TypeOK, Busy, Taken, Private
<1>4. Fresh'
  BY <1>0 DEF IInv, TypeOK, Busy, Fresh
<1>5. Nested'
  BY DEF IInv, TypeOK, Nested, Sides
<1>6. FramesAreMine'
  <2>1. \A u \in Threads : u # k[1] /\ tls[u] # None =>
            count'[tls[u]] = count[tls[u]]
                /\ Running(<<u, "main">>)' = Running(<<u, "main">>)
                /\ Running(<<u, "handler">>)' = Running(<<u, "handler">>)
    BY <1>0 DEF IInv, TypeOK, Private, Running, Sides
  <2>2. count'[tls[k[1]]] = count[tls[k[1]]] - 1
    BY <1>0 DEF IInv, TypeOK
  <2>3. Running(<<k[1], "main">>)' + Running(<<k[1], "handler">>)'
            = (Running(<<k[1], "main">>) + Running(<<k[1], "handler">>)) - 1
    BY DEF IInv, TypeOK, Running, Sides
  <2>4. count'[tls'[k[1]]] = Running(<<k[1], "main">>)' + Running(<<k[1], "handler">>)'
    BY <1>0, <2>2, <2>3
  <2>5. \A u \in Threads : u # k[1] /\ tls[u] # None =>
            count'[tls'[u]] = Running(<<u, "main">>)' + Running(<<u, "handler">>)'
    BY <2>1 DEF IInv, FramesAreMine
  <2> QED
    BY <2>4, <2>5 DEF FramesAreMine
<1> QED
  BY <1>2, <1>3, <1>4, <1>5, <1>6 DEF IInv

(* Nobody else holds the stack of a thread that exits, and the thread has  *)
(* no local pointer to it.                                                 *)
LEMMA ExitIInv ==
    ASSUME IInv, NEW t \in Threads, Exit(t) PROVE IInv'
<1> USE FiberFacts DEF Exit, Goto
<1> DEFINE b == tls[t]
           k == <<t, "main">>
<1>0. k \in Fibers /\ <<t, "handler">> \in Fibers /\ b \in Stacks /\ b \in used \union mapped
  BY DEF IInv, TypeOK, Taken, Sides
<1>1. b \notin Cache \ used
  BY <1>0, StackFacts DEF IInv, TypeOK
<1>2. /\ pc' = [pc EXCEPT ![k] = "idle"]
      /\ StackDestroy(b)
      /\ tls' = [tls EXCEPT ![t] = None]
      /\ UNCHANGED <<count, idx, buf>>
  BY <1>1
<1>3. \A u \in Threads : tls'[u] # None => tls[u] = tls'[u] /\ tls'[u] # b
  BY <1>2 DEF IInv, TypeOK, Private
<1>4. \A m \in Fibers : buf[m] # b
  BY <1>0, StackFacts DEF IInv, TypeOK, Busy, Private, Sides
<1>5. used' \union mapped' = (used \union mapped) \ {b} /\ used' \subseteq used /\ mapped' \subseteq mapped
  BY <1>0, <1>2, StackFacts DEF StackDestroy, IInv, TypeOK
<1> HIDE DEF b
<1>6. TypeOK' /\ NoAbort'
  BY <1>0, <1>2, <1>5 DEF IInv, TypeOK, NoAbort
<1>7. Busy' /\ Taken'
  BY <1>0, <1>2, <1>3, <1>4, <1>5 DEF IInv, TypeOK, Busy, Taken
<1>8. Private' /\ Fresh'
  BY <1>0, <1>2, <1>3 DEF IInv, TypeOK, Busy, Private, Fresh
<1>9. Nested'
  BY <1>0, <1>2, <1>3 DEF IInv, TypeOK, Busy, Nested, Private, Sides
<1>10. FramesAreMine'
  BY <1>0, <1>2, <1>3 DEF IInv, TypeOK, FramesAreMine, Running, Sides
<1> QED
  BY <1>6, <1>7, <1>8, <1>9, <1>10 DEF IInv

LEMMA NextIInv == IInv /\ [Next]_vars => IInv'
BY StutterIInv, CallIInv, ScanIInv, ExchangeIInv, MapIInv, SetSpecificIInv,
   PushFrameIInv, PopFrameIInv, ExitIInv DEF Next

LEMMA Invariance == Spec => []IInv
BY InitIInv, NextIInv, PTL DEF Spec

LEMMA IInvPrivate == IInv => StacksArePrivate
BY FiberFacts, StackFacts DEF IInv, TypeOK, Private, NoAbort, StacksArePrivate, Holds, Sides

(* No two threads ever share a stack of frames, and the destructor of the  *)
(* thread-specific data never aborts.                                      *)
THEOREM StacksPrivate == Spec => []StacksArePrivate
BY Invariance, IInvPrivate, PTL

(* The stack a thread uses holds the frames of its own running proxies.    *)
THEOREM FramesOwn == Spec => []FramesAreMine
<1>1. IInv => FramesAreMine
  BY DEF IInv
<1> QED
  BY <1>1, Invariance, PTL
-----------------------------------------------------------------------------
(* Tracer: its types, and that a traced call is safe unless an init or a stop *)
(* is under way during it.                                                 *)

USE DEF Trace!EndPoints

AllPoints == {"idle"} \union Trace!InitPoints \union Trace!StopPoints \union Trace!CallPoints
ThreadOK == [at : AllPoints, given : Trace!Settings, os : 0..ops, lib : TracedLibs \union {Trace!NULL},
             over : BOOLEAN, asked : BOOLEAN]

\* The stream that an init of t is about to set.
Brings(t) == th[t].at \in {"lists", "save", "os"} /\ th[t].os # Trace!NULL

\* A call next to an init or a stop knows of it.
Overlapped == \A t, u \in Threads :
    th[t].at \in Trace!InitPoints \union Trace!StopPoints /\ th[u].at \in Trace!CallPoints => th[u].over

\* The stream of an init is nobody else's.
StreamsAreNew ==
    /\ \A t \in Threads : Brings(t) => th[t].os \notin deleted /\ th[t].os # traceOs
    /\ \A t, u \in Threads : Brings(t) /\ Brings(u) /\ t # u => th[t].os # th[u].os

\* A stream is set or closed only if there is one.
OpsHaveStreams == \A t \in Threads :
    /\ th[t].at \in {"save", "os"} => th[t].os # Trace!NULL
    /\ th[t].at = "close" => traceOs # Trace!NULL

\* A deleted stream is in use only until a stop has switched the saving off, or an
\* init has set its own.
DeletedIsHandled ==
    isSave /\ traceOs \in deleted => \E t \in Threads : th[t].at \in {"unsave", "os"}

\* What a quiet call has tested still holds.
StillSaved == \A t \in Threads : th[t].at = "stream" /\ ~th[t].over => isSave

TracerInv == Trace!TypeOK /\ Overlapped /\ StreamsAreNew /\ OpsHaveStreams /\ DeletedIsHandled /\ StillSaved

LEMMA IdleType == ops \in Nat => Trace!Idle \in ThreadOK /\ Trace!NULL \in 0..ops
<1>. Trace!NoSettings \in Trace!Settings
  BY DEF Trace!NoSettings, Trace!Settings
<1>. QED  BY DEF Trace!Idle, ThreadOK, AllPoints, Trace!NULL, Trace!InitPoints, Trace!StopPoints, Trace!CallPoints

\* The types of a step that changes one thread.
LEMMA OneThread ==
  ASSUME Trace!TypeOK, NEW t \in Threads, NEW f \in ThreadOK, th' = [th EXCEPT ![t] = f], ops' = ops
  PROVE  th' \in [Threads -> ThreadOK']
  BY DEF Trace!TypeOK, ThreadOK, AllPoints

LEMMA ThreadType ==
  ASSUME Trace!TypeOK, NEW t \in Threads
  PROVE  th[t] \in ThreadOK
  BY DEF Trace!TypeOK, ThreadOK, AllPoints

-----------------------------------------------------------------------------
\* The two ways in which a step leaves its thread.
LEMMA GotoType ==
  ASSUME Trace!TypeOK, NEW t \in Threads, NEW where \in AllPoints, Trace!Goto(t, where), ops' = ops
  PROVE  th' \in [Threads -> ThreadOK']
<1>1. th[t] \in ThreadOK
  BY ThreadType
<1>2. [th[t] EXCEPT !.at = where] \in ThreadOK
  BY <1>1 DEF ThreadOK
<1>3. th' = [th EXCEPT ![t] = [th[t] EXCEPT !.at = where]]
  BY DEF Trace!Goto
<1>. QED  BY <1>2, <1>3, OneThread

LEMMA FinishType ==
  ASSUME Trace!TypeOK, NEW t \in Threads, Trace!Finish(t), ops' = ops
  PROVE  th' \in [Threads -> ThreadOK']
<1>. Trace!Idle \in ThreadOK
  BY IdleType DEF Trace!TypeOK
<1>. QED  BY OneThread DEF Trace!Finish

\* The rest of TypeOK, when the threads are left out.
RestOK ==
    /\ isInited \in [Tracers -> BOOLEAN] /\ isSave \in BOOLEAN /\ isHookAll \in BOOLEAN
    /\ forbidSoList \subseteq TracedLibs /\ filterSoList \subseteq TracedLibs /\ hookedLibs \subseteq TracedLibs
    /\ ops \in Nat /\ traceOs \in 0..ops /\ sink \in 0..ops /\ deleted \subseteq 1..ops
    /\ broken \in BOOLEAN

LEMMA Parts == Trace!TypeOK <=> RestOK /\ th \in [Threads -> ThreadOK]
  BY DEF Trace!TypeOK, RestOK, ThreadOK, AllPoints

LEMMA StepType ==
  ASSUME Trace!TypeOK, OpsHaveStreams, NEW t \in Threads, Trace!OpStep(t) \/ Trace!CallStep(t)
  PROVE  Trace!TypeOK'
<1>. USE Parts, ThreadType
<1>. SUFFICES RestOK' /\ th' \in [Threads -> ThreadOK']
  BY DEF Trace!TypeOK, RestOK, ThreadOK, AllPoints
<1>1. CASE Trace!InitLists(t)
  <2>1. RestOK'
    BY <1>1 DEF Trace!InitLists, RestOK, Trace!TypeOK, ThreadOK, Trace!Settings, Trace!settings, Trace!stream, Trace!hooks, Trace!history, Trace!NULL, Trace!Changing
  <2>2. ops' = ops
    BY <1>1 DEF Trace!InitLists
  <2>3. Trace!Finish(t) \/ \E where \in AllPoints : Trace!Goto(t, where)
    BY <1>1 DEF Trace!InitLists, AllPoints, Trace!InitPoints, Trace!StopPoints, Trace!CallPoints, Trace!Changing
  <2>. QED  BY <2>1, <2>2, <2>3, GotoType, FinishType
<1>2. CASE Trace!InitSave(t)
  <2>1. RestOK'
    BY <1>2 DEF Trace!InitSave, RestOK, Trace!TypeOK, ThreadOK, Trace!Settings, Trace!settings, Trace!stream, Trace!hooks, Trace!history, Trace!NULL
  <2>2. ops' = ops
    BY <1>2 DEF Trace!InitSave
  <2>3. Trace!Finish(t) \/ \E where \in AllPoints : Trace!Goto(t, where)
    BY <1>2 DEF Trace!InitSave, AllPoints, Trace!InitPoints, Trace!StopPoints, Trace!CallPoints
  <2>. QED  BY <2>1, <2>2, <2>3, GotoType, FinishType
<1>3. CASE Trace!InitOs(t)
  <2>1. RestOK'
    BY <1>3 DEF Trace!InitOs, RestOK, Trace!TypeOK, ThreadOK, Trace!Settings, Trace!settings, Trace!stream, Trace!hooks, Trace!history, Trace!NULL, Trace!SetStream
  <2>2. ops' = ops
    BY <1>3 DEF Trace!InitOs
  <2>3. Trace!Finish(t) \/ \E where \in AllPoints : Trace!Goto(t, where)
    BY <1>3 DEF Trace!InitOs, AllPoints, Trace!InitPoints, Trace!StopPoints, Trace!CallPoints, Trace!SetStream
  <2>. QED  BY <2>1, <2>2, <2>3, GotoType, FinishType
<1>4. CASE Trace!InitHook(t)
  <2>1. RestOK'
    BY <1>4 DEF Trace!InitHook, RestOK, Trace!TypeOK, ThreadOK, Trace!Settings, Trace!settings, Trace!stream, Trace!hooks, Trace!history, Trace!NULL
  <2>2. ops' = ops
    BY <1>4 DEF Trace!InitHook
  <2>3. Trace!Finish(t) \/ \E where \in AllPoints : Trace!Goto(t, where)
    BY <1>4 DEF Trace!InitHook, AllPoints, Trace!InitPoints, Trace!StopPoints, Trace!CallPoints
  <2>. QED  BY <2>1, <2>2, <2>3, GotoType, FinishType
<1>5. CASE Trace!StopClear(t)
  <2>1. RestOK'
    BY <1>5 DEF Trace!StopClear, RestOK, Trace!TypeOK, ThreadOK, Trace!Settings, Trace!settings, Trace!stream, Trace!hooks, Trace!history, Trace!NULL, Trace!Changing, Trace!AfterClear
  <2>2. ops' = ops
    BY <1>5 DEF Trace!StopClear
  <2>3. Trace!Finish(t) \/ \E where \in AllPoints : Trace!Goto(t, where)
    BY <1>5 DEF Trace!StopClear, AllPoints, Trace!InitPoints, Trace!StopPoints, Trace!CallPoints, Trace!Changing, Trace!AfterClear
  <2>. QED  BY <2>1, <2>2, <2>3, GotoType, FinishType
<1>6. CASE Trace!StopClose(t)
  <2>0. traceOs \in 1..ops
    BY <1>6 DEF Trace!StopClose, Trace!At, OpsHaveStreams, Trace!TypeOK, Trace!NULL
  <2>1. RestOK'
    <3>1. deleted' \subseteq 1..ops
      BY <1>6, <2>0 DEF Trace!StopClose, Trace!TypeOK
    <3>2. broken' \in BOOLEAN
      BY <1>6 DEF Trace!StopClose, Trace!TypeOK
    <3>. QED  BY <1>6, <3>1, <3>2 DEF Trace!StopClose, RestOK, Trace!TypeOK, Trace!settings, Trace!hooks, Trace!history
  <2>2. ops' = ops
    BY <1>6 DEF Trace!StopClose
  <2>3. Trace!Finish(t) \/ \E where \in AllPoints : Trace!Goto(t, where)
    BY <1>6 DEF Trace!StopClose, AllPoints, Trace!InitPoints, Trace!StopPoints, Trace!CallPoints
  <2>. QED  BY <2>1, <2>2, <2>3, GotoType, FinishType
<1>7. CASE Trace!StopUnsave(t)
  <2>1. RestOK'
    BY <1>7 DEF Trace!StopUnsave, RestOK, Trace!TypeOK, ThreadOK, Trace!Settings, Trace!settings, Trace!stream, Trace!hooks, Trace!history, Trace!NULL, Trace!Unsaved
  <2>2. ops' = ops
    BY <1>7 DEF Trace!StopUnsave
  <2>3. Trace!Finish(t) \/ \E where \in AllPoints : Trace!Goto(t, where)
    BY <1>7 DEF Trace!StopUnsave, AllPoints, Trace!InitPoints, Trace!StopPoints, Trace!CallPoints, Trace!Unsaved
  <2>. QED  BY <2>1, <2>2, <2>3, GotoType, FinishType
<1>8. CASE Trace!IsLister(t)
  <2>1. RestOK'
    BY <1>8 DEF Trace!IsLister, RestOK, Trace!TypeOK, ThreadOK, Trace!Settings, Trace!settings, Trace!stream, Trace!hooks, Trace!history, Trace!NULL, Trace!Walking, Trace!Listed
  <2>2. ops' = ops
    BY <1>8 DEF Trace!IsLister
  <2>3. Trace!Finish(t) \/ \E where \in AllPoints : Trace!Goto(t, where)
    BY <1>8 DEF Trace!IsLister, AllPoints, Trace!InitPoints, Trace!StopPoints, Trace!CallPoints, Trace!Walking, Trace!Listed
  <2>. QED  BY <2>1, <2>2, <2>3, GotoType, FinishType
<1>9. CASE Trace!TestSave(t)
  <2>1. RestOK'
    BY <1>9 DEF Trace!TestSave, RestOK, Trace!TypeOK, ThreadOK, Trace!Settings, Trace!settings, Trace!stream, Trace!hooks, Trace!history, Trace!NULL
  <2>2. ops' = ops
    BY <1>9 DEF Trace!TestSave
  <2>3. Trace!Finish(t) \/ \E where \in AllPoints : Trace!Goto(t, where)
    BY <1>9 DEF Trace!TestSave, AllPoints, Trace!InitPoints, Trace!StopPoints, Trace!CallPoints
  <2>. QED  BY <2>1, <2>2, <2>3, GotoType, FinishType
<1>10. CASE Trace!Save(t)
  <2>1. RestOK'
    BY <1>10 DEF Trace!Save, RestOK, Trace!TypeOK, ThreadOK, Trace!Settings, Trace!settings, Trace!stream, Trace!hooks, Trace!history, Trace!NULL
  <2>2. ops' = ops
    BY <1>10 DEF Trace!Save
  <2>3. Trace!Finish(t) \/ \E where \in AllPoints : Trace!Goto(t, where)
    BY <1>10 DEF Trace!Save, AllPoints, Trace!InitPoints, Trace!StopPoints, Trace!CallPoints
  <2>. QED  BY <2>1, <2>2, <2>3, GotoType, FinishType
<1>11. CASE Trace!LoadAfter(t)
  <2>1. RestOK'
    BY <1>11 DEF Trace!LoadAfter, RestOK, Trace!TypeOK, ThreadOK, Trace!Settings, Trace!settings, Trace!stream, Trace!hooks, Trace!history, Trace!NULL, Trace!Walking, Trace!ToHook
  <2>2. ops' = ops
    BY <1>11 DEF Trace!LoadAfter
  <2>3. Trace!Finish(t) \/ \E where \in AllPoints : Trace!Goto(t, where)
    BY <1>11 DEF Trace!LoadAfter, AllPoints, Trace!InitPoints, Trace!StopPoints, Trace!CallPoints, Trace!Walking, Trace!ToHook
  <2>. QED  BY <2>1, <2>2, <2>3, GotoType, FinishType
<1>12. CASE Trace!CallEnd(t)
  <2>1. RestOK'
    BY <1>12 DEF Trace!CallEnd, RestOK, Trace!TypeOK, ThreadOK, Trace!Settings, Trace!settings, Trace!stream, Trace!hooks, Trace!history, Trace!NULL
  <2>2. ops' = ops
    BY <1>12 DEF Trace!CallEnd
  <2>3. Trace!Finish(t) \/ \E where \in AllPoints : Trace!Goto(t, where)
    BY <1>12 DEF Trace!CallEnd, AllPoints, Trace!InitPoints, Trace!StopPoints, Trace!CallPoints
  <2>. QED  BY <2>1, <2>2, <2>3, GotoType, FinishType
<1>. QED  BY <1>1, <1>2, <1>3, <1>4, <1>5, <1>6, <1>7, <1>8, <1>9, <1>10, <1>11, <1>12 DEF Trace!OpStep, Trace!CallStep

-----------------------------------------------------------------------------
(* The steps *)

\* A step of a call that leaves the stream alone, and goes anywhere but to its use.
LEMMA QuietStep ==
  ASSUME TracerInv, NEW t \in Threads, th[t].at \in Trace!CallPoints, UNCHANGED Trace!stream,
         NEW f \in ThreadOK, th' = [th EXCEPT ![t] = f],
         f.at \in (Trace!CallPoints \ {"stream"}) \union {"idle"},
         f.at # "idle" => f.over = th[t].over
  PROVE  Overlapped' /\ StreamsAreNew' /\ OpsHaveStreams' /\ DeletedIsHandled' /\ StillSaved'
<1>. USE DEF Trace!InitPoints, Trace!StopPoints, Trace!CallPoints
<1>1. Overlapped'
  BY DEF TracerInv, Trace!TypeOK, Overlapped, Trace!stream
<1>2. StreamsAreNew'
  BY DEF TracerInv, Trace!TypeOK, StreamsAreNew, Brings, Trace!stream
<1>3. OpsHaveStreams'
  BY DEF TracerInv, Trace!TypeOK, OpsHaveStreams, Trace!stream
<1>4. DeletedIsHandled'
  BY DEF TracerInv, Trace!TypeOK, DeletedIsHandled, Trace!stream
<1>5. StillSaved'
  BY DEF TracerInv, Trace!TypeOK, StillSaved, Trace!stream
<1>. QED  BY <1>1, <1>2, <1>3, <1>4, <1>5

\* The same of a step that only moves its thread.
LEMMA QuietGoto ==
  ASSUME TracerInv, NEW t \in Threads, th[t].at \in Trace!CallPoints, UNCHANGED Trace!stream,
         NEW where \in Trace!CallPoints \ {"stream"}, Trace!Goto(t, where)
  PROVE  Overlapped' /\ StreamsAreNew' /\ OpsHaveStreams' /\ DeletedIsHandled' /\ StillSaved'
<1>. DEFINE f == [th[t] EXCEPT !.at = where]
<1>1. th[t] \in ThreadOK
  BY ThreadType DEF TracerInv
<1>2. f \in ThreadOK /\ f.at = where /\ f.over = th[t].over
  BY <1>1 DEF ThreadOK, AllPoints
<1>3. th' = [th EXCEPT ![t] = f]
  BY DEF Trace!Goto
<1>. HIDE DEF f
<1>. QED  BY <1>2, <1>3, QuietStep

LEMMA CallKeeps ==
  ASSUME TracerInv, NEW t \in Threads, Trace!CallStep(t)
  PROVE  Overlapped' /\ StreamsAreNew' /\ OpsHaveStreams' /\ DeletedIsHandled' /\ StillSaved'
<1>. th[t] \in ThreadOK /\ Trace!Idle \in ThreadOK
  BY ThreadType, IdleType DEF TracerInv, Trace!TypeOK
<1>1. CASE Trace!IsLister(t) \/ Trace!Save(t) \/ Trace!LoadAfter(t)
  <2>1. th[t].at \in Trace!CallPoints /\ UNCHANGED Trace!stream
    BY <1>1 DEF Trace!IsLister, Trace!Save, Trace!LoadAfter, Trace!At, Trace!CallPoints, Trace!stream
  <2>2. PICK where \in {"write", "dropped", "saved", "loaded"} : Trace!Goto(t, where)
    BY <1>1 DEF Trace!IsLister, Trace!Save, Trace!LoadAfter
  <2>3. where \in Trace!CallPoints \ {"stream"}
    BY DEF Trace!CallPoints
  <2>. QED  BY <2>1, <2>2, <2>3, QuietGoto
<1>2. CASE Trace!TestSave(t)
  <2>1. th[t].at \in Trace!CallPoints /\ UNCHANGED Trace!stream
    BY <1>2 DEF Trace!TestSave, Trace!At, Trace!CallPoints
  <2>2. CASE Trace!Goto(t, "logged")
    BY <2>1, <2>2, QuietGoto DEF Trace!CallPoints
  <2>3. CASE Trace!Goto(t, "stream") /\ isSave
    <3>1. Overlapped'
      BY <1>2, <2>3 DEF Trace!TestSave, Trace!Goto, Trace!At, TracerInv, Trace!TypeOK, Overlapped, Trace!stream, Trace!InitPoints, Trace!StopPoints, Trace!CallPoints
    <3>2. StreamsAreNew'
      BY <1>2, <2>3 DEF Trace!TestSave, Trace!Goto, Trace!At, TracerInv, Trace!TypeOK, StreamsAreNew, Brings, Trace!stream, Trace!InitPoints, Trace!StopPoints, Trace!CallPoints
    <3>3. OpsHaveStreams'
      BY <1>2, <2>3 DEF Trace!TestSave, Trace!Goto, Trace!At, TracerInv, Trace!TypeOK, OpsHaveStreams, Trace!stream, Trace!InitPoints, Trace!StopPoints, Trace!CallPoints
    <3>4. DeletedIsHandled'
      BY <1>2, <2>3 DEF Trace!TestSave, Trace!Goto, Trace!At, TracerInv, Trace!TypeOK, DeletedIsHandled, Trace!stream, Trace!InitPoints, Trace!StopPoints, Trace!CallPoints
    <3>5. StillSaved'
      BY <1>2, <2>3 DEF Trace!TestSave, Trace!Goto, Trace!At, TracerInv, Trace!TypeOK, StillSaved, Trace!stream, Trace!InitPoints, Trace!StopPoints, Trace!CallPoints
    <3>. QED  BY <3>1, <3>2, <3>3, <3>4, <3>5
  <2>. QED  BY <1>2, <2>2, <2>3 DEF Trace!TestSave
<1>3. CASE Trace!CallEnd(t)
  BY <1>3, QuietStep DEF Trace!CallEnd, Trace!Finish, Trace!Idle, Trace!stream, Trace!CallPoints
<1>. QED  BY <1>1, <1>2, <1>3 DEF Trace!CallStep

LEMMA OpKeeps ==
  ASSUME TracerInv, NEW t \in Threads, Trace!OpStep(t)
  PROVE  Overlapped' /\ StreamsAreNew' /\ OpsHaveStreams' /\ DeletedIsHandled' /\ StillSaved'
<1>. USE DEF Trace!InitPoints, Trace!StopPoints, Trace!CallPoints
<1>1. CASE Trace!InitLists(t)
  <2>1. Overlapped'
    BY <1>1 DEF Trace!InitLists, Trace!At, Trace!Goto, TracerInv, Trace!TypeOK, Trace!stream, Overlapped
  <2>2. StreamsAreNew'
    BY <1>1 DEF Trace!InitLists, Trace!At, Trace!Goto, TracerInv, Trace!TypeOK, Trace!stream, StreamsAreNew, Brings
  <2>3. OpsHaveStreams'
    BY <1>1 DEF Trace!InitLists, Trace!At, Trace!Goto, TracerInv, Trace!TypeOK, Trace!stream, OpsHaveStreams
  <2>4. DeletedIsHandled'
    BY <1>1 DEF Trace!InitLists, Trace!At, Trace!Goto, TracerInv, Trace!TypeOK, Trace!stream, DeletedIsHandled
  <2>5. StillSaved'
    BY <1>1 DEF Trace!InitLists, Trace!At, Trace!Goto, TracerInv, Trace!TypeOK, Trace!stream, StillSaved
  <2>. QED  BY <2>1, <2>2, <2>3, <2>4, <2>5
<1>2. CASE Trace!InitSave(t)
  <2>1. Overlapped'
    BY <1>2 DEF Trace!InitSave, Trace!At, Trace!Goto, TracerInv, Trace!TypeOK, Trace!stream, Overlapped
  <2>2. StreamsAreNew'
    BY <1>2 DEF Trace!InitSave, Trace!At, Trace!Goto, TracerInv, Trace!TypeOK, Trace!stream, StreamsAreNew, Brings
  <2>3. OpsHaveStreams'
    BY <1>2 DEF Trace!InitSave, Trace!At, Trace!Goto, TracerInv, Trace!TypeOK, Trace!stream, OpsHaveStreams
  <2>4. DeletedIsHandled'
    BY <1>2 DEF Trace!InitSave, Trace!At, Trace!Goto, TracerInv, Trace!TypeOK, Trace!stream, DeletedIsHandled
  <2>5. StillSaved'
    BY <1>2 DEF Trace!InitSave, Trace!At, Trace!Goto, TracerInv, Trace!TypeOK, Trace!stream, StillSaved
  <2>. QED  BY <2>1, <2>2, <2>3, <2>4, <2>5
<1>3. CASE Trace!InitOs(t)
  <2>1. Overlapped'
    BY <1>3 DEF Trace!InitOs, Trace!At, Trace!Goto, Trace!SetStream, TracerInv, Trace!TypeOK, Trace!stream, Overlapped
  <2>2. StreamsAreNew'
    BY <1>3 DEF Trace!InitOs, Trace!At, Trace!Goto, Trace!SetStream, TracerInv, Trace!TypeOK, Trace!stream, StreamsAreNew, Brings
  <2>3. OpsHaveStreams'
    BY <1>3 DEF Trace!InitOs, Trace!At, Trace!Goto, Trace!SetStream, TracerInv, Trace!TypeOK, Trace!stream, OpsHaveStreams
  <2>4. DeletedIsHandled'
    BY <1>3 DEF Trace!InitOs, Trace!At, Trace!Goto, Trace!SetStream, TracerInv, Trace!TypeOK, Trace!stream, DeletedIsHandled, StreamsAreNew, Brings, OpsHaveStreams
  <2>5. StillSaved'
    BY <1>3 DEF Trace!InitOs, Trace!At, Trace!Goto, Trace!SetStream, TracerInv, Trace!TypeOK, Trace!stream, StillSaved
  <2>. QED  BY <2>1, <2>2, <2>3, <2>4, <2>5
<1>4. CASE Trace!InitHook(t)
  <2>1. Overlapped'
    BY <1>4 DEF Trace!InitHook, Trace!At, Trace!Finish, Trace!Idle, TracerInv, Trace!TypeOK, Trace!stream, Overlapped
  <2>2. StreamsAreNew'
    BY <1>4 DEF Trace!InitHook, Trace!At, Trace!Finish, Trace!Idle, TracerInv, Trace!TypeOK, Trace!stream, StreamsAreNew, Brings
  <2>3. OpsHaveStreams'
    BY <1>4 DEF Trace!InitHook, Trace!At, Trace!Finish, Trace!Idle, TracerInv, Trace!TypeOK, Trace!stream, OpsHaveStreams
  <2>4. DeletedIsHandled'
    BY <1>4 DEF Trace!InitHook, Trace!At, Trace!Finish, Trace!Idle, TracerInv, Trace!TypeOK, Trace!stream, DeletedIsHandled
  <2>5. StillSaved'
    BY <1>4 DEF Trace!InitHook, Trace!At, Trace!Finish, Trace!Idle, TracerInv, Trace!TypeOK, Trace!stream, StillSaved
  <2>. QED  BY <2>1, <2>2, <2>3, <2>4, <2>5
<1>5. CASE Trace!StopClear(t)
  <2>1. Overlapped'
    BY <1>5 DEF Trace!StopClear, Trace!At, Trace!Goto, Trace!AfterClear, TracerInv, Trace!TypeOK, Trace!stream, Overlapped
  <2>2. StreamsAreNew'
    BY <1>5 DEF Trace!StopClear, Trace!At, Trace!Goto, Trace!AfterClear, TracerInv, Trace!TypeOK, Trace!stream, StreamsAreNew, Brings
  <2>3. OpsHaveStreams'
    BY <1>5 DEF Trace!StopClear, Trace!At, Trace!Goto, Trace!AfterClear, TracerInv, Trace!TypeOK, Trace!stream, OpsHaveStreams
  <2>4. DeletedIsHandled'
    BY <1>5 DEF Trace!StopClear, Trace!At, Trace!Goto, Trace!AfterClear, TracerInv, Trace!TypeOK, Trace!stream, DeletedIsHandled
  <2>5. StillSaved'
    BY <1>5 DEF Trace!StopClear, Trace!At, Trace!Goto, Trace!AfterClear, TracerInv, Trace!TypeOK, Trace!stream, StillSaved
  <2>. QED  BY <2>1, <2>2, <2>3, <2>4, <2>5
<1>6. CASE Trace!StopClose(t)
  <2>1. Overlapped'
    BY <1>6 DEF Trace!StopClose, Trace!At, Trace!Goto, TracerInv, Trace!TypeOK, Trace!stream, Overlapped
  <2>2. StreamsAreNew'
    BY <1>6 DEF Trace!StopClose, Trace!At, Trace!Goto, TracerInv, Trace!TypeOK, Trace!stream, StreamsAreNew, Brings
  <2>3. OpsHaveStreams'
    BY <1>6 DEF Trace!StopClose, Trace!At, Trace!Goto, TracerInv, Trace!TypeOK, Trace!stream, OpsHaveStreams
  <2>4. DeletedIsHandled'
    BY <1>6 DEF Trace!StopClose, Trace!At, Trace!Goto, TracerInv, Trace!TypeOK, Trace!stream, DeletedIsHandled
  <2>5. StillSaved'
    BY <1>6 DEF Trace!StopClose, Trace!At, Trace!Goto, TracerInv, Trace!TypeOK, Trace!stream, StillSaved
  <2>. QED  BY <2>1, <2>2, <2>3, <2>4, <2>5
<1>7. CASE Trace!StopUnsave(t)
  <2>1. Overlapped'
    BY <1>7 DEF Trace!StopUnsave, Trace!At, Trace!Finish, Trace!Idle, Trace!Unsaved, TracerInv, Trace!TypeOK, Trace!stream, Overlapped
  <2>2. StreamsAreNew'
    BY <1>7 DEF Trace!StopUnsave, Trace!At, Trace!Finish, Trace!Idle, Trace!Unsaved, TracerInv, Trace!TypeOK, Trace!stream, StreamsAreNew, Brings
  <2>3. OpsHaveStreams'
    BY <1>7 DEF Trace!StopUnsave, Trace!At, Trace!Finish, Trace!Idle, Trace!Unsaved, TracerInv, Trace!TypeOK, Trace!stream, OpsHaveStreams
  <2>4. DeletedIsHandled'
    BY <1>7 DEF Trace!StopUnsave, Trace!At, Trace!Finish, Trace!Idle, Trace!Unsaved, TracerInv, Trace!TypeOK, Trace!stream, DeletedIsHandled
  <2>5. StillSaved'
    BY <1>7 DEF Trace!StopUnsave, Trace!At, Trace!Finish, Trace!Idle, Trace!Unsaved, TracerInv, Trace!TypeOK, Trace!stream, StillSaved, Overlapped
  <2>. QED  BY <2>1, <2>2, <2>3, <2>4, <2>5
<1>. QED  BY <1>1, <1>2, <1>3, <1>4, <1>5, <1>6, <1>7 DEF Trace!OpStep

-----------------------------------------------------------------------------
(* Calls, inits and stops begin *)

LEMMA BeginCallKeeps ==
  ASSUME TracerInv, NEW t \in Threads, NEW l \in TracedLibs, NEW where \in {"match", "write", "load"},
         NEW asked \in BOOLEAN, Trace!BeginCall(t, l, where, asked)
  PROVE  TracerInv'
<1>. DEFINE f == [Trace!Idle EXCEPT !.at = where, !.lib = l, !.over = Trace!Busy # {}, !.asked = asked]
<1>1. Trace!Idle \in ThreadOK
  BY IdleType DEF TracerInv, Trace!TypeOK
<1>2. f \in ThreadOK /\ f.at = where /\ f.over = (Trace!Busy # {})
  <2>. HIDE DEF Trace!Busy
  <2>. QED  BY <1>1 DEF ThreadOK, AllPoints, Trace!CallPoints
<1>3. th' = [th EXCEPT ![t] = f] /\ ops' = ops
  BY DEF Trace!BeginCall
<1>. HIDE DEF f
<1>4. Trace!TypeOK'
  <2>1. th' \in [Threads -> ThreadOK']
    BY <1>2, <1>3, OneThread DEF TracerInv
  <2>2. RestOK'
    BY DEF Trace!BeginCall, TracerInv, Trace!TypeOK, RestOK, Trace!settings, Trace!stream, Trace!hooks, Trace!history
  <2>. QED  BY <2>1, <2>2 DEF Trace!TypeOK, RestOK, ThreadOK, AllPoints
<1>5. Overlapped'
  BY <1>2, <1>3 DEF TracerInv, Trace!TypeOK, Overlapped, Trace!Busy, Trace!InitPoints, Trace!StopPoints, Trace!CallPoints
<1>6. StreamsAreNew' /\ OpsHaveStreams'
  BY <1>2, <1>3 DEF Trace!BeginCall, TracerInv, Trace!TypeOK, StreamsAreNew, Brings, OpsHaveStreams, Trace!stream
<1>7. DeletedIsHandled'
  BY <1>2, <1>3 DEF Trace!BeginCall, Trace!At, TracerInv, Trace!TypeOK, DeletedIsHandled, Trace!stream
<1>8. StillSaved'
  BY <1>2, <1>3 DEF Trace!BeginCall, TracerInv, Trace!TypeOK, StillSaved, Trace!stream
<1>. QED  BY <1>4, <1>5, <1>6, <1>7, <1>8 DEF TracerInv

\* ThreadOK when there is one more stream.
WideOK == [at : AllPoints, given : Trace!Settings, os : 0..ops + 1, lib : TracedLibs \union {Trace!NULL},
           over : BOOLEAN, asked : BOOLEAN]

LEMMA Widen ==
  ASSUME ops \in Nat, NEW f \in ThreadOK
  PROVE  f \in WideOK
<1>. \A n \in 0..ops : n \in 0..ops + 1
  OBVIOUS
<1>. QED  BY DEF ThreadOK, WideOK

LEMMA BeginOpKeeps ==
  ASSUME TracerInv, NEW t \in Threads, NEW f, Trace!BeginOp(t, f),
         f \in WideOK,
         f.at \in {"lists", "clear"}, f.os \in {Trace!NULL, ops + 1},
         RestOK'
  PROVE  TracerInv'
<1>1. th \in [Threads -> ThreadOK] /\ ops \in Nat /\ ops' = ops + 1
  BY DEF TracerInv, Trace!TypeOK, ThreadOK, AllPoints, Trace!BeginOp
<1>0. WideOK = ThreadOK'
  BY <1>1 DEF WideOK, ThreadOK
<1>2. th' = [u \in Threads |-> IF u = t THEN f
                               ELSE IF u \in Trace!Traced THEN [th[u] EXCEPT !.over = TRUE] ELSE th[u]]
  BY DEF Trace!BeginOp
<1>3. ASSUME NEW u \in Threads
      PROVE  /\ th'[u] \in ThreadOK'
             /\ u # t => th'[u].at = th[u].at /\ th'[u].os = th[u].os
             /\ u # t /\ th[u].at \in Trace!CallPoints => th'[u].over
  <2>1. th[u] \in ThreadOK
    BY <1>1
  <2>2. CASE u = t
    BY <1>0, <1>2, <2>2
  <2>3. CASE u # t /\ u \in Trace!Traced
    <3>1. th'[u] = [th[u] EXCEPT !.over = TRUE]
      BY <1>2, <2>3
    <3>2. [th[u] EXCEPT !.over = TRUE] \in ThreadOK
      BY <2>1 DEF ThreadOK
    <3>3. th'[u] \in ThreadOK'
      BY <1>0, <1>1, <3>1, <3>2, Widen
    <3>4. th'[u].at = th[u].at /\ th'[u].os = th[u].os /\ th'[u].over
      BY <2>1, <3>1 DEF ThreadOK
    <3>. QED  BY <2>3, <3>3, <3>4
  <2>4. CASE u # t /\ u \notin Trace!Traced
    <3>1. th'[u] = th[u] /\ th[u].at \notin Trace!CallPoints
      BY <1>2, <2>4 DEF Trace!Traced, Trace!InitPoints, Trace!StopPoints, Trace!CallPoints
    <3>. QED  BY <1>1, <2>1, <2>4, <3>1 DEF ThreadOK
  <2>. QED  BY <2>2, <2>3, <2>4
<1>4. th'[t] = f
  BY <1>2
<1>5. UNCHANGED <<isSave, traceOs, deleted>> /\ th[t].at = "idle"
  BY DEF Trace!BeginOp, Trace!stream, Trace!At
<1>6. Trace!TypeOK'
  <2>1. th' \in [Threads -> ThreadOK']
    BY <1>2, <1>3
  <2>. QED  BY <2>1 DEF Trace!TypeOK, RestOK, ThreadOK, AllPoints
<1>7. Overlapped'
  BY <1>3, <1>4 DEF TracerInv, Overlapped, Trace!InitPoints, Trace!StopPoints, Trace!CallPoints
<1>8. StreamsAreNew'
  <2>1. \A u \in Threads : th[u].os <= ops /\ traceOs <= ops /\ \A n \in deleted : n <= ops
    BY <1>1 DEF TracerInv, Trace!TypeOK, ThreadOK
  <2>2. \A u \in Threads : u # t => (Brings(u)' <=> Brings(u))
    BY <1>3 DEF Brings
  <2>3. Brings(t)' => f.os = ops + 1
    BY <1>4 DEF Brings
  <2>4. ASSUME NEW u \in Threads, Brings(u)'
        PROVE  th'[u].os \notin deleted /\ th'[u].os # traceOs
    <3>1. CASE u = t
      BY <1>1, <1>4, <2>1, <2>3, <2>4, <3>1 DEF TracerInv, Trace!TypeOK
    <3>2. CASE u # t
      BY <1>3, <2>2, <2>4, <3>2 DEF TracerInv, StreamsAreNew
    <3>. QED  BY <3>1, <3>2
  <2>5. ASSUME NEW u \in Threads, NEW w \in Threads, Brings(u)', Brings(w)', u # w
        PROVE  th'[u].os # th'[w].os
    <3>1. CASE u # t /\ w # t
      BY <1>3, <2>2, <2>5, <3>1 DEF TracerInv, StreamsAreNew
    <3>2. \A v \in Threads : v # t => th'[v].os <= ops
      BY <1>3, <2>1
    <3>3. \A v \in Threads : th'[v].os \in Nat
      BY <1>1, <1>3 DEF ThreadOK
    <3>4. CASE u = t
      BY <1>1, <1>4, <2>3, <2>5, <3>2, <3>3, <3>4
    <3>5. CASE w = t
      BY <1>1, <1>4, <2>3, <2>5, <3>2, <3>3, <3>5
    <3>. QED  BY <3>1, <3>4, <3>5
  <2>. QED  BY <1>5, <2>4, <2>5 DEF StreamsAreNew
<1>9. OpsHaveStreams'
  BY <1>3, <1>4, <1>5 DEF TracerInv, OpsHaveStreams
<1>10. DeletedIsHandled'
  BY <1>3, <1>5 DEF TracerInv, DeletedIsHandled
<1>11. StillSaved'
  <2>1. ASSUME NEW u \in Threads, th'[u].at = "stream", ~th'[u].over
        PROVE  FALSE
    <3>1. u # t
      BY <1>4, <2>1
    <3>2. th[u].at \in Trace!CallPoints
      BY <1>3, <2>1, <3>1 DEF Trace!CallPoints
    <3>. QED  BY <1>3, <2>1, <3>1, <3>2
  <2>. QED  BY <2>1 DEF StillSaved
<1>. QED  BY <1>6, <1>7, <1>8, <1>9, <1>10, <1>11 DEF TracerInv

-----------------------------------------------------------------------------
(* The theorems *)

LEMMA InitEstablishes == Trace!Init => TracerInv
<1>. SUFFICES ASSUME Trace!Init PROVE TracerInv
  OBVIOUS
<1>1. Trace!TypeOK
  <2>1. th \in [Threads -> ThreadOK]
    BY IdleType DEF Trace!Init
  <2>2. deleted \subseteq 1..ops /\ traceOs \in 0..ops /\ ops \in Nat
    BY DEF Trace!Init, Trace!NULL
  <2>3. RestOK
    BY <2>2 DEF Trace!Init, RestOK
  <2>. QED  BY <2>1, <2>3 DEF Trace!TypeOK, RestOK, ThreadOK, AllPoints
<1>2. \A t \in Threads : th[t].at = "idle"
  BY DEF Trace!Init, Trace!Idle
<1>3. Overlapped /\ StreamsAreNew /\ OpsHaveStreams /\ StillSaved
  BY <1>2 DEF Overlapped, StreamsAreNew, Brings, OpsHaveStreams, StillSaved, Trace!InitPoints, Trace!StopPoints
<1>4. DeletedIsHandled
  BY DEF Trace!Init, DeletedIsHandled
<1>. QED  BY <1>1, <1>3, <1>4 DEF TracerInv

LEMMA NextKeeps == TracerInv /\ [Trace!Next]_(Trace!vars) => TracerInv'
<1>. SUFFICES ASSUME TracerInv, [Trace!Next]_(Trace!vars) PROVE TracerInv'
  OBVIOUS
<1>. Trace!Idle \in ThreadOK /\ Trace!NULL \in 0..ops /\ ops \in Nat
  BY IdleType DEF TracerInv, Trace!TypeOK
<1>1. ASSUME NEW t \in Threads, NEW r \in Tracers, Trace!InitBegin(t, r)
      PROVE  TracerInv'
  <2>1. PICK given \in [all : BOOLEAN, forbid : SUBSET TracedLibs, filter : SUBSET TracedLibs, by : {r}],
             os \in {Trace!NULL, ops + 1} :
               /\ Trace!BeginOp(t, [Trace!Idle EXCEPT !.at = "lists", !.given = given, !.os = os])
               /\ isInited' = [isInited EXCEPT ![r] = TRUE]
               /\ isHookAll' = given.all /\ sink' = IF os # Trace!NULL THEN os ELSE sink
               /\ UNCHANGED <<forbidSoList, filterSoList>>
    BY <1>1 DEF Trace!InitBegin
  <2>2. given \in Trace!Settings
    BY DEF Trace!Settings
  <2>3. RestOK'
    BY <2>1 DEF TracerInv, Trace!TypeOK, RestOK, Trace!BeginOp, Trace!stream, Trace!hooks
  <2>. DEFINE f == [Trace!Idle EXCEPT !.at = "lists", !.given = given, !.os = os]
  <2>4. /\ f \in WideOK
        /\ f.at = "lists" /\ f.os \in {Trace!NULL, ops + 1}
    <3>1. Trace!Idle \in WideOK
      BY Widen
    <3>2. os \in 0..ops + 1
      BY DEF Trace!NULL
    <3>. QED  BY <2>2, <3>1, <3>2 DEF WideOK, AllPoints, Trace!InitPoints
  <2>5. Trace!BeginOp(t, f)
    BY <2>1
  <2>. HIDE DEF f
  <2>. QED  BY <2>3, <2>4, <2>5, BeginOpKeeps
<1>2. ASSUME NEW t \in Threads, Trace!StopBegin(t)
      PROVE  TracerInv'
  <2>1. RestOK'
    BY <1>2 DEF Trace!StopBegin, TracerInv, Trace!TypeOK, RestOK, Trace!BeginOp, Trace!stream, Trace!hooks, Trace!settings
  <2>. DEFINE f == [Trace!Idle EXCEPT !.at = "clear"]
  <2>2. /\ f \in WideOK
        /\ f.at = "clear" /\ f.os \in {Trace!NULL, ops + 1}
    <3>1. Trace!Idle \in WideOK /\ Trace!Idle.os = Trace!NULL
      BY Widen DEF Trace!Idle
    <3>. QED  BY <3>1 DEF WideOK, AllPoints, Trace!StopPoints
  <2>3. Trace!BeginOp(t, f)
    BY <1>2 DEF Trace!StopBegin
  <2>. HIDE DEF f
  <2>. QED  BY <2>1, <2>2, <2>3, BeginOpKeeps
<1>3. ASSUME NEW t \in Threads, NEW l \in TracedLibs, Trace!Call(t, l) \/ Trace!Load(t, l)
      PROVE  TracerInv'
  BY <1>3, BeginCallKeeps DEF Trace!Call, Trace!Load
<1>4. ASSUME NEW t \in Threads, Trace!OpStep(t) \/ Trace!CallStep(t)
      PROVE  TracerInv'
  <2>1. Trace!TypeOK'
    BY <1>4, StepType DEF TracerInv
  <2>. QED  BY <1>4, <2>1, OpKeeps, CallKeeps DEF TracerInv
<1>5. CASE UNCHANGED Trace!vars
  BY <1>5 DEF Trace!vars, Trace!settings, Trace!stream, Trace!hooks, Trace!history, TracerInv, Trace!TypeOK, Overlapped, StreamsAreNew,
              Brings, OpsHaveStreams, DeletedIsHandled, StillSaved
<1>. QED  BY <1>1, <1>2, <1>3, <1>4, <1>5 DEF Trace!Next

LEMMA TracerInvariance == Trace!Spec => []TracerInv
BY InitEstablishes, NextKeeps, PTL DEF Trace!Spec

\* The types; every stream that is used or deleted is one that an init brought.
THEOREM TracerTypeCorrect == Trace!Spec => []Trace!TypeOK
<1>1. TracerInv => Trace!TypeOK
  BY DEF TracerInv
<1>. QED  BY <1>1, TracerInvariance, PTL

\* A step of a traced call breaks something only if an init or a stop was under way
\* during that call.
LEMMA StepIsSafe == TracerInv /\ [Trace!Next]_(Trace!vars) => \A t \in Threads : Trace!CallStep(t) /\ broken' => th[t].over
<1>. SUFFICES ASSUME TracerInv, NEW t \in Threads, Trace!CallStep(t), broken', ~th[t].over
              PROVE  FALSE
  OBVIOUS
<1>1. CASE Trace!IsLister(t) \/ Trace!LoadAfter(t)
  BY <1>1 DEF Trace!IsLister, Trace!LoadAfter, Trace!Walking, Trace!At, Trace!ListPoints, TracerInv, Overlapped, Trace!InitPoints, Trace!StopPoints, Trace!CallPoints
<1>2. CASE Trace!Save(t)
  BY <1>2 DEF Trace!Save, Trace!At, TracerInv, StillSaved, DeletedIsHandled, Overlapped, Trace!InitPoints, Trace!StopPoints, Trace!CallPoints
<1>3. CASE Trace!TestSave(t) \/ Trace!CallEnd(t)
  BY <1>3 DEF Trace!TestSave, Trace!CallEnd, Trace!At
<1>. QED  BY <1>1, <1>2, <1>3 DEF Trace!CallStep

\* However many tracers, threads, inits and stops there are, and however they are
\* interleaved: a traced call is safe unless it meets an init or a stop.
THEOREM CallsSafe == Trace!Spec => CallsAreSafe
<1>1. TracerInv /\ [Trace!Next]_(Trace!vars) => [\A t \in Threads : Trace!CallStep(t) /\ broken' => th[t].over]_(Trace!vars)
  BY StepIsSafe
<1>. QED  BY <1>1, TracerInvariance, PTL DEF Trace!Spec, CallsAreSafe, Trace!CallsAreSafe
-----------------------------------------------------------------------------
(* Tracer: calls are traced, and libraries hooked, as the last init asked. *)

\* Without overlapping inits and stops there is one at a time, and when none is about to
\* change the lists the settings are those of the last.
Settled == ~mixed =>
    /\ \A t, u \in Threads : t \in Trace!Busy /\ u \in Trace!Busy => t = u
    /\ isHookAll = last.all
    /\ (\A t \in Threads : th[t].at \notin Trace!ListPoints) =>
         /\ forbidSoList = IF stopped THEN {} ELSE last.forbid
         /\ filterSoList = IF stopped THEN {} ELSE last.filter
    /\ \A t \in Threads : th[t].at = "lists" => ~stopped /\ th[t].given = last
    /\ \A t \in Threads : th[t].at = "clear" => stopped

\* Lines go to the stream of the last init that brought one, or are only logged.
SavesToSink ==
    /\ isSave <=> sink # Trace!NULL
    /\ sink # Trace!NULL => traceOs = sink

\* An init or a stop, alone, takes the stream there step by step.
Streamed == ~mixed =>
    /\ Trace!Busy = {} => SavesToSink
    /\ \A t \in Threads :
         /\ th[t].at = "lists" => IF th[t].os # Trace!NULL THEN sink = th[t].os ELSE SavesToSink
         /\ th[t].at \in {"save", "os"} => sink = th[t].os
         /\ th[t].at = "os" => isSave
         /\ th[t].at = "hook" => SavesToSink
         /\ th[t].at \in Trace!StopPoints => sink = Trace!NULL

\* What a quiet call has done so far is right.
Right(t) == ~th[t].over /\ ~mixed =>
    /\ th[t].at = "dropped" => ~Trace!Wanted(th[t].lib)
    /\ th[t].at \in {"write", "stream", "logged", "saved"} /\ th[t].asked => Trace!Wanted(th[t].lib)
    /\ th[t].at = "stream" => sink # Trace!NULL
    /\ th[t].at = "logged" => sink = Trace!NULL
    /\ th[t].at = "saved" => sink # Trace!NULL /\ traceOs = sink
    /\ th[t].at = "loaded" /\ ~stopped /\ th[t].lib \in last.filter => th[t].lib \in hookedLibs

Traced == \A t \in Threads : Right(t)

SettingsInv == TracerInv /\ Settled /\ Streamed /\ Traced

LEMMA SettingsInit == Trace!Init => Settled /\ Streamed /\ Traced
<1> SUFFICES ASSUME Trace!Init PROVE Settled /\ Streamed /\ Traced
  OBVIOUS
<1>1. \A t \in Threads : th[t].at = "idle"
  BY DEF Trace!Init, Trace!Idle
<1>2. /\ last.all = FALSE /\ last.forbid = {} /\ last.filter = {}
      /\ isHookAll = FALSE /\ forbidSoList = {} /\ filterSoList = {}
  BY DEF Trace!Init, Trace!NoSettings
<1>3. Settled
  BY <1>1, <1>2 DEF Settled, Trace!Busy, Trace!InitPoints, Trace!StopPoints, Trace!ListPoints
<1>4. Streamed
  BY <1>1 DEF Trace!Init, Streamed, SavesToSink, Trace!StopPoints
<1>5. Traced
  BY <1>1 DEF Traced, Right
<1> QED
  BY <1>3, <1>4, <1>5

\* The record of a thread after a step that moves it.
LEMMA GotoAt ==
  ASSUME Trace!TypeOK, NEW t \in Threads, NEW where, Trace!Goto(t, where)
  PROVE  /\ th'[t].at = where /\ th'[t].given = th[t].given /\ th'[t].os = th[t].os
         /\ th'[t].lib = th[t].lib /\ th'[t].over = th[t].over /\ th'[t].asked = th[t].asked
         /\ \A u \in Threads : u # t => th'[u] = th[u]
<1>1. th[t] \in ThreadOK /\ th \in [Threads -> ThreadOK]
  BY ThreadType, Parts
<1>2. th' = [th EXCEPT ![t] = [th[t] EXCEPT !.at = where]]
  BY DEF Trace!Goto
<1> DEFINE r == [th[t] EXCEPT !.at = where]
<1>3. /\ r.at = where /\ r.given = th[t].given /\ r.os = th[t].os
      /\ r.lib = th[t].lib /\ r.over = th[t].over /\ r.asked = th[t].asked
  BY <1>1 DEF ThreadOK
<1> HIDE DEF r
<1>4. th'[t] = r /\ \A u \in Threads : u # t => th'[u] = th[u]
  BY <1>1, <1>2 DEF r
<1> QED
  BY <1>3, <1>4

LEMMA FinishAt ==
  ASSUME Trace!TypeOK, NEW t \in Threads, Trace!Finish(t)
  PROVE  th'[t].at = "idle" /\ \A u \in Threads : u # t => th'[u] = th[u]
<1>1. th \in [Threads -> ThreadOK]
  BY Parts
<1>2. Trace!Idle.at = "idle"
  BY DEF Trace!Idle
<1> QED
  BY <1>1, <1>2 DEF Trace!Finish

\* A quiet call finds the settings and the stream of the last init.
LEMMA QuietSettings ==
  ASSUME TracerInv, Settled, Streamed, ~mixed,
         NEW t \in Threads, th[t].at \in Trace!CallPoints, ~th[t].over
  PROVE  /\ \A l : Trace!Listed(l) <=> Trace!Wanted(l)
         /\ ~stopped => filterSoList = last.filter
         /\ SavesToSink
<1>1. \A u \in Threads : th[u].at \notin Trace!InitPoints \union Trace!StopPoints
  BY DEF TracerInv, Overlapped
<1>2. /\ isHookAll = last.all
      /\ forbidSoList = IF stopped THEN {} ELSE last.forbid
      /\ filterSoList = IF stopped THEN {} ELSE last.filter
  BY <1>1 DEF Settled, Trace!ListPoints, Trace!InitPoints, Trace!StopPoints
<1>3. Trace!Busy = {}
  BY <1>1 DEF Trace!Busy
<1>4. ASSUME NEW l PROVE Trace!Listed(l) <=> Trace!Wanted(l)
  BY <1>2 DEF Trace!Listed, Trace!Wanted
<1> QED
  BY <1>2, <1>3, <1>4 DEF Streamed

\* A step of an init or a stop, and of a call, keeps the settings the last's.
LEMMA SettledStep ==
  ASSUME TracerInv, Settled, NEW t \in Threads, Trace!OpStep(t) \/ Trace!CallStep(t)
  PROVE  Settled'
<1>0. Trace!TypeOK
  BY DEF TracerInv
<1> USE DEF Trace!history
<1>1. CASE Trace!InitLists(t)
  <2>1. PICK where \in {"save", "hook"} : Trace!Goto(t, where)
    BY <1>1 DEF Trace!InitLists
  <2>2. th'[t].at = where /\ \A u \in Threads : u # t => th'[u] = th[u]
    BY <1>0, <2>1, GotoAt
  <2>3. th[t].at = "lists" /\ forbidSoList' = th[t].given.forbid
        /\ filterSoList' = th[t].given.filter
        /\ UNCHANGED <<isHookAll, last, stopped, mixed>>
    BY <1>1 DEF Trace!InitLists, Trace!At
  <2> QED
    BY <2>2, <2>3 DEF Settled, Trace!Busy, Trace!InitPoints, Trace!StopPoints, Trace!ListPoints
<1>2. CASE Trace!StopClear(t)
  <2>1. PICK where \in {"close", "unsave"} : Trace!Goto(t, where)
    BY <1>2 DEF Trace!StopClear, Trace!AfterClear
  <2>2. th'[t].at = where /\ \A u \in Threads : u # t => th'[u] = th[u]
    BY <1>0, <2>1, GotoAt
  <2>3. th[t].at = "clear" /\ forbidSoList' = {} /\ filterSoList' = {}
        /\ UNCHANGED <<isHookAll, last, stopped, mixed>>
    BY <1>2 DEF Trace!StopClear, Trace!At
  <2> QED
    BY <2>2, <2>3 DEF Settled, Trace!Busy, Trace!InitPoints, Trace!StopPoints, Trace!ListPoints
<1>3. CASE ~Trace!InitLists(t) /\ ~Trace!StopClear(t)
  <2>1. /\ UNCHANGED <<isHookAll, forbidSoList, filterSoList, last, stopped, mixed>>
        /\ \/ th[t].at \in {"save", "os", "hook", "close", "unsave"}
           \/ th[t].at \in Trace!CallPoints
    BY <1>3 DEF Trace!OpStep, Trace!CallStep, Trace!InitSave, Trace!InitOs, Trace!InitHook,
         Trace!StopClose, Trace!StopUnsave, Trace!IsLister, Trace!TestSave, Trace!Save,
         Trace!LoadAfter, Trace!CallEnd, Trace!At, Trace!settings, Trace!CallPoints
  <2>2. /\ \A u \in Threads : u # t => th'[u] = th[u]
        /\ th'[t].at \notin Trace!ListPoints
        /\ t \in Trace!Busy' => t \in Trace!Busy
    <3>1. \/ Trace!Finish(t)
          \/ th[t].at \in {"save", "os", "close"} /\ \E w \in {"os", "hook", "unsave"} : Trace!Goto(t, w)
          \/ \E w \in Trace!CallPoints : Trace!Goto(t, w)
      BY <1>3 DEF Trace!OpStep, Trace!CallStep, Trace!InitSave, Trace!InitOs, Trace!InitHook,
         Trace!StopClose, Trace!StopUnsave, Trace!IsLister, Trace!TestSave, Trace!Save,
         Trace!LoadAfter, Trace!CallEnd, Trace!At, Trace!CallPoints
    <3>2. CASE Trace!Finish(t)
      BY <1>0, <3>2, FinishAt DEF Trace!ListPoints, Trace!Busy, Trace!InitPoints, Trace!StopPoints
    <3>3. CASE th[t].at \in {"save", "os", "close"} /\ \E w \in {"os", "hook", "unsave"} : Trace!Goto(t, w)
      BY <1>0, <3>3, GotoAt DEF Trace!ListPoints, Trace!Busy, Trace!InitPoints, Trace!StopPoints
    <3>4. CASE \E w \in Trace!CallPoints : Trace!Goto(t, w)
      BY <1>0, <3>4, GotoAt DEF Trace!ListPoints, Trace!Busy, Trace!InitPoints, Trace!StopPoints,
                                Trace!CallPoints
    <3> QED
      BY <3>1, <3>2, <3>3, <3>4
  <2>3. th[t].at \notin Trace!ListPoints
    BY <2>1 DEF Trace!ListPoints, Trace!CallPoints
  <2>4. \A u \in Threads : u \in Trace!Busy' => u \in Trace!Busy
    BY <2>2 DEF Trace!Busy
  <2>5. \A u \in Threads : th'[u].at \in Trace!ListPoints <=> th[u].at \in Trace!ListPoints
    BY <2>2, <2>3
  <2> QED
    BY <2>1, <2>2, <2>3, <2>4, <2>5 DEF Settled, Trace!ListPoints
<1> QED
  BY <1>1, <1>2, <1>3

\* Where a step of an init or a stop leaves its thread, and what it leaves alone.
LEMMA OpMoves ==
  ASSUME TracerInv, NEW t \in Threads, Trace!OpStep(t)
  PROVE  /\ t \in Trace!Busy /\ th'[t].at \notin Trace!CallPoints
         /\ th'[t].at # "idle" => th'[t].os = th[t].os
         /\ \A u \in Threads : u # t => th'[u] = th[u]
         /\ UNCHANGED <<last, stopped, sink, mixed, hookedLibs>>
<1>1. /\ th[t].at \in Trace!InitPoints \union Trace!StopPoints
      /\ UNCHANGED <<last, stopped, sink, mixed, hookedLibs>>
  BY DEF Trace!OpStep, Trace!InitLists, Trace!InitSave, Trace!InitOs, Trace!InitHook, Trace!StopClear,
         Trace!StopClose, Trace!StopUnsave, Trace!At, Trace!InitPoints, Trace!StopPoints, Trace!hooks, Trace!history
<1>2. Trace!Finish(t) \/ \E w \in {"save", "os", "hook", "close", "unsave"} : Trace!Goto(t, w)
  BY DEF Trace!OpStep, Trace!InitLists, Trace!InitSave, Trace!InitOs, Trace!InitHook, Trace!StopClear,
         Trace!AfterClear, Trace!StopClose, Trace!StopUnsave
<1>3. Trace!TypeOK
  BY DEF TracerInv
<1>4. CASE Trace!Finish(t)
  <2>1. th'[t].at = "idle" /\ \A u \in Threads : u # t => th'[u] = th[u]
    BY <1>3, <1>4, FinishAt
  <2>. QED  BY <1>1, <2>1 DEF Trace!Busy, Trace!CallPoints
<1>5. ASSUME NEW w \in {"save", "os", "hook", "close", "unsave"}, Trace!Goto(t, w)
      PROVE  /\ th'[t].at \notin Trace!CallPoints /\ th'[t].os = th[t].os
             /\ \A u \in Threads : u # t => th'[u] = th[u]
  <2>1. th'[t].at = w /\ th'[t].os = th[t].os /\ \A u \in Threads : u # t => th'[u] = th[u]
    BY <1>3, <1>5, GotoAt
  <2>. QED  BY <2>1 DEF Trace!CallPoints
<1> QED
  BY <1>1, <1>2, <1>4, <1>5 DEF Trace!Busy

\* The same of a step of a call.
LEMMA CallMoves ==
  ASSUME TracerInv, NEW t \in Threads, Trace!CallStep(t)
  PROVE  /\ th[t].at \in Trace!CallPoints /\ th'[t].at \in Trace!CallPoints \union {"idle"}
         /\ \A u \in Threads : u # t => th'[u] = th[u]
         /\ UNCHANGED <<isSave, traceOs, last, stopped, sink, mixed>> /\ hookedLibs \subseteq hookedLibs'
<1>1. /\ th[t].at \in Trace!CallPoints
      /\ UNCHANGED <<isSave, traceOs, last, stopped, sink, mixed>> /\ hookedLibs \subseteq hookedLibs'
  BY DEF Trace!CallStep, Trace!IsLister, Trace!TestSave, Trace!Save, Trace!LoadAfter, Trace!CallEnd,
         Trace!At, Trace!CallPoints, Trace!hooks, Trace!stream, Trace!history
<1>2. Trace!Finish(t) \/ \E w \in Trace!CallPoints : Trace!Goto(t, w)
  BY DEF Trace!CallStep, Trace!IsLister, Trace!TestSave, Trace!Save, Trace!LoadAfter, Trace!CallEnd, Trace!CallPoints
<1> QED
  BY <1>1, <1>2, GotoAt, FinishAt DEF TracerInv

\* A step of an init or a stop that is alone brings the stream nearer to its place.
LEMMA StreamedOp ==
  ASSUME TracerInv, Settled, Streamed, NEW t \in Threads, Trace!OpStep(t)
  PROVE  Streamed'
<1>0. SUFFICES ASSUME ~mixed' PROVE Streamed'
  BY DEF Streamed
<1>1. /\ t \in Trace!Busy
      /\ th'[t].at # "idle" => th'[t].os = th[t].os
      /\ \A u \in Threads : u # t => th'[u] = th[u]
      /\ UNCHANGED <<sink, mixed>>
  BY OpMoves
<1>2. \A u \in Threads : u # t => th[u].at \notin Trace!InitPoints \union Trace!StopPoints
  BY <1>0, <1>1 DEF Settled, Trace!Busy
<1>3. SUFFICES /\ th'[t].at = "idle" => SavesToSink'
               /\ th'[t].at \notin {"lists", "clear"}
               /\ th'[t].at \in {"save", "os"} => sink = th'[t].os
               /\ th'[t].at = "os" => isSave'
               /\ th'[t].at = "hook" => SavesToSink'
               /\ th'[t].at \in {"close", "unsave"} => sink = Trace!NULL
               /\ th'[t].at \in {"idle", "save", "os", "hook", "close", "unsave"}
  <2>1. Trace!Busy' = {} => th'[t].at = "idle"
    BY <1>3 DEF Trace!Busy, Trace!InitPoints, Trace!StopPoints
  <2>2. \A u \in Threads : u # t => th'[u].at \notin {"lists", "save", "os", "hook"} \union Trace!StopPoints
    BY <1>1, <1>2 DEF Trace!InitPoints, Trace!StopPoints
  <2>. QED  BY <1>1, <1>3, <2>1, <2>2 DEF Streamed, Trace!StopPoints
<1>4. /\ th[t].at = "lists" => IF th[t].os # Trace!NULL THEN sink = th[t].os ELSE SavesToSink
      /\ th[t].at \in {"save", "os"} => sink = th[t].os
      /\ th[t].at = "os" => isSave
      /\ th[t].at = "hook" => SavesToSink
      /\ th[t].at \in Trace!StopPoints => sink = Trace!NULL
  BY <1>0, <1>1 DEF Streamed
<1>5. Trace!TypeOK /\ (th[t].at \in {"save", "os"} => th[t].os # Trace!NULL)
  BY DEF TracerInv, OpsHaveStreams
<1>6. CASE Trace!InitLists(t)
  <2>1. th[t].at = "lists" /\ UNCHANGED <<isSave, traceOs>>
    BY <1>6 DEF Trace!InitLists, Trace!At, Trace!stream
  <2>2. th'[t].at = IF th[t].os # Trace!NULL THEN "save" ELSE "hook"
    BY <1>5, <1>6, GotoAt DEF Trace!InitLists
  <2>. QED  BY <1>1, <1>4, <2>1, <2>2 DEF SavesToSink
<1>7. CASE Trace!InitSave(t)
  <2>1. th[t].at = "save" /\ isSave' /\ th'[t].at = "os"
    BY <1>5, <1>7, GotoAt DEF Trace!InitSave, Trace!At
  <2>. QED  BY <1>1, <1>4, <2>1
<1>8. CASE Trace!InitOs(t)
  <2>1. th[t].at = "os" /\ isSave' = isSave /\ traceOs' = th[t].os /\ th'[t].at = "hook"
    BY <1>5, <1>8, GotoAt DEF Trace!InitOs, Trace!At, Trace!SetStream
  <2>. QED  BY <1>1, <1>4, <1>5, <2>1 DEF SavesToSink
<1>9. CASE Trace!InitHook(t)
  <2>1. th[t].at = "hook" /\ UNCHANGED <<isSave, traceOs>> /\ th'[t].at = "idle"
    BY <1>5, <1>9, FinishAt DEF Trace!InitHook, Trace!At, Trace!stream
  <2>. QED  BY <1>1, <1>4, <2>1 DEF SavesToSink
<1>10. CASE Trace!StopClear(t) \/ Trace!StopClose(t)
  <2>1. th[t].at \in Trace!StopPoints
    BY <1>10 DEF Trace!StopClear, Trace!StopClose, Trace!At, Trace!StopPoints
  <2>2. PICK w \in {"close", "unsave"} : Trace!Goto(t, w)
    BY <1>10 DEF Trace!StopClear, Trace!StopClose, Trace!AfterClear
  <2>3. th'[t].at = w
    BY <1>5, <2>2, GotoAt
  <2>. QED  BY <1>4, <2>1, <2>3
<1>11. CASE Trace!StopUnsave(t)
  <2>1. th[t].at \in Trace!StopPoints /\ isSave' = FALSE /\ th'[t].at = "idle"
    BY <1>5, <1>11, FinishAt DEF Trace!StopUnsave, Trace!At, Trace!StopPoints, Trace!Unsaved
  <2>. QED  BY <1>1, <1>4, <2>1 DEF SavesToSink
<1> QED
  BY <1>6, <1>7, <1>8, <1>9, <1>10, <1>11 DEF Trace!OpStep

\* A step of which no init and no stop takes notice.
LEMMA StreamedRest ==
  ASSUME Streamed, UNCHANGED <<isSave, traceOs, sink, mixed>>,
         \A u \in Threads : \/ th'[u] = th[u]
                            \/ /\ th[u].at \notin Trace!InitPoints \union Trace!StopPoints
                               /\ th'[u].at \notin Trace!InitPoints \union Trace!StopPoints
  PROVE  Streamed'
<1>1. Trace!Busy' = Trace!Busy
  BY DEF Trace!Busy
<1>2. SavesToSink' <=> SavesToSink
  BY DEF SavesToSink
<1> QED
  BY <1>1, <1>2 DEF Streamed, Trace!InitPoints, Trace!StopPoints

LEMMA TracedStep ==
  ASSUME TracerInv, Settled, Streamed, Traced, NEW t \in Threads, Trace!CallStep(t)
  PROVE  Traced'
<1>0. Trace!TypeOK
  BY DEF TracerInv
<1>1. /\ th[t].at \in Trace!CallPoints
      /\ \A u \in Threads : u # t => th'[u] = th[u]
      /\ UNCHANGED <<isSave, traceOs, last, stopped, sink, mixed>> /\ hookedLibs \subseteq hookedLibs'
  BY CallMoves
<1>2. \A l : Trace!Wanted(l)' <=> Trace!Wanted(l)
  BY <1>1 DEF Trace!Wanted
<1>3. ASSUME NEW u \in Threads, u # t PROVE Right(u)'
  <2>1. Right(u)
    BY DEF Traced
  <2>2. th'[u] = th[u]
    BY <1>1, <1>3
  <2>. QED  BY <1>1, <1>2, <2>1, <2>2 DEF Right
<1>4. Right(t)'
  <2>1. CASE Trace!Finish(t)
    <3>1. th'[t].at = "idle"
      BY <1>0, <2>1, FinishAt
    <3>. QED  BY <3>1 DEF Right
  <2>2. CASE ~Trace!Finish(t)
    <3>1. PICK w : Trace!Goto(t, w)
      BY <2>2 DEF Trace!CallStep, Trace!IsLister, Trace!TestSave, Trace!Save, Trace!LoadAfter, Trace!CallEnd
    <3>2. /\ th'[t].at = w /\ th'[t].lib = th[t].lib /\ th'[t].over = th[t].over /\ th'[t].asked = th[t].asked
      BY <1>0, <3>1, GotoAt
    <3>3. SUFFICES ASSUME ~th[t].over, ~mixed PROVE Right(t)'
      BY <1>1, <3>2 DEF Right
    <3>4. Right(t)
      BY DEF Traced
    <3>5. /\ \A l : Trace!Listed(l) <=> Trace!Wanted(l)
          /\ ~stopped => filterSoList = last.filter
          /\ SavesToSink
      BY <1>1, <3>3, QuietSettings
    <3>6. isSave \in BOOLEAN
      BY <1>0 DEF Trace!TypeOK
    <3>7. CASE Trace!IsLister(t)
      <4>1. th[t].at = "match" /\ w \in {"write", "dropped"} /\ (w = "write" <=> Trace!Listed(th[t].lib))
        <5>1. th[t].at = "match" /\ Trace!Goto(t, IF Trace!Listed(th[t].lib) THEN "write" ELSE "dropped")
          BY <3>7 DEF Trace!IsLister, Trace!At
        <5>2. th'[t].at = IF Trace!Listed(th[t].lib) THEN "write" ELSE "dropped"
          BY <1>0, <5>1, GotoAt
        <5>. QED  BY <3>2, <5>1, <5>2
      <4>2. w = "write" <=> Trace!Wanted(th[t].lib)
        BY <3>5, <4>1
      <4>. QED  BY <1>2, <3>2, <4>1, <4>2 DEF Right
    <3>8. CASE Trace!TestSave(t)
      <4>1. th[t].at = "write" /\ w = IF isSave /\ traceOs # Trace!NULL THEN "stream" ELSE "logged"
        <5>1. th[t].at = "write" /\ Trace!Goto(t, IF isSave /\ traceOs # Trace!NULL THEN "stream" ELSE "logged")
          BY <3>8 DEF Trace!TestSave, Trace!At
        <5>2. th'[t].at = IF isSave /\ traceOs # Trace!NULL THEN "stream" ELSE "logged"
          BY <1>0, <5>1, GotoAt
        <5>. QED  BY <3>2, <5>1, <5>2
      <4>2. th[t].asked => Trace!Wanted(th[t].lib)
        BY <3>3, <3>4, <4>1 DEF Right
      <4>3. w = "stream" => sink # Trace!NULL
        BY <3>5, <4>1 DEF SavesToSink
      <4>4. w = "logged" => sink = Trace!NULL
        BY <3>5, <4>1 DEF SavesToSink
      <4>5. w \in {"stream", "logged"}
        BY <4>1
      <4>. QED  BY <1>1, <1>2, <3>2, <4>2, <4>3, <4>4, <4>5 DEF Right
    <3>9. CASE Trace!Save(t)
      <4>1. th[t].at = "stream" /\ w = "saved"
        BY <1>0, <3>2, <3>9, GotoAt DEF Trace!Save, Trace!At
      <4>2. sink # Trace!NULL /\ (th[t].asked => Trace!Wanted(th[t].lib))
        BY <3>3, <3>4, <4>1 DEF Right
      <4>3. traceOs = sink
        BY <3>5, <4>2 DEF SavesToSink
      <4>. QED  BY <1>1, <1>2, <3>2, <4>1, <4>2, <4>3 DEF Right
    <3>10. CASE Trace!LoadAfter(t)
      <4>1. w = "loaded" /\ hookedLibs' = hookedLibs \union (filterSoList \intersect {th[t].lib})
        BY <1>0, <3>2, <3>10, GotoAt DEF Trace!LoadAfter, Trace!ToHook
      <4>2. ~stopped /\ th[t].lib \in last.filter => th[t].lib \in hookedLibs'
        BY <3>5, <4>1
      <4>. QED  BY <1>1, <3>2, <4>1, <4>2 DEF Right
    <3>. QED  BY <2>2, <3>7, <3>8, <3>9, <3>10 DEF Trace!CallStep, Trace!CallEnd
  <2>. QED  BY <2>1, <2>2
<1> QED
  BY <1>3, <1>4 DEF Traced

\* Next to an init or a stop there is no quiet call.
LEMMA TracedOp ==
  ASSUME TracerInv, NEW t \in Threads, Trace!OpStep(t)
  PROVE  Traced'
<1>1. /\ t \in Trace!Busy /\ th'[t].at \notin Trace!CallPoints
      /\ \A u \in Threads : u # t => th'[u] = th[u]
  BY OpMoves
<1>2. \A u \in Threads : th[u].at \in Trace!CallPoints => th[u].over
  BY <1>1 DEF TracerInv, Overlapped, Trace!Busy
<1>3. \A u \in Threads : th'[u].at \in Trace!CallPoints => th'[u].over
  BY <1>1, <1>2
<1> QED
  BY <1>3 DEF Traced, Right, Trace!CallPoints

\* An init or a stop begins.
LEMMA BeginAt ==
  ASSUME Trace!TypeOK, NEW t \in Threads, NEW f, Trace!BeginOp(t, f)
  PROVE  /\ th'[t] = f /\ th[t].at = "idle"
         /\ \A u \in Threads : u # t =>
              /\ th'[u].at = th[u].at /\ th'[u].given = th[u].given
              /\ th[u].at \in Trace!CallPoints => th'[u].over
<1>1. ASSUME NEW u \in Threads, u # t
      PROVE  /\ th'[u].at = th[u].at /\ th'[u].given = th[u].given
             /\ th[u].at \in Trace!CallPoints => th'[u].over
  <2>1. th[u] \in ThreadOK
    BY ThreadType
  <2> DEFINE r == [th[u] EXCEPT !.over = TRUE]
  <2>2. r.at = th[u].at /\ r.given = th[u].given /\ r.over
    BY <2>1 DEF ThreadOK
  <2>3. th'[u] = IF u \in Trace!Traced THEN r ELSE th[u]
    BY <1>1 DEF Trace!BeginOp
  <2>4. th[u].at \in Trace!CallPoints => u \in Trace!Traced
    BY DEF Trace!Traced, Trace!CallPoints, Trace!InitPoints, Trace!StopPoints
  <2> HIDE DEF r
  <2> QED
    BY <2>2, <2>3, <2>4
<1> QED
  BY <1>1 DEF Trace!BeginOp, Trace!At

LEMMA SettledBegin ==
  ASSUME TracerInv, Settled, NEW t \in Threads, NEW f, Trace!BeginOp(t, f),
         ~mixed' => Trace!Busy = {} /\ isHookAll' = last'.all,
         (f.at = "lists" /\ ~stopped' /\ f.given = last') \/ (f.at = "clear" /\ stopped')
  PROVE  Settled' /\ Traced'
<1>1. /\ th'[t] = f /\ th[t].at = "idle"
      /\ \A u \in Threads : u # t =>
           /\ th'[u].at = th[u].at /\ th'[u].given = th[u].given
           /\ th[u].at \in Trace!CallPoints => th'[u].over
  BY BeginAt DEF TracerInv
<1>2. Settled'
  <2> SUFFICES ASSUME ~mixed'
               PROVE  /\ \A v, u \in Threads : v \in Trace!Busy' /\ u \in Trace!Busy' => v = u
                      /\ isHookAll' = last'.all
                      /\ th'[t].at \in Trace!ListPoints
                      /\ \A u \in Threads : th'[u].at = "lists" => ~stopped' /\ th'[u].given = last'
                      /\ \A u \in Threads : th'[u].at = "clear" => stopped'
    BY DEF Settled
  <2>1. \A u \in Threads : u # t => th'[u].at \notin Trace!InitPoints \union Trace!StopPoints
    BY <1>1 DEF Trace!Busy
  <2>2. th'[t].at \in Trace!ListPoints
    BY <1>1 DEF Trace!ListPoints
  <2>3. \A u \in Trace!Busy' : u = t
    BY <2>1 DEF Trace!Busy
  <2>4. \A u \in Threads : th'[u].at \in {"lists", "clear"} => u = t
    BY <2>1 DEF Trace!InitPoints, Trace!StopPoints
  <2> QED
    BY <2>2, <2>3, <2>4, <1>1
<1>3. Traced'
  <2>1. \A u \in Threads : th'[u].at \in Trace!CallPoints => th'[u].over
    BY <1>1 DEF Trace!CallPoints
  <2> QED
    BY <2>1 DEF Traced, Right, Trace!CallPoints
<1> QED
  BY <1>2, <1>3

LEMMA StreamedBegin ==
  ASSUME TracerInv, Streamed, NEW t \in Threads, NEW f, Trace!BeginOp(t, f),
         ~mixed' => Trace!Busy = {},
         \/ /\ f.at = "lists" /\ sink' = IF f.os # Trace!NULL THEN f.os ELSE sink
            /\ mixed /\ f.os = Trace!NULL => mixed'
         \/ f.at = "clear" /\ sink' = Trace!NULL
  PROVE  Streamed'
<1>1. SUFFICES ASSUME ~mixed' PROVE Streamed'
  BY DEF Streamed
<1>2. th'[t] = f /\ \A u \in Threads : u # t => th'[u].at = th[u].at
  BY BeginAt DEF TracerInv
<1>3. \A u \in Threads : u # t => th'[u].at \notin Trace!InitPoints \union Trace!StopPoints
  BY <1>1, <1>2 DEF Trace!Busy
<1>4. Trace!Busy' # {}
  BY <1>2 DEF Trace!Busy, Trace!InitPoints, Trace!StopPoints
<1>5. f.at = "lists" => IF f.os # Trace!NULL THEN sink' = f.os ELSE SavesToSink'
  <2>1. SUFFICES ASSUME f.at = "lists", f.os = Trace!NULL PROVE SavesToSink'
    OBVIOUS
  <2>2. ~mixed /\ sink' = sink
    BY <1>1, <2>1
  <2>3. SavesToSink
    BY <1>1, <2>2 DEF Streamed
  <2>4. UNCHANGED <<isSave, traceOs>>
    BY DEF Trace!BeginOp, Trace!stream
  <2>. QED  BY <2>2, <2>3, <2>4 DEF SavesToSink
<1>6. \A u \in Threads : u # t =>
        th'[u].at \notin {"lists", "save", "os", "hook"} /\ th'[u].at \notin Trace!StopPoints
  BY <1>3 DEF Trace!InitPoints
<1>7. th'[t].at \in {"lists", "clear"} /\ (th'[t].at = "clear" => sink' = Trace!NULL)
  BY <1>2
<1> QED
  BY <1>2, <1>4, <1>5, <1>6, <1>7 DEF Streamed, Trace!StopPoints

LEMMA SettledCall ==
  ASSUME TracerInv, Settled, Streamed, Traced, NEW t \in Threads, NEW l, NEW where, NEW asked,
         where \in {"match", "load"} \/ (where = "write" /\ ~asked),
         Trace!BeginCall(t, l, where, asked)
  PROVE  Settled' /\ Streamed' /\ Traced'
<1> DEFINE f == [Trace!Idle EXCEPT !.at = where, !.lib = l, !.over = Trace!Busy # {}, !.asked = asked]
<1>1. f.at = where /\ f.asked = asked
  BY DEF Trace!Idle
<1>2. th \in [Threads -> ThreadOK]
  BY Parts DEF TracerInv
<1>3. /\ th' = [th EXCEPT ![t] = f] /\ th[t].at = "idle"
      /\ UNCHANGED <<isHookAll, forbidSoList, filterSoList, hookedLibs, isSave, traceOs,
                     last, stopped, sink, mixed>>
  BY DEF Trace!BeginCall, Trace!At, Trace!settings, Trace!hooks, Trace!stream, Trace!history
<1> HIDE DEF f
<1>4. th'[t] = f /\ \A u \in Threads : u # t => th'[u] = th[u]
  BY <1>2, <1>3
<1>5. /\ th'[t].at \notin Trace!ListPoints \union Trace!InitPoints \union Trace!StopPoints
      /\ th'[t].at \in {"match", "load", "write"} /\ (th'[t].at = "write" => ~th'[t].asked)
      /\ th[t].at \notin Trace!ListPoints \union Trace!InitPoints \union Trace!StopPoints
  BY <1>1, <1>3, <1>4 DEF Trace!ListPoints, Trace!InitPoints, Trace!StopPoints
<1>6. \A u \in Threads : u \in Trace!Busy' => u \in Trace!Busy
  BY <1>4, <1>5 DEF Trace!Busy
<1>7. \A u \in Threads : th'[u].at \in Trace!ListPoints <=> th[u].at \in Trace!ListPoints
  BY <1>4, <1>5
<1>8. \A u \in Threads : th'[u].at \in {"lists", "clear"} => th'[u] = th[u]
  BY <1>4, <1>5 DEF Trace!ListPoints
<1>9. Settled'
  BY <1>3, <1>6, <1>7, <1>8 DEF Settled
<1>10. Streamed'
  BY <1>3, <1>4, <1>5, StreamedRest
<1>11. ASSUME NEW u \in Threads PROVE Right(u)'
  <2>1. CASE u = t
    BY <1>5, <2>1 DEF Right
  <2>2. CASE u # t
    <3>1. Right(u) /\ th'[u] = th[u]
      BY <1>4, <2>2 DEF Traced
    <3>2. \A k : Trace!Wanted(k)' <=> Trace!Wanted(k)
      BY <1>3 DEF Trace!Wanted
    <3>. QED  BY <1>3, <3>1, <3>2 DEF Right
  <2>. QED  BY <2>1, <2>2
<1> QED
  BY <1>9, <1>10, <1>11 DEF Traced

LEMMA SettingsNext == SettingsInv /\ [Trace!Next]_(Trace!vars) => Settled' /\ Streamed' /\ Traced'
<1> SUFFICES ASSUME TracerInv, Settled, Streamed, Traced, [Trace!Next]_(Trace!vars)
             PROVE  Settled' /\ Streamed' /\ Traced'
  BY DEF SettingsInv
<1>1. ASSUME NEW t \in Threads, NEW r \in Tracers, Trace!InitBegin(t, r)
      PROVE  Settled' /\ Streamed' /\ Traced'
  <2>1. PICK given \in [all : BOOLEAN, forbid : SUBSET TracedLibs, filter : SUBSET TracedLibs, by : {r}],
             os \in {Trace!NULL, ops + 1} :
          /\ Trace!BeginOp(t, [Trace!Idle EXCEPT !.at = "lists", !.given = given, !.os = os])
          /\ isHookAll' = given.all /\ last' = given /\ stopped' = FALSE
          /\ sink' = IF os # Trace!NULL THEN os ELSE sink
          /\ mixed' = (Trace!Busy # {} \/ (mixed /\ os = Trace!NULL))
    BY <1>1 DEF Trace!InitBegin
  <2> DEFINE f == [Trace!Idle EXCEPT !.at = "lists", !.given = given, !.os = os]
  <2>2. f.at = "lists" /\ f.given = given /\ f.os = os
    BY DEF Trace!Idle
  <2>3. Trace!BeginOp(t, f)
    BY <2>1
  <2> HIDE DEF f
  <2>4. Settled' /\ Traced'
    BY <2>1, <2>2, <2>3, SettledBegin
  <2>5. Streamed'
    BY <2>1, <2>2, <2>3, StreamedBegin
  <2> QED
    BY <2>4, <2>5
<1>2. ASSUME NEW t \in Threads, Trace!StopBegin(t) PROVE Settled' /\ Streamed' /\ Traced'
  <2> DEFINE f == [Trace!Idle EXCEPT !.at = "clear"]
  <2>1. f.at = "clear"
    BY DEF Trace!Idle
  <2>2. /\ Trace!BeginOp(t, f) /\ stopped' /\ isHookAll' = isHookAll /\ last' = last
        /\ sink' = Trace!NULL /\ mixed' = (mixed \/ Trace!Busy # {})
    BY <1>2 DEF Trace!StopBegin, Trace!settings
  <2> HIDE DEF f
  <2>3. ~mixed' => Trace!Busy = {} /\ isHookAll' = last'.all
    BY <2>2 DEF Settled
  <2>4. Settled' /\ Traced'
    BY <2>1, <2>2, <2>3, SettledBegin
  <2>5. Streamed'
    BY <2>1, <2>2, <2>3, StreamedBegin
  <2> QED
    BY <2>4, <2>5
<1>3. ASSUME NEW t \in Threads, NEW l \in TracedLibs, Trace!Call(t, l) \/ Trace!Load(t, l)
      PROVE  Settled' /\ Streamed' /\ Traced'
  BY <1>3, SettledCall DEF Trace!Call, Trace!Load
<1>4. ASSUME NEW t \in Threads, Trace!OpStep(t)
      PROVE  Settled' /\ Streamed' /\ Traced'
  BY <1>4, SettledStep, StreamedOp, TracedOp
<1>5. ASSUME NEW t \in Threads, Trace!CallStep(t)
      PROVE  Settled' /\ Streamed' /\ Traced'
  <2>1. Settled' /\ Traced'
    BY <1>5, SettledStep, TracedStep
  <2>2. /\ \A u \in Threads : u # t => th'[u] = th[u]
        /\ UNCHANGED <<isSave, traceOs, sink, mixed>>
        /\ th[t].at \in Trace!CallPoints /\ th'[t].at \in Trace!CallPoints \union {"idle"}
    BY <1>5, CallMoves
  <2>3. \A w \in Trace!CallPoints \union {"idle"} : w \notin Trace!InitPoints \union Trace!StopPoints
    BY DEF Trace!CallPoints, Trace!InitPoints, Trace!StopPoints
  <2>4. Streamed'
    BY <2>2, <2>3, StreamedRest
  <2> QED
    BY <2>1, <2>4
<1>6. CASE UNCHANGED Trace!vars
  <2>1. /\ UNCHANGED <<th, isHookAll, forbidSoList, filterSoList, isSave, traceOs, hookedLibs>>
        /\ UNCHANGED <<last, stopped, sink, mixed>>
    BY <1>6 DEF Trace!vars, Trace!settings, Trace!stream, Trace!hooks, Trace!history
  <2>2. Settled'
    BY <2>1 DEF Settled, Trace!Busy
  <2>3. Streamed'
    BY <2>1, StreamedRest
  <2>4. Traced'
    BY <2>1 DEF Traced, Right, Trace!Wanted
  <2> QED
    BY <2>2, <2>3, <2>4
<1> QED
  BY <1>1, <1>2, <1>3, <1>4, <1>5, <1>6 DEF Trace!Next

LEMMA RightIsTraced == Traced => TracedAsSet
  BY DEF Traced, Right, TracedAsSet, Trace!TracedAsSet

\* A line is written exactly for the libraries that the last init asked for, and goes to
\* the stream of the last init that brought one, or to none after a stop; a library that
\* was named is hooked when it is loaded: for any threads, tracers, libraries and
\* settings, as long as inits and stops do not overlap the call, nor each other since an
\* init that brought a stream began alone.
THEOREM TracedRight == Trace!Spec => []TracedAsSet
<1>1. Trace!Init => SettingsInv
  BY InitEstablishes, SettingsInit DEF SettingsInv
<1>2. SettingsInv /\ [Trace!Next]_(Trace!vars) => SettingsInv'
  BY NextKeeps, SettingsNext DEF SettingsInv
<1>3. SettingsInv => TracedAsSet
  BY RightIsTraced DEF SettingsInv
<1> QED
  BY <1>1, <1>2, <1>3, PTL DEF Trace!Spec

HIDE DEF Trace!EndPoints
-----------------------------------------------------------------------------
(* MapsHide *)
-----------------------------------------------------------------------------
(* MapsHide *)

Modes == {"r", "w", "x"}
Mappings == [is : {"none", "other", "lib", "anon"}, perm : SUBSET Modes, data : Nat]
HidePoints == {"backup", "copy", "unmap", "map", "writable", "restore", "readonly"}
HeaderPoints == {"header", "protect", "clear", "perms"}
HolePoints == {"map", "writable", "restore"}
Hiders == [op : {"no", "hide", "header"}, at : {"idle", "next"} \union HidePoints \union HeaderPoints,
           a : Nat, todo : SUBSET Ranges, backup : Nat]

\* The hider works on a.
On(a) == hider.a = a /\ hider.at \in HidePoints \union HeaderPoints

HideType ==
    /\ mem \in [Ranges -> Mappings] /\ snap \in [Ranges -> Mappings]
    /\ want \in [Ranges -> Nat \ {0}]
    /\ hider \in Hiders
    /\ hider.at \in HidePoints \union HeaderPoints => hider.a \in Ranges /\ hider.a \notin hider.todo
    /\ hider.at \in HidePoints => hider.op = "hide"
    /\ hider.at = "idle" => hider.todo = {}
    /\ crashed \in {"no", "hider", "app"} /\ unloaded \in BOOLEAN
    /\ failed \in BOOLEAN /\ taken \in BOOLEAN /\ hurt \in BOOLEAN
    /\ lost \subseteq Ranges /\ hidden \subseteq Ranges

\* An unloaded library does not come back, and nothing is protected where nothing is.
Gone ==
    /\ unloaded => \A a \in Ranges : mem[a].is # "lib"
    /\ \A a \in Ranges : mem[a].is = "none" => mem[a].perm = {}

\* Without other memory in a hole, other memory came to an unloaded library's place,
\* and is not on the list.
Foreign == ~taken /\ (\E a \in Ranges : mem[a].is = "other") =>
    unloaded /\ hider.at \in {"idle", "next"} /\ hider.todo = {}

\* The only hole is the one that the hider made.
Holes == crashed = "no" /\ ~unloaded /\ ~taken =>
    \A a \in Ranges : mem[a].is = "none" => On(a) /\ hider.at \in HolePoints

\* What is on the list is the library's, as it was; the protection is given back.
Listed == crashed = "no" /\ ~failed /\ ~unloaded =>
    /\ \A a \in Ranges : a \in hider.todo \/ (On(a) /\ hider.at \in {"backup", "copy", "unmap"} \union HeaderPoints) =>
         mem[a].is = "lib" /\ (hider.op = "hide" => "r" \in Perm[a])
    /\ \A a \in Ranges : a \in hider.todo \/ On(a) => snap[a].perm = Perm[a]
    /\ \A a \in Ranges : mem[a].is = "lib" /\ ~(On(a) /\ hider.at \in {"clear", "perms"}) =>
         mem[a].perm = Perm[a]
    /\ hider.at = "copy" => hider.backup = 0
    /\ hider.at \in HolePoints \union {"readonly"} => mem[hider.a].is # "lib"
    /\ hider.at \in {"restore", "readonly"} => mem[hider.a].perm = Perm[hider.a] \union {"w"}
    /\ hider.at \in {"clear", "perms"} => mem[hider.a].perm = Modes

\* The contents d of a are those that the application knows, and no zeros.
Known(a, d) == d # 0 /\ (a \notin lost => d = want[a])

\* What the hider does not work on is as it was or anonymous, what it works on is
\* what it has made of it so far.
Kept == crashed = "no" /\ ~failed /\ ~unloaded /\ ~taken =>
    /\ \A a \in Ranges : ~(On(a) /\ hider.at \in HolePoints) =>
         /\ mem[a].is \in {"lib", "anon"} /\ Known(a, mem[a].data)
         /\ ~(On(a) /\ hider.at \in {"readonly", "clear", "perms"}) => mem[a].perm = Perm[a]
         /\ a \in hidden => mem[a].is = "anon"
    /\ hider.at = "map" => mem[hider.a].is = "none"
    /\ hider.at \in {"writable", "restore", "readonly"} => mem[hider.a].is = "anon"
    /\ hider.at \in {"unmap"} \union HolePoints => Known(hider.a, hider.backup)

HideInv == HideType /\ Gone /\ Foreign /\ Holes /\ Listed /\ Kept /\ Hide!CrashesAreExplained
-----------------------------------------------------------------------------
\* What a system call of the hider does.
LEMMA HideSyscall ==
  ASSUME HideType, hider.a \in Ranges, NEW ok \in BOOLEAN, NEW m \in Mappings, Hide!Syscall(ok, m)
  PROVE  /\ mem' \in [Ranges -> Mappings]
         /\ \A b \in Ranges : b # hider.a => mem'[b] = mem[b]
         /\ mem'[hider.a] = IF ok THEN m ELSE mem[hider.a]
         /\ failed' \in BOOLEAN /\ (~failed' => ok /\ ~failed)
         /\ hurt' \in BOOLEAN /\ (hurt' => hurt \/ mem[hider.a].is = "other")
<1>. hurt \in BOOLEAN /\ failed \in BOOLEAN /\ mem \in [Ranges -> Mappings]
  BY DEF HideType
<1>1. CASE ok
  BY <1>1 DEF Hide!Syscall, Hide!A
<1>2. CASE ~ok
  BY <1>2 DEF Hide!Syscall, Hide!A
<1>. QED
  BY <1>1, <1>2

\* How the hider goes on.
HideGoes(where) ==
    /\ hider' \in Hiders
    /\ hider'.at = where /\ hider'.op = hider.op /\ hider'.a = hider.a
    /\ hider'.todo = hider.todo /\ hider'.backup = hider.backup

LEMMA HideGoto ==
  ASSUME HideType, NEW where \in {"next"} \union HidePoints \union HeaderPoints, Hide!Goto(where)
  PROVE  HideGoes(where)
  BY DEF HideType, Hide!Goto, HideGoes, Hiders

LEMMA HideUnmap == ASSUME HideInv, Hide!Unmap PROVE HideInv'
<1>1. HideType /\ hider.at = "unmap" /\ hider.a \in Ranges /\ hider.op = "hide" /\ hider.a \notin hider.todo
      /\ crashed = "no" /\ "map" \in {"next"} \union HidePoints \union HeaderPoints
  BY DEF HideInv, HideType, Hide!Unmap, Hide!At, HidePoints
<1>2. HideGoes("map")
  BY <1>1, HideGoto DEF Hide!Unmap
<1>3. Hide!None \in Mappings /\ Hide!None.is = "none" /\ Hide!None.perm = {}
  BY DEF Hide!None, Mappings, Hide!Zeros
<1>4. PICK ok \in BOOLEAN : Hide!Syscall(ok, Hide!None)
  BY DEF Hide!Unmap, Hide!MayFail
<1>5. /\ mem' \in [Ranges -> Mappings]
      /\ \A b \in Ranges : b # hider.a => mem'[b] = mem[b]
      /\ mem'[hider.a] = IF ok THEN Hide!None ELSE mem[hider.a]
      /\ failed' \in BOOLEAN /\ (~failed' => ok /\ ~failed)
      /\ hurt' \in BOOLEAN /\ (hurt' => hurt \/ mem[hider.a].is = "other")
  BY <1>1, <1>3, <1>4, HideSyscall
<1>6. UNCHANGED <<want, unloaded, taken, lost, snap, crashed, hidden>>
  BY DEF Hide!Unmap, Hide!world
<1>. HIDE DEF Hide!None
<1>7. HideType'
  BY <1>1, <1>2, <1>5, <1>6 DEF HideType, HideGoes, HidePoints, HeaderPoints
<1>8. Gone'
  BY <1>1, <1>3, <1>5, <1>6 DEF HideInv, Gone
<1>9. Foreign'
  BY <1>1, <1>2, <1>3, <1>5, <1>6 DEF HideInv, Foreign
<1>10. Holes'
  BY <1>1, <1>2, <1>3, <1>5, <1>6 DEF HideInv, Holes, HideGoes, On, HolePoints, HidePoints, HeaderPoints
<1>11. Listed'
  BY <1>1, <1>2, <1>3, <1>5, <1>6 DEF HideInv, Listed, HideGoes, On, HolePoints, HidePoints, HeaderPoints
<1>12. Kept'
  BY <1>1, <1>2, <1>3, <1>5, <1>6 DEF HideInv, Kept, HideGoes, On, HolePoints, HidePoints, HeaderPoints, Known
<1>13. Hide!CrashesAreExplained'
  BY <1>1, <1>2, <1>5, <1>6 DEF HideInv, Foreign, Hide!CrashesAreExplained, HideGoes, Hide!A
<1>. QED
  BY <1>7, <1>8, <1>9, <1>10, <1>11, <1>12, <1>13 DEF HideInv

LEMMA HideMap == ASSUME HideInv, Hide!Map PROVE HideInv'
<1>1. HideType /\ hider.at = "map" /\ hider.a \in Ranges /\ hider.op = "hide" /\ hider.a \notin hider.todo
      /\ crashed = "no" /\ "writable" \in {"next"} \union HidePoints \union HeaderPoints
  BY DEF HideInv, HideType, Hide!Map, Hide!At, HidePoints, HeaderPoints
<1>2. HideGoes("writable")
  BY <1>1, HideGoto DEF Hide!Map
<1> DEFINE m == IF mem[hider.a].is = "none" THEN Hide!Anonymous(hider.a) ELSE mem[hider.a]
<1>3. m \in Mappings /\ m.is # "none"
      /\ m = IF mem[hider.a].is = "none" THEN [is |-> "anon", perm |-> snap[hider.a].perm, data |-> 0] ELSE mem[hider.a]
  <2>1. mem[hider.a] \in Mappings /\ snap[hider.a] \in Mappings
    BY <1>1 DEF HideType
  <2>. QED
    BY <2>1 DEF Mappings, Hide!Anonymous, Hide!Zeros
<1>4. PICK ok \in BOOLEAN : Hide!Syscall(ok, m)
  BY DEF Hide!Map, Hide!MayFail, Hide!A
<1>. HIDE DEF m
<1>5. /\ mem' \in [Ranges -> Mappings]
      /\ \A b \in Ranges : b # hider.a => mem'[b] = mem[b]
      /\ mem'[hider.a] = IF ok THEN m ELSE mem[hider.a]
      /\ failed' \in BOOLEAN /\ (~failed' => ok /\ ~failed)
      /\ hurt' \in BOOLEAN /\ (hurt' => hurt \/ mem[hider.a].is = "other")
  BY <1>1, <1>3, <1>4, HideSyscall
<1>6. UNCHANGED <<want, unloaded, taken, lost, snap, crashed, hidden>>
  BY DEF Hide!Map, Hide!world
<1>7. HideType'
  BY <1>1, <1>2, <1>3, <1>4, <1>5, <1>6 DEF HideType, HideGoes, HidePoints, HeaderPoints
<1>8. Gone'
  BY <1>1, <1>2, <1>3, <1>4, <1>5, <1>6 DEF HideInv, Gone
<1>9. Foreign'
  BY <1>1, <1>2, <1>3, <1>4, <1>5, <1>6 DEF HideInv, Foreign, HideGoes
<1>10. Holes'
  BY <1>1, <1>2, <1>3, <1>4, <1>5, <1>6 DEF HideInv, Holes, HideGoes, On, HolePoints, HidePoints, HeaderPoints
<1>11. Listed'
  <2>1. CASE ~(crashed' = "no" /\ ~failed' /\ ~unloaded')
    BY <2>1 DEF Listed
  <2>2. CASE crashed' = "no" /\ ~failed' /\ ~unloaded'
    <3>1. crashed = "no" /\ ~failed /\ ~unloaded /\ Listed
      BY <1>1, <2>2, <1>2, <1>3, <1>5, <1>6 DEF HideInv
    <3>2. \A b \in Ranges : b \in hider'.todo =>
            /\ mem'[b].is = "lib" /\ (hider'.op = "hide" => "r" \in Perm[b]) /\ snap'[b].perm = Perm[b]
      BY <1>1, <3>1, <1>2, <1>3, <1>5, <1>6 DEF Listed, HideGoes, On, HolePoints, HidePoints, HeaderPoints
    <3>3. \A b \in Ranges : mem'[b].is = "lib" => mem'[b].perm = Perm[b]
      BY <1>1, <2>2, <3>1, <1>2, <1>3, <1>5, <1>6 DEF Listed, HideGoes, On, HolePoints, HidePoints, HeaderPoints
    <3>4. snap[hider.a].perm = Perm[hider.a]
      BY <1>1, <3>1 DEF Listed, On, HidePoints
    <3>5. mem'[hider.a].is # "lib"
      BY <1>1, <1>3, <1>5, <2>2, <3>1, <3>4 DEF Listed, HolePoints
    <3>. QED
      BY <1>1, <3>2, <3>3, <3>4, <3>5, <1>2, <1>3, <1>5, <1>6 DEF Listed, HideGoes, On, HolePoints, HidePoints, HeaderPoints
  <2>. QED
    BY <2>1, <2>2
<1>12. Kept'
  BY <1>1, <1>2, <1>3, <1>4, <1>5, <1>6 DEF HideInv, Listed, Kept, HideGoes, On, HolePoints, HidePoints, HeaderPoints, Known
<1>13. Hide!CrashesAreExplained'
  BY <1>1, <1>2, <1>3, <1>4, <1>5, <1>6 DEF HideInv, Foreign, Hide!CrashesAreExplained, HideGoes, Hide!A
<1>. QED
  BY <1>7, <1>8, <1>9, <1>10, <1>11, <1>12, <1>13 DEF HideInv

LEMMA HideWritable == ASSUME HideInv, Hide!Writable PROVE HideInv'
<1>1. HideType /\ hider.at = "writable" /\ hider.a \in Ranges /\ hider.op = "hide" /\ hider.a \notin hider.todo
      /\ crashed = "no" /\ "restore" \in {"next"} \union HidePoints \union HeaderPoints
  BY DEF HideInv, HideType, Hide!Writable, Hide!At, HidePoints, HeaderPoints
<1>2. HideGoes("restore")
  BY <1>1, HideGoto DEF Hide!Writable
<1> DEFINE m == [mem[hider.a] EXCEPT !.perm = Hide!ForCopy(snap[hider.a].perm)]
<1>3. m \in Mappings /\ m.is = mem[hider.a].is
      /\ m.perm = snap[hider.a].perm \union {"w"} /\ m.data = mem[hider.a].data
  <2>1. mem[hider.a] \in Mappings /\ snap[hider.a] \in Mappings
    BY <1>1 DEF HideType
  <2>. QED
    BY <2>1 DEF Mappings, Modes, Hide!ForCopy
<1>4. PICK ok \in BOOLEAN : Hide!Syscall(ok, m) /\ (ok => mem[hider.a].is # "none")
  BY DEF Hide!Writable, Hide!MayFail, Hide!A
<1>. HIDE DEF m
<1>5. /\ mem' \in [Ranges -> Mappings]
      /\ \A b \in Ranges : b # hider.a => mem'[b] = mem[b]
      /\ mem'[hider.a] = IF ok THEN m ELSE mem[hider.a]
      /\ failed' \in BOOLEAN /\ (~failed' => ok /\ ~failed)
      /\ hurt' \in BOOLEAN /\ (hurt' => hurt \/ mem[hider.a].is = "other")
  BY <1>1, <1>3, <1>4, HideSyscall
<1>6. UNCHANGED <<want, unloaded, taken, lost, snap, crashed, hidden>>
  BY DEF Hide!Writable, Hide!world
<1>7. HideType'
  BY <1>1, <1>2, <1>3, <1>4, <1>5, <1>6 DEF HideType, HideGoes, HidePoints, HeaderPoints
<1>8. Gone'
  BY <1>1, <1>2, <1>3, <1>4, <1>5, <1>6 DEF HideInv, Gone
<1>9. Foreign'
  BY <1>1, <1>2, <1>3, <1>4, <1>5, <1>6 DEF HideInv, Foreign, HideGoes
<1>10. Holes'
  BY <1>1, <1>2, <1>3, <1>4, <1>5, <1>6 DEF HideInv, Holes, HideGoes, On, HolePoints, HidePoints, HeaderPoints
<1>11. Listed'
  <2>1. CASE ~(crashed' = "no" /\ ~failed' /\ ~unloaded')
    BY <2>1 DEF Listed
  <2>2. CASE crashed' = "no" /\ ~failed' /\ ~unloaded'
    <3>1. crashed = "no" /\ ~failed /\ ~unloaded /\ Listed
      BY <1>1, <2>2, <1>2, <1>3, <1>5, <1>6 DEF HideInv
    <3>2. \A b \in Ranges : b \in hider'.todo =>
            /\ mem'[b].is = "lib" /\ (hider'.op = "hide" => "r" \in Perm[b]) /\ snap'[b].perm = Perm[b]
      BY <1>1, <3>1, <1>2, <1>3, <1>5, <1>6 DEF Listed, HideGoes, On, HolePoints, HidePoints, HeaderPoints
    <3>3. \A b \in Ranges : mem'[b].is = "lib" => mem'[b].perm = Perm[b]
      BY <1>1, <2>2, <3>1, <1>2, <1>3, <1>5, <1>6 DEF Listed, HideGoes, On, HolePoints, HidePoints, HeaderPoints
    <3>4. snap[hider.a].perm = Perm[hider.a]
      BY <1>1, <3>1 DEF Listed, On, HidePoints
    <3>5. mem'[hider.a].is # "lib" /\ mem'[hider.a].perm = Perm[hider.a] \union {"w"}
      BY <1>1, <1>3, <1>5, <2>2, <3>1, <3>4 DEF Listed, HolePoints
    <3>. QED
      BY <1>1, <3>2, <3>3, <3>4, <3>5, <1>2, <1>3, <1>5, <1>6 DEF Listed, HideGoes, On, HolePoints, HidePoints, HeaderPoints
  <2>. QED
    BY <2>1, <2>2
<1>12. Kept'
  BY <1>1, <1>2, <1>3, <1>4, <1>5, <1>6 DEF HideInv, Listed, Kept, HideGoes, On, HolePoints, HidePoints, HeaderPoints, Known
<1>13. Hide!CrashesAreExplained'
  BY <1>1, <1>2, <1>3, <1>4, <1>5, <1>6 DEF HideInv, Foreign, Hide!CrashesAreExplained, HideGoes, Hide!A
<1>. QED
  BY <1>7, <1>8, <1>9, <1>10, <1>11, <1>12, <1>13 DEF HideInv

LEMMA HidePerms == ASSUME HideInv, Hide!Perms PROVE HideInv'
<1>1. HideType /\ hider.at = "perms" /\ hider.a \in Ranges /\ hider.a \notin hider.todo
      /\ crashed = "no" /\ "next" \in {"next"} \union HidePoints \union HeaderPoints
  BY DEF HideInv, HideType, Hide!Perms, Hide!At, HidePoints, HeaderPoints
<1>2. HideGoes("next")
  BY <1>1, HideGoto DEF Hide!Perms
<1> DEFINE m == [mem[hider.a] EXCEPT !.perm = snap[hider.a].perm]
<1>3. m \in Mappings /\ m.is = mem[hider.a].is
      /\ m.perm = snap[hider.a].perm /\ m.data = mem[hider.a].data
  <2>1. mem[hider.a] \in Mappings /\ snap[hider.a] \in Mappings
    BY <1>1 DEF HideType
  <2>. QED
    BY <2>1 DEF Mappings
<1>4. PICK ok \in BOOLEAN : Hide!Syscall(ok, m) /\ (ok => mem[hider.a].is # "none")
  BY DEF Hide!Perms, Hide!MayFail, Hide!A
<1>. HIDE DEF m
<1>5. /\ mem' \in [Ranges -> Mappings]
      /\ \A b \in Ranges : b # hider.a => mem'[b] = mem[b]
      /\ mem'[hider.a] = IF ok THEN m ELSE mem[hider.a]
      /\ failed' \in BOOLEAN /\ (~failed' => ok /\ ~failed)
      /\ hurt' \in BOOLEAN /\ (hurt' => hurt \/ mem[hider.a].is = "other")
  BY <1>1, <1>3, <1>4, HideSyscall
<1>6. UNCHANGED <<want, unloaded, taken, lost, snap, crashed, hidden>>
  BY DEF Hide!Perms, Hide!world
<1>7. HideType'
  BY <1>1, <1>2, <1>3, <1>4, <1>5, <1>6 DEF HideType, HideGoes, HidePoints, HeaderPoints
<1>8. Gone'
  BY <1>1, <1>2, <1>3, <1>4, <1>5, <1>6 DEF HideInv, Gone
<1>9. Foreign'
  BY <1>1, <1>2, <1>3, <1>4, <1>5, <1>6 DEF HideInv, Foreign, HideGoes
<1>10. Holes'
  BY <1>1, <1>2, <1>3, <1>4, <1>5, <1>6 DEF HideInv, Holes, HideGoes, On, HolePoints, HidePoints, HeaderPoints
<1>11. Listed'
  <2>1. CASE ~(crashed' = "no" /\ ~failed' /\ ~unloaded')
    BY <2>1 DEF Listed
  <2>2. CASE crashed' = "no" /\ ~failed' /\ ~unloaded'
    <3>1. crashed = "no" /\ ~failed /\ ~unloaded /\ Listed
      BY <1>1, <2>2, <1>2, <1>3, <1>5, <1>6 DEF HideInv
    <3>2. \A b \in Ranges : b \in hider'.todo =>
            /\ mem'[b].is = "lib" /\ (hider'.op = "hide" => "r" \in Perm[b]) /\ snap'[b].perm = Perm[b]
      BY <1>1, <3>1, <1>2, <1>3, <1>5, <1>6 DEF Listed, HideGoes, On, HolePoints, HidePoints, HeaderPoints
    <3>3. \A b \in Ranges : mem'[b].is = "lib" => mem'[b].perm = Perm[b]
      BY <1>1, <2>2, <3>1, <1>2, <1>3, <1>5, <1>6 DEF Listed, HideGoes, On, HolePoints, HidePoints, HeaderPoints
    <3>. QED
      BY <1>1, <3>2, <3>3, <1>2, <1>3, <1>5, <1>6 DEF Listed, HideGoes, On, HolePoints, HidePoints, HeaderPoints
  <2>. QED
    BY <2>1, <2>2
<1>12. Kept'
  BY <1>1, <1>2, <1>3, <1>4, <1>5, <1>6 DEF HideInv, Listed, Kept, HideGoes, On, HolePoints, HidePoints, HeaderPoints, Known
<1>13. Hide!CrashesAreExplained'
  BY <1>1, <1>2, <1>3, <1>4, <1>5, <1>6 DEF HideInv, Foreign, Hide!CrashesAreExplained, HideGoes, Hide!A
<1>. QED
  BY <1>7, <1>8, <1>9, <1>10, <1>11, <1>12, <1>13 DEF HideInv

LEMMA HideProtect == ASSUME HideInv, Hide!Protect PROVE HideInv'
<1>1. HideType /\ hider.at = "protect" /\ hider.a \in Ranges /\ hider.a \notin hider.todo
      /\ crashed = "no" /\ "clear" \in {"next"} \union HidePoints \union HeaderPoints
  BY DEF HideInv, HideType, Hide!Protect, Hide!At, HidePoints, HeaderPoints
<1> DEFINE m == [mem[hider.a] EXCEPT !.perm = {"r", "w", "x"}]
<1>2. m \in Mappings /\ m.is = mem[hider.a].is
      /\ m.perm = Modes /\ m.data = mem[hider.a].data
  <2>1. mem[hider.a] \in Mappings /\ snap[hider.a] \in Mappings
    BY <1>1 DEF HideType
  <2>. QED
    BY <2>1 DEF Mappings, Modes
<1>3. PICK ok \in BOOLEAN : Hide!Syscall(ok, m) /\ Hide!Goto(IF ok THEN "clear" ELSE "next")
                         /\ (ok => mem[hider.a].is # "none")
  BY DEF Hide!Protect, Hide!A
<1>4. HideGoes(IF ok THEN "clear" ELSE "next")
  BY <1>1, <1>3, HideGoto DEF HeaderPoints
<1>. HIDE DEF m
<1>5. /\ mem' \in [Ranges -> Mappings]
      /\ \A b \in Ranges : b # hider.a => mem'[b] = mem[b]
      /\ mem'[hider.a] = IF ok THEN m ELSE mem[hider.a]
      /\ failed' \in BOOLEAN /\ (~failed' => ok /\ ~failed)
      /\ hurt' \in BOOLEAN /\ (hurt' => hurt \/ mem[hider.a].is = "other")
  BY <1>1, <1>2, <1>3, HideSyscall
<1>6. UNCHANGED <<want, unloaded, taken, lost, snap, crashed, hidden>>
  BY DEF Hide!Protect, Hide!world
<1>7. HideType'
  BY <1>1, <1>4, <1>2, <1>3, <1>5, <1>6 DEF HideType, HideGoes, HidePoints, HeaderPoints
<1>8. Gone'
  BY <1>1, <1>4, <1>2, <1>3, <1>5, <1>6 DEF HideInv, Gone
<1>9. Foreign'
  BY <1>1, <1>4, <1>2, <1>3, <1>5, <1>6 DEF HideInv, Foreign, HideGoes
<1>10. Holes'
  BY <1>1, <1>4, <1>2, <1>3, <1>5, <1>6 DEF HideInv, Holes, HideGoes, On, HolePoints, HidePoints, HeaderPoints
<1>11. Listed'
  BY <1>1, <1>4, <1>2, <1>3, <1>5, <1>6 DEF HideInv, Listed, HideGoes, On, HolePoints, HidePoints, HeaderPoints
<1>12. Kept'
  BY <1>1, <1>4, <1>2, <1>3, <1>5, <1>6 DEF HideInv, Listed, Kept, HideGoes, On, HolePoints, HidePoints, HeaderPoints, Known
<1>13. Hide!CrashesAreExplained'
  BY <1>1, <1>4, <1>2, <1>3, <1>5, <1>6 DEF HideInv, Foreign, Hide!CrashesAreExplained, HideGoes, Hide!A
<1>. QED
  BY <1>7, <1>8, <1>9, <1>10, <1>11, <1>12, <1>13 DEF HideInv

LEMMA HideReadonly == ASSUME HideInv, Hide!Readonly PROVE HideInv'
<1>1. HideType /\ hider.at = "readonly" /\ hider.op = "hide" /\ hider.a \in Ranges /\ hider.a \notin hider.todo
      /\ crashed = "no" /\ "next" \in {"next"} \union HidePoints \union HeaderPoints
  BY DEF HideInv, HideType, Hide!Readonly, Hide!At, HidePoints, HeaderPoints
<1>2. HideGoes("next")
  BY <1>1, HideGoto DEF Hide!Readonly
<1>3. PICK p \in SUBSET Modes : p = snap[hider.a].perm
  BY <1>1 DEF HideType, Mappings
<1>5. /\ mem' \in [Ranges -> Mappings]
      /\ \A b \in Ranges : b # hider.a => mem'[b] = mem[b]
      /\ mem'[hider.a].is = mem[hider.a].is /\ mem'[hider.a].data = mem[hider.a].data
      /\ failed' \in BOOLEAN /\ (~failed' => ~failed)
      /\ mem[hider.a].is = "none" => mem'[hider.a].perm = mem[hider.a].perm
      /\ ~failed' /\ "w" \in p => mem'[hider.a].perm = mem[hider.a].perm
      /\ ~failed' /\ "w" \notin p => mem'[hider.a].perm = p
      /\ hurt' \in BOOLEAN /\ (hurt' => hurt \/ mem[hider.a].is = "other")
  <2>1. CASE "w" \in p
    BY <1>1, <1>3, <2>1 DEF Hide!Readonly, Hide!Final, Hide!A, HideType
  <2>2. CASE "w" \notin p
    <3> DEFINE m == [mem[hider.a] EXCEPT !.perm = p]
    <3>1. m \in Mappings /\ m.is = mem[hider.a].is /\ m.perm = p /\ m.data = mem[hider.a].data
      BY <1>1 DEF HideType, Mappings
    <3>2. PICK ok \in BOOLEAN : Hide!Syscall(ok, m) /\ (ok => mem[hider.a].is # "none")
      BY <1>3, <2>2 DEF Hide!Readonly, Hide!Final, Hide!MayFail, Hide!A
    <3> HIDE DEF m
    <3>. QED
      BY <1>1, <2>2, <3>1, <3>2, HideSyscall
  <2>. QED
    BY <2>1, <2>2
<1>6. UNCHANGED <<want, unloaded, taken, lost, snap, crashed>> /\ hidden' = hidden \union {hider.a}
  BY DEF Hide!Readonly, Hide!world, Hide!A
<1>7. HideType'
  BY <1>1, <1>2, <1>3, <1>5, <1>6 DEF HideType, HideGoes, HidePoints, HeaderPoints
<1>8. Gone'
  BY <1>1, <1>2, <1>3, <1>5, <1>6 DEF HideInv, Gone
<1>9. Foreign'
  BY <1>1, <1>2, <1>3, <1>5, <1>6 DEF HideInv, Foreign, HideGoes
<1>10. Holes'
  BY <1>1, <1>2, <1>3, <1>5, <1>6 DEF HideInv, Holes, HideGoes, On, HolePoints, HidePoints, HeaderPoints
<1>11. Listed'
  <2>1. CASE ~(crashed' = "no" /\ ~failed' /\ ~unloaded')
    BY <2>1 DEF Listed
  <2>2. CASE crashed' = "no" /\ ~failed' /\ ~unloaded'
    <3>1. crashed = "no" /\ ~failed /\ ~unloaded /\ Listed
      BY <1>1, <2>2, <1>2, <1>3, <1>5, <1>6 DEF HideInv
    <3>2. \A b \in Ranges : b \in hider'.todo =>
            /\ mem'[b].is = "lib" /\ (hider'.op = "hide" => "r" \in Perm[b]) /\ snap'[b].perm = Perm[b]
      BY <1>1, <3>1, <1>2, <1>3, <1>5, <1>6 DEF Listed, HideGoes, On, HolePoints, HidePoints, HeaderPoints
    <3>3. \A b \in Ranges : mem'[b].is = "lib" => mem'[b].perm = Perm[b]
      BY <1>1, <2>2, <3>1, <1>2, <1>3, <1>5, <1>6 DEF Listed, HideGoes, On, HolePoints, HidePoints, HeaderPoints
    <3>. QED
      BY <1>1, <3>2, <3>3, <1>2, <1>3, <1>5, <1>6 DEF Listed, HideGoes, On, HolePoints, HidePoints, HeaderPoints
  <2>. QED
    BY <2>1, <2>2
<1>12. Kept'
  <2>1. ASSUME ~failed', ~unloaded'
        PROVE  mem'[hider.a].perm = Perm[hider.a]
    <3>1. p = Perm[hider.a] /\ mem[hider.a].perm = Perm[hider.a] \union {"w"}
      BY <1>1, <1>3, <1>5, <1>6, <2>1 DEF HideInv, Listed, On, HidePoints
    <3>. QED
      BY <1>5, <2>1, <3>1
  <2>. QED
    BY <1>1, <1>2, <2>1, <1>5, <1>6 DEF HideInv, Kept, HideGoes, On, HolePoints, HidePoints, HeaderPoints, Known
<1>13. Hide!CrashesAreExplained'
  BY <1>1, <1>2, <1>3, <1>5, <1>6 DEF HideInv, Foreign, Hide!CrashesAreExplained, HideGoes, Hide!A
<1>. QED
  BY <1>7, <1>8, <1>9, <1>10, <1>11, <1>12, <1>13 DEF HideInv

-----------------------------------------------------------------------------
\* A step that ends in a crash needs only its explanation.
LEMMA HideCrash ==
  ASSUME HideInv, crashed = "no", crashed' \in {"hider", "app"}, Hide!CrashesAreExplained',
         UNCHANGED <<mem, want, hider, snap, unloaded, failed, taken, lost, hurt, hidden>>
  PROVE  HideInv'
<1>1. HideType' /\ Gone' /\ Foreign'
  BY DEF HideInv, HideType, Gone, Foreign
<1>2. Holes' /\ Listed' /\ Kept'
  BY DEF Holes, Listed, Kept
<1>. QED
  BY <1>1, <1>2 DEF HideInv

LEMMA HideBackup == ASSUME HideInv, Hide!Backup PROVE HideInv'
<1>1. HideType /\ hider.at = "backup" /\ hider.op = "hide" /\ hider.a \in Ranges /\ hider.a \notin hider.todo
      /\ crashed = "no" /\ hider \in Hiders
  BY DEF HideInv, HideType, Hide!Backup, Hide!At, HidePoints
<1>2. PICK ok \in BOOLEAN : /\ hider' = [hider EXCEPT !.at = "copy", !.backup = IF ok THEN Hide!Zeros ELSE Hide!Bad]
                            /\ failed' = (failed \/ ~ok)
  BY DEF Hide!Backup
<1> DEFINE b == IF ok THEN Hide!Zeros ELSE Hide!Bad
<1>3. b \in Nat /\ (ok => b = 0)
  BY HideAssumption DEF Hide!Zeros, Hide!Bad
<1>. HIDE DEF b
<1>4. hider' = [hider EXCEPT !.at = "copy", !.backup = b]
  BY <1>2 DEF b
<1>5. /\ hider' \in Hiders
      /\ hider'.at = "copy" /\ hider'.op = hider.op /\ hider'.a = hider.a /\ hider'.todo = hider.todo
      /\ ok => hider'.backup = 0
  BY <1>1, <1>3, <1>4 DEF Hiders, HidePoints
<1>6. failed' \in BOOLEAN /\ (~failed' => ok /\ ~failed)
  BY <1>1, <1>2 DEF HideType
<1>7. UNCHANGED <<mem, want, unloaded, taken, lost, snap, crashed, hurt, hidden>>
  BY DEF Hide!Backup, Hide!world
<1>8. HideType'
  BY <1>1, <1>5, <1>6, <1>7 DEF HideType, HidePoints, HeaderPoints
<1>9. Gone' /\ Foreign' /\ Holes'
  BY <1>1, <1>5, <1>7 DEF HideInv, Gone, Foreign, Holes, On, HidePoints, HeaderPoints, HolePoints
<1>10. Listed'
  BY <1>1, <1>5, <1>6, <1>7 DEF HideInv, Listed, On, HolePoints, HidePoints, HeaderPoints
<1>11. Kept'
  BY <1>1, <1>5, <1>6, <1>7 DEF HideInv, Kept, On, HolePoints, HidePoints, HeaderPoints, Known
<1>12. Hide!CrashesAreExplained'
  BY <1>1, <1>7 DEF HideInv, Hide!CrashesAreExplained
<1>. QED
  BY <1>8, <1>9, <1>10, <1>11, <1>12 DEF HideInv

LEMMA HideCopy == ASSUME HideInv, Hide!Copy PROVE HideInv'
<1>1. HideType /\ hider.at = "copy" /\ hider.op = "hide" /\ hider.a \in Ranges /\ hider.a \notin hider.todo
      /\ crashed = "no" /\ hider \in Hiders
  BY DEF HideInv, HideType, Hide!Copy, Hide!At, HidePoints
<1>2. UNCHANGED <<want, unloaded, taken, lost, snap, failed, hidden>>
  BY DEF Hide!Copy, Hide!world
<1>3. CASE hider.backup = Hide!Bad \/ "r" \notin mem[hider.a].perm
  <2>1. crashed' = "hider" /\ UNCHANGED <<mem, hider, hurt>>
    BY <1>3 DEF Hide!Copy, Hide!Crash, Hide!A
  <2>2. failed \/ unloaded
    <3>1. ASSUME ~failed, ~unloaded PROVE FALSE
      <4>1. hider.backup = 0 /\ mem[hider.a].perm = Perm[hider.a] /\ "r" \in Perm[hider.a]
        BY <1>1, <3>1 DEF HideInv, Listed, On, HidePoints
      <4>. QED
        BY <1>3, <4>1, HideAssumption DEF Hide!Bad
    <3>. QED
      BY <3>1
  <2>. QED
    BY <1>1, <1>2, <2>1, <2>2, HideCrash DEF HideInv, Hide!CrashesAreExplained
<1>4. CASE ~(hider.backup = Hide!Bad \/ "r" \notin mem[hider.a].perm)
  <2>1. hider' = [hider EXCEPT !.at = "unmap", !.backup = mem[hider.a].data] /\ UNCHANGED <<mem, crashed, hurt>>
    BY <1>4 DEF Hide!Copy, Hide!A
  <2>2. /\ hider' \in Hiders
        /\ hider'.at = "unmap" /\ hider'.op = hider.op /\ hider'.a = hider.a /\ hider'.todo = hider.todo
        /\ hider'.backup = mem[hider.a].data
    BY <1>1, <2>1 DEF Hiders, HidePoints, HideType, Mappings
  <2>3. HideType'
    BY <1>1, <1>2, <2>1, <2>2 DEF HideType, HidePoints, HeaderPoints
  <2>4. Gone' /\ Foreign' /\ Holes'
    BY <1>1, <1>2, <2>1, <2>2 DEF HideInv, Gone, Foreign, Holes, On, HidePoints, HeaderPoints, HolePoints
  <2>5. Listed'
    BY <1>1, <1>2, <2>1, <2>2 DEF HideInv, Listed, On, HolePoints, HidePoints, HeaderPoints
  <2>6. Kept'
    BY <1>1, <1>2, <2>1, <2>2 DEF HideInv, Kept, On, HolePoints, HidePoints, HeaderPoints, Known
  <2>7. Hide!CrashesAreExplained'
    BY <1>1, <1>2, <2>1, <2>2 DEF HideInv, Hide!CrashesAreExplained
  <2>. QED
    BY <2>3, <2>4, <2>5, <2>6, <2>7 DEF HideInv
<1>. QED
  BY <1>3, <1>4

LEMMA HideRestore == ASSUME HideInv, Hide!Restore PROVE HideInv'
<1>1. HideType /\ hider.at = "restore" /\ hider.op = "hide" /\ hider.a \in Ranges /\ hider.a \notin hider.todo
      /\ crashed = "no" /\ hider \in Hiders /\ hurt \in BOOLEAN
  BY DEF HideInv, HideType, Hide!Restore, Hide!At, HidePoints
<1>2. UNCHANGED <<want, unloaded, taken, lost, snap, failed, hidden>>
  BY DEF Hide!Restore, Hide!world
<1>3. CASE "w" \notin mem[hider.a].perm
  <2>1. crashed' = "hider" /\ UNCHANGED <<mem, hider, hurt>>
    BY <1>3 DEF Hide!Restore, Hide!Crash, Hide!A
  <2>2. failed \/ unloaded
    BY <1>1, <1>3 DEF HideInv, Listed
  <2>. QED
    BY <1>1, <1>2, <2>1, <2>2, HideCrash DEF HideInv, Hide!CrashesAreExplained
<1>4. CASE "w" \in mem[hider.a].perm
  <2>1. /\ mem' = [mem EXCEPT ![hider.a].data = hider.backup]
        /\ hurt' = (hurt \/ mem[hider.a].is = "other")
        /\ Hide!Goto("readonly") /\ UNCHANGED crashed
    BY <1>4 DEF Hide!Restore, Hide!A
  <2>2. HideGoes("readonly")
    BY <1>1, <2>1, HideGoto DEF HidePoints
  <2>3. /\ mem' \in [Ranges -> Mappings]
        /\ \A b \in Ranges : b # hider.a => mem'[b] = mem[b]
        /\ mem'[hider.a].is = mem[hider.a].is /\ mem'[hider.a].perm = mem[hider.a].perm
        /\ mem'[hider.a].data = hider.backup
    <3>1. mem[hider.a] \in Mappings /\ hider.backup \in Nat
      BY <1>1 DEF HideType, Hiders
    <3>. DEFINE m == [mem[hider.a] EXCEPT !.data = hider.backup]
    <3>2. m \in Mappings /\ m.is = mem[hider.a].is /\ m.perm = mem[hider.a].perm /\ m.data = hider.backup
      BY <3>1 DEF Mappings
    <3>3. mem' = [mem EXCEPT ![hider.a] = m]
      BY <2>1
    <3>. HIDE DEF m
    <3>. QED
      BY <1>1, <3>2, <3>3 DEF HideType
  <2>4. HideType'
    BY <1>1, <1>2, <2>1, <2>2, <2>3 DEF HideType, HidePoints, HeaderPoints, HideGoes
  <2>5. Gone' /\ Foreign'
    BY <1>1, <1>2, <2>1, <2>2, <2>3 DEF HideInv, Gone, Foreign
  <2>6. Holes'
    BY <1>1, <1>2, <1>4, <2>1, <2>2, <2>3 DEF HideInv, Gone, Holes, On, HidePoints, HeaderPoints, HolePoints, HideGoes
  <2>7. Listed'
    BY <1>1, <1>2, <2>1, <2>2, <2>3 DEF HideInv, Listed, On, HolePoints, HidePoints, HeaderPoints, HideGoes
  <2>8. Kept'
    BY <1>1, <1>2, <2>1, <2>2, <2>3 DEF HideInv, Kept, On, HolePoints, HidePoints, HeaderPoints, Known, HideGoes
  <2>9. Hide!CrashesAreExplained'
    BY <1>1, <1>2, <2>1, <2>2 DEF HideInv, Foreign, Hide!CrashesAreExplained
  <2>. QED
    BY <2>4, <2>5, <2>6, <2>7, <2>8, <2>9 DEF HideInv
<1>. QED
  BY <1>3, <1>4

\* Testing and clearing the header leave the mappings alone.
LEMMA HideHeader == ASSUME HideInv, Hide!Header \/ Hide!Clear PROVE HideInv'
<1>1. HideType /\ hider.at \in {"header", "clear"} /\ hider.a \in Ranges /\ hider.a \notin hider.todo
      /\ crashed = "no" /\ hider \in Hiders /\ hurt \in BOOLEAN
  BY DEF HideInv, HideType, Hide!Header, Hide!Clear, Hide!At, HeaderPoints
<1>2. UNCHANGED <<want, unloaded, taken, lost, snap, failed, hidden>>
  BY DEF Hide!Header, Hide!Clear, Hide!world
<1>3. CASE crashed' = "hider" /\ UNCHANGED <<mem, hider, hurt>>
  <2>1. \/ hider.at = "header" /\ "r" \notin mem[hider.a].perm
        \/ hider.at = "clear" /\ "w" \notin mem[hider.a].perm
    BY <1>1, <1>3 DEF Hide!Header, Hide!Clear, Hide!At, Hide!A
  <2>2. failed \/ unloaded \/ (hider.at = "header" /\ "r" \notin Perm[hider.a])
    BY <1>1, <2>1 DEF HideInv, Listed, On, HeaderPoints, Modes
  <2>. QED
    BY <1>1, <1>2, <1>3, <2>2, HideCrash DEF HideInv, Hide!CrashesAreExplained, Hide!A
<1>4. ASSUME NEW where \in {"next", "protect", "perms"}, Hide!Goto(where), UNCHANGED <<mem, crashed>>,
             where = "perms" <=> hider.at = "clear",
             hurt' \in BOOLEAN, hurt' => hurt \/ mem[hider.a].is = "other"
      PROVE  HideInv'
  <2>1. HideGoes(where)
    BY <1>1, <1>4, HideGoto DEF HeaderPoints
  <2>2. HideType'
    <3>1. hider'.at \in HidePoints \union HeaderPoints => hider'.a \in Ranges /\ hider'.a \notin hider'.todo
      BY <1>1, <2>1 DEF HideGoes
    <3>2. hider'.at \notin HidePoints
      BY <2>1, <1>4 DEF HideGoes, HidePoints
    <3>. QED
      BY <1>1, <1>2, <1>4, <2>1, <3>1, <3>2 DEF HideType, HideGoes
  <2>3. Gone' /\ Foreign'
    BY <1>1, <1>2, <1>4, <2>1 DEF HideInv, Gone, Foreign, HideGoes
  <2>4. Holes'
    BY <1>1, <1>2, <1>4, <2>1 DEF HideInv, Holes, On, HolePoints, HideGoes
  <2>5. Listed'
    BY <1>1, <1>2, <1>4, <2>1 DEF HideInv, Listed, On, HolePoints, HidePoints, HeaderPoints, HideGoes
  <2>6. Kept'
    BY <1>1, <1>2, <1>4, <2>1 DEF HideInv, Kept, Listed, On, HolePoints, HidePoints, HeaderPoints, HideGoes, Known
  <2>7. Hide!CrashesAreExplained'
    BY <1>1, <1>2, <1>4, <2>1 DEF HideInv, Foreign, Hide!CrashesAreExplained
  <2>. QED
    BY <2>2, <2>3, <2>4, <2>5, <2>6, <2>7 DEF HideInv
<1>5. \/ crashed' = "hider" /\ UNCHANGED <<mem, hider, hurt>>
      \/ \E where \in {"next", "protect", "perms"} :
           /\ Hide!Goto(where) /\ UNCHANGED <<mem, crashed>> /\ (where = "perms" <=> hider.at = "clear")
           /\ hurt' \in BOOLEAN /\ (hurt' => hurt \/ mem[hider.a].is = "other")
  <2>1. CASE Hide!Header
    BY <1>1, <2>1 DEF Hide!Header, Hide!At, Hide!Crash, Hide!A
  <2>2. CASE Hide!Clear
    BY <1>1, <2>2 DEF Hide!Clear, Hide!At, Hide!Crash, Hide!A
  <2>. QED
    BY <2>1, <2>2
<1>. QED
  BY <1>3, <1>4, <1>5

-----------------------------------------------------------------------------
\* A set of addresses has a least one, which Min chooses.
LessThan == {ss \in Nat \X Nat : ss[1] < ss[2]}

LEMMA NatWellFounded == IsWellFoundedOn(LessThan, Nat)
  BY NatLessThanWellFounded, Zenon DEF OpToRel, LessThan

\* A set of numbers has a least one.
LEMMA LeastOf ==
  ASSUME NEW S \in SUBSET Nat, S # {}
  PROVE  \E m \in S : \A n \in S : m <= n
<1>1. PICK m \in S : \A n \in S : ~ <<n, m>> \in LessThan
  BY NatWellFounded, WFMin
<1>2. \A n \in S : m <= n
  <2>. SUFFICES ASSUME NEW n \in S, ~(m <= n) PROVE FALSE
    OBVIOUS
  <2>1. n < m /\ n \in Nat /\ m \in Nat
    OBVIOUS
  <2>2. <<n, m>> \in LessThan
    BY <2>1 DEF LessThan
  <2>. QED
    BY <1>1, <2>2
<1>. QED
  BY <1>2

LEMMA MinIsIn ==
  ASSUME NEW S \in SUBSET Nat, S # {}
  PROVE  Hide!Min(S) \in S
<1>1. PICK m \in S : \A n \in S : m <= n
  BY LeastOf
<1>. QED
  BY <1>1 DEF Hide!Min

LEMMA HideReadMaps == ASSUME HideInv, NEW op \in {"hide", "header"}, Hide!ReadMaps(op) PROVE HideInv'
<1>1. HideType /\ hider.at = "idle" /\ crashed = "no"
  BY DEF HideInv, Hide!ReadMaps, Hide!At
<1>. DEFINE todo == {a \in Ranges : Hide!Matched(a) /\ (op = "hide" => "r" \in mem[a].perm)}
<1>2. /\ hider' \in Hiders
      /\ hider'.op = op /\ hider'.at = "next" /\ hider'.todo = todo
  <2>1. todo \subseteq Ranges
    OBVIOUS
  <2>2. hider' = [op |-> op, at |-> "next", a |-> 0, todo |-> todo, backup |-> Hide!Bad]
    BY DEF Hide!ReadMaps, Hide!Idle
  <2>3. Hide!Bad \in Nat
    BY HideAssumption DEF Hide!Bad
  <2>. HIDE DEF todo
  <2>. QED
    BY <2>1, <2>2, <2>3 DEF Hiders
<1>3. UNCHANGED <<mem, want, unloaded, taken, lost, crashed, failed, hurt, hidden>> /\ snap' = mem
  BY DEF Hide!ReadMaps, Hide!world
<1>4. \A a \in Ranges : a \in todo <=> mem[a].is = "lib" /\ (op = "hide" => "r" \in mem[a].perm)
  BY DEF Hide!Matched
<1>. HIDE DEF todo
<1>5. HideType'
  BY <1>1, <1>2, <1>3 DEF HideType, HidePoints, HeaderPoints
<1>6. Gone'
  BY <1>3 DEF HideInv, Gone
<1>7. Foreign'
  <2>1. ASSUME ~taken, NEW o \in Ranges, mem[o].is = "other"
        PROVE  unloaded /\ todo = {}
    BY <1>2, <1>4, <2>1 DEF HideInv, Foreign, Gone, Hiders
  <2>. QED
    BY <1>2, <1>3, <2>1 DEF Foreign
<1>8. Holes'
  BY <1>1, <1>2, <1>3 DEF HideInv, Holes, On, HolePoints, HidePoints, HeaderPoints
<1>9. Listed'
  BY <1>1, <1>2, <1>3, <1>4 DEF HideInv, Listed, On, HolePoints, HidePoints, HeaderPoints
<1>10. Kept'
  BY <1>1, <1>2, <1>3 DEF HideInv, Kept, On, HolePoints, HidePoints, HeaderPoints, Known
<1>11. Hide!CrashesAreExplained'
  BY <1>1, <1>3 DEF HideInv, Hide!CrashesAreExplained
<1>. QED
  BY <1>5, <1>6, <1>7, <1>8, <1>9, <1>10, <1>11 DEF HideInv

LEMMA HideNextItem == ASSUME HideInv, Hide!NextItem PROVE HideInv'
<1>1. HideType /\ hider.at = "next" /\ crashed = "no" /\ hider \in Hiders
  BY DEF HideInv, HideType, Hide!NextItem, Hide!At
<1>2. UNCHANGED <<mem, want, unloaded, taken, lost, snap, crashed, failed, hurt, hidden>>
  BY DEF Hide!NextItem, Hide!world
<1>3. Gone' /\ Hide!CrashesAreExplained'
  BY <1>1, <1>2 DEF HideInv, Gone, Hide!CrashesAreExplained
<1>4. CASE hider.todo = {}
  <2>1. hider' \in Hiders /\ hider'.at = "idle" /\ hider'.todo = {}
    BY <1>4, HideAssumption DEF Hide!NextItem, Hide!Idle, Hide!Bad, Hiders
  <2>2. HideType'
    BY <1>1, <1>2, <2>1 DEF HideType, HidePoints, HeaderPoints
  <2>3. Foreign' /\ Holes'
    BY <1>1, <1>2, <2>1 DEF HideInv, Foreign, Holes, On, HolePoints, HidePoints, HeaderPoints
  <2>4. Listed'
    BY <1>1, <1>2, <2>1 DEF HideInv, Listed, On, HolePoints, HidePoints, HeaderPoints
  <2>5. Kept'
    BY <1>1, <1>2, <2>1 DEF HideInv, Kept, On, HolePoints, HidePoints, HeaderPoints, Known
  <2>. QED
    BY <1>3, <2>2, <2>3, <2>4, <2>5 DEF HideInv
<1>5. CASE hider.todo # {}
  <2>1. PICK a \in Ranges : a = Hide!Min(hider.todo) /\ a \in hider.todo /\ a \in Nat
    BY <1>1, <1>5, MinIsIn, HideAssumption DEF Hiders
  <2>2. PICK at \in {"backup", "header"} : at = IF hider.op = "hide" THEN "backup" ELSE "header"
    OBVIOUS
  <2>3. hider' = [hider EXCEPT !.a = a, !.todo = hider.todo \ {a}, !.backup = Hide!Bad, !.at = at]
    BY <1>5, <2>1, <2>2 DEF Hide!NextItem, Hide!Rest
  <2>4. Hide!Bad \in Nat
    BY HideAssumption DEF Hide!Bad
  <2>5. /\ hider' \in Hiders
        /\ hider'.op = hider.op /\ hider'.a = a /\ hider'.at = at /\ hider'.todo = hider.todo \ {a}
    BY <1>1, <2>1, <2>2, <2>3, <2>4 DEF Hiders, HidePoints, HeaderPoints
  <2>6. HideType'
    BY <1>1, <1>2, <2>1, <2>2, <2>5 DEF HideType, HidePoints, HeaderPoints
  <2>7. Foreign' /\ Holes'
    BY <1>1, <1>2, <1>5, <2>2, <2>5 DEF HideInv, Foreign, Holes, On, HolePoints, HidePoints, HeaderPoints
  <2>8. Listed'
    BY <1>1, <1>2, <2>1, <2>2, <2>5 DEF HideInv, Listed, On, HolePoints, HidePoints, HeaderPoints
  <2>9. Kept'
    BY <1>1, <1>2, <2>1, <2>2, <2>5 DEF HideInv, Kept, On, HolePoints, HidePoints, HeaderPoints, Known
  <2>. QED
    BY <1>3, <2>6, <2>7, <2>8, <2>9 DEF HideInv
<1>. QED
  BY <1>4, <1>5

-----------------------------------------------------------------------------
(* The application's steps *)

LEMMA HideAppWrite == ASSUME HideInv, NEW a \in Ranges, Hide!AppWrite(a) PROVE HideInv'
<1>1. HideType /\ crashed = "no" /\ ~unloaded /\ "w" \in Perm[a] /\ mem[a] \in Mappings /\ want[a] \in Nat \ {0}
  BY DEF HideInv, HideType, Hide!AppWrite, Hide!Running
<1>2. UNCHANGED <<hider, snap, unloaded, failed, taken, hurt, hidden>>
  BY DEF Hide!AppWrite
<1>3. CASE Hide!Ours(a) /\ "w" \in mem[a].perm
  <2>1. /\ want' = [want EXCEPT ![a] = want[a] + 1]
        /\ mem' = [mem EXCEPT ![a].data = want'[a]]
        /\ lost' = IF hider.a = a /\ hider.at \in {"unmap", "map", "writable", "restore"}
                   THEN lost \union {a} ELSE lost
        /\ UNCHANGED crashed
    BY <1>3 DEF Hide!AppWrite, Hide!A
  <2>2. /\ want' \in [Ranges -> Nat \ {0}] /\ \A b \in Ranges : b # a => want'[b] = want[b]
        /\ want'[a] \in Nat \ {0}
    BY <1>1, <2>1 DEF HideType
  <2>3. /\ mem' \in [Ranges -> Mappings] /\ \A b \in Ranges : b # a => mem'[b] = mem[b]
        /\ mem'[a].is = mem[a].is /\ mem'[a].perm = mem[a].perm /\ mem'[a].data = want'[a]
    BY <1>1, <2>1, <2>2 DEF HideType, Mappings
  <2>4. lost \subseteq lost' /\ lost' \subseteq Ranges
        /\ (hider.a = a /\ hider.at \in {"unmap"} \union HolePoints => a \in lost')
        /\ \A b \in Ranges : b # a => (b \in lost <=> b \in lost')
    BY <1>1, <2>1 DEF HideType, HolePoints
  <2>5. HideType'
    BY <1>1, <1>2, <2>1, <2>2, <2>3, <2>4 DEF HideType
  <2>6. Gone' /\ Foreign' /\ Holes'
    BY <1>1, <1>2, <2>1, <2>3 DEF HideInv, Gone, Foreign, Holes, On
  <2>7. Listed'
    BY <1>1, <1>2, <2>1, <2>3 DEF HideInv, Listed, On
  <2>8. Kept'
    BY <1>1, <1>2, <2>1, <2>2, <2>3, <2>4 DEF HideInv, Kept, On, Known
  <2>9. Hide!CrashesAreExplained'
    BY <1>1, <1>2, <2>1 DEF HideInv, Hide!CrashesAreExplained
  <2>. QED
    BY <2>5, <2>6, <2>7, <2>8, <2>9 DEF HideInv
<1>4. CASE ~(Hide!Ours(a) /\ "w" \in mem[a].perm)
  <2>1. crashed' = "app" /\ UNCHANGED <<want, mem, lost>>
    BY <1>4 DEF Hide!AppWrite
  <2>2. failed \/ taken \/ hider.at \in {"map", "writable", "restore"}
    <3>1. ASSUME ~failed, ~taken, hider.at \notin HolePoints PROVE FALSE
      <4>1. mem[a].is \in {"lib", "anon"} /\ (~(On(a) /\ hider.at \in {"readonly", "clear", "perms"}) => mem[a].perm = Perm[a])
        BY <1>1, <3>1 DEF HideInv, Kept
      <4>2. On(a) /\ hider.at \in {"readonly", "clear", "perms"} => "w" \in mem[a].perm
        BY <1>1, <3>1 DEF HideInv, Listed, On, Modes
      <4>. QED
        BY <1>1, <1>4, <4>1, <4>2 DEF Hide!Ours
    <3>. QED
      BY <3>1 DEF HolePoints
  <2>. QED
    BY <1>1, <1>2, <2>1, <2>2, HideCrash DEF HideInv, Hide!CrashesAreExplained
<1>. QED
  BY <1>3, <1>4

LEMMA HideAppUse == ASSUME HideInv, NEW a \in Ranges, Hide!AppUse(a) PROVE HideInv'
<1>1. crashed = "no" /\ ~unloaded /\ crashed' = "app"
      /\ UNCHANGED <<mem, want, hider, snap, unloaded, failed, taken, lost, hurt, hidden>>
  BY DEF Hide!AppUse, Hide!Running, Hide!world
<1>2. failed \/ taken \/ hider.at \in {"map", "writable", "restore"}
  BY <1>1 DEF Hide!AppUse, HideInv, Kept, Known, HolePoints, Hide!Ours, Hide!Zeros
<1>. QED
  BY <1>1, <1>2, HideCrash DEF HideInv, Hide!CrashesAreExplained

LEMMA HideMapOther == ASSUME HideInv, NEW a \in Ranges, Hide!MapOther(a) PROVE HideInv'
<1>1. HideType /\ crashed = "no" /\ mem[a].is = "none" /\ mem[a].perm = {}
  BY DEF HideInv, Gone, Hide!MapOther, Hide!Running
<1>2. UNCHANGED <<want, hider, snap, crashed, unloaded, failed, lost, hurt, hidden>>
      /\ taken' = (taken \/ hider.at # "idle") /\ mem' = [mem EXCEPT ![a] = Hide!Other]
  BY DEF Hide!MapOther
<1>3. Hide!Other \in Mappings /\ Hide!Other.is = "other"
  BY DEF Hide!Other, Mappings, Modes
<1>. HIDE DEF Hide!Other
<1>4. /\ mem' \in [Ranges -> Mappings] /\ \A b \in Ranges : b # a => mem'[b] = mem[b]
      /\ mem'[a].is = "other"
  BY <1>1, <1>2, <1>3 DEF HideType
<1>5. ASSUME ~taken'
      PROVE  unloaded /\ hider.at = "idle" /\ hider.todo = {}
  BY <1>1, <1>2, <1>5 DEF HideInv, HideType, Holes, On, HidePoints, HeaderPoints
<1>6. HideType'
  BY <1>1, <1>2, <1>4 DEF HideType
<1>7. Gone' /\ Foreign' /\ Holes'
  BY <1>1, <1>2, <1>4, <1>5 DEF HideInv, Gone, Foreign, Holes, On
<1>8. Listed'
  BY <1>1, <1>2, <1>4 DEF HideInv, Listed, On, HolePoints, HidePoints, HeaderPoints, Modes
<1>9. Kept'
  BY <1>2, <1>5 DEF Kept
<1>10. Hide!CrashesAreExplained'
  BY <1>1, <1>2 DEF HideInv, Hide!CrashesAreExplained
<1>. QED
  BY <1>6, <1>7, <1>8, <1>9, <1>10 DEF HideInv

LEMMA HideUnload == ASSUME HideInv, Hide!Unload PROVE HideInv'
<1>1. HideType /\ crashed = "no" /\ ~unloaded /\ unloaded' = TRUE
      /\ UNCHANGED <<want, hider, snap, crashed, failed, taken, lost, hidden>>
  BY DEF HideInv, Hide!Unload, Hide!Running
<1>2. mem' \in [Ranges -> Mappings] /\ \A a \in Ranges : mem'[a].is = "none" /\ mem'[a].perm = {}
  BY DEF Hide!Unload, Hide!None, Mappings, Hide!Zeros
<1>3. hurt' = (hurt \/ \E a \in Ranges : mem[a].is = "other")
  BY DEF Hide!Unload
<1>4. HideType'
  BY <1>1, <1>2, <1>3 DEF HideType
<1>5. Gone' /\ Foreign' /\ Holes' /\ Listed' /\ Kept'
  BY <1>1, <1>2 DEF Gone, Foreign, Holes, Listed, Kept
<1>6. Hide!CrashesAreExplained'
  BY <1>1, <1>3 DEF HideInv, Foreign, Hide!CrashesAreExplained
<1>. QED
  BY <1>4, <1>5, <1>6 DEF HideInv

-----------------------------------------------------------------------------
LEMMA HideInit == Hide!Init => HideInv
<1>. SUFFICES ASSUME Hide!Init PROVE HideInv
  OBVIOUS
<1>1. /\ mem \in [Ranges -> Mappings] /\ snap = mem
      /\ \A a \in Ranges : mem[a].is = "lib" /\ mem[a].perm = Perm[a] /\ mem[a].data = 1
  BY HideAssumption DEF Hide!Init, Mappings, Modes
<1>2. hider \in Hiders /\ hider.at = "idle" /\ hider.todo = {}
  BY HideAssumption DEF Hide!Init, Hide!Idle, Hide!Bad, Hiders
<1>3. want \in [Ranges -> Nat \ {0}] /\ \A a \in Ranges : want[a] = 1
  BY DEF Hide!Init
<1>4. crashed = "no" /\ unloaded = FALSE /\ failed = FALSE /\ taken = FALSE /\ lost = {} /\ hurt = FALSE /\ hidden = {}
  BY DEF Hide!Init
<1>5. HideType
  BY <1>1, <1>2, <1>3, <1>4 DEF HideType, HidePoints, HeaderPoints
<1>6. Gone /\ Foreign /\ Holes /\ Hide!CrashesAreExplained
  BY <1>1, <1>4 DEF Gone, Foreign, Holes, Hide!CrashesAreExplained
<1>7. Listed /\ Kept
  BY <1>1, <1>2, <1>3, <1>4 DEF Listed, Kept, Known, On, HidePoints, HeaderPoints, HolePoints
<1>. QED
  BY <1>5, <1>6, <1>7 DEF HideInv

LEMMA HideNext == HideInv /\ [Hide!Next]_(Hide!vars) => HideInv'
<1>. SUFFICES ASSUME HideInv, [Hide!Next]_(Hide!vars) PROVE HideInv'
  OBVIOUS
<1>1. ASSUME NEW op \in {"hide", "header"}, Hide!ReadMaps(op) PROVE HideInv'
  BY <1>1, HideReadMaps
<1>2. ASSUME Hide!Steps PROVE HideInv'
  BY <1>2, HideNextItem, HideBackup, HideCopy, HideUnmap, HideMap, HideWritable, HideRestore, HideReadonly,
     HideHeader, HideProtect, HidePerms DEF Hide!Steps
<1>3. ASSUME NEW a \in Ranges, Hide!AppWrite(a) \/ Hide!AppUse(a) \/ Hide!MapOther(a) PROVE HideInv'
  BY <1>3, HideAppWrite, HideAppUse, HideMapOther
<1>4. CASE UNCHANGED Hide!vars
  BY <1>4 DEF Hide!vars, HideInv, HideType, Gone, Foreign, Holes, Listed, Kept, Known, On, Hide!CrashesAreExplained,
              Hide!A
<1>. QED
  BY <1>1, <1>2, <1>3, <1>4, HideUnload DEF Hide!Next

\* A hidden library stays usable: after the calls it is mapped where it was, with its
\* protection and its contents, and every crash and every harm has the cause that
\* HidingIsClean names, for any mappings, any protections of theirs and any number of calls.
THEOREM HidingClean == Hide!Spec => []HidingIsClean
<1>1. HideInv => HidingIsClean
  <2>. SUFFICES ASSUME HideInv PROVE Hide!RemappedAsItWas
    BY DEF HideInv, HidingIsClean, Hide!HidingIsClean
  <2>. QED
    BY DEF HideInv, Kept, Known, On, Hide!RemappedAsItWas, Hide!Ours, HidePoints, HeaderPoints
<1>. QED
  BY <1>1, HideInit, HideNext, PTL DEF Hide!Spec
-----------------------------------------------------------------------------
(* Loader: whoever is registered is told of every load. *)

LoadPoints == {"before", "in_before", "orig", "after", "in_after", "map", "return"}
Frames == [lib : Libs, at : LoadPoints, on : Nat, i : Nat \ {0}, before : Seq(Nat), after : Seq(Nat),
           known : SUBSET Nat, to : {"path", "other"}, over : BOOLEAN]
CallbackLists == [mem : {"live", "freed"}, items : Seq(Nat)]

\* The callbacks of the list, as long as there is only one.
Items == IF lists = <<>> THEN <<>> ELSE lists[1].items

\* s is the beginning of items.
Begins(s, items) == Len(s) <= Len(items) /\ \A k \in 1..Len(s) : s[k] = items[k]

Told(s) == {s[k] : k \in 1..Len(s)}

\* How far a load has come that walks a list of n lists, with these items.
Fits(f, n, items) ==
    /\ f.known \subseteq Told(items)
    /\ Begins(f.before, items) /\ Begins(f.after, items)
    /\ f.on \in {0, 1} /\ (f.on = 1 => n = 1)
    /\ f.at \in {"before", "in_before"} => Len(f.before) = f.i - 1 /\ f.after = <<>>
    /\ f.at \in {"after", "in_after"} => Len(f.after) = f.i - 1
    /\ f.at \in {"in_before", "in_after"} => f.on = 1 /\ f.i <= Len(items)
    /\ f.at = "orig" => f.i = 1 /\ f.on = 0 /\ f.after = <<>>
    /\ f.at \in {"before", "after"} /\ f.on = 0 => f.i = 1
    /\ f.at \notin {"before", "in_before"} => f.known \subseteq Told(f.before)
    /\ f.at \in {"map", "return"} => Len(f.before) <= Len(f.after)

Adders == {t \in Threads : user[t] # "no"}

LoadTypes ==
    /\ hooked \in Hooks /\ redirect \in BOOLEAN /\ overlap \in BOOLEAN
    /\ lists \in Seq(CallbackLists)
    /\ loads \in [Threads -> Seq(Frames)]
    /\ user \in [Threads -> {"no", "new_list", "add"}]
    /\ loaded \subseteq Libs
    /\ begun \in 0..LoaderLoads /\ ended \in {"no", "freed", "abort"}

\* Callbacks are numbered, and those that are being added have a number left.
Numbered ==
    /\ IsFiniteSet(added) /\ added = 1..Cardinality(added)
    /\ IsFiniteSet(Adders) /\ Cardinality(added) + Cardinality(Adders) <= MaxAdds
    /\ \A n \in 1..Len(lists) : Told(lists[n].items) \subseteq added

HasList == \A t \in Threads : user[t] = "add" => lists # <<>>

\* Without an overlap there is one list, which has every callback once, and one thread
\* that adds to it.
OneList == ~overlap =>
    /\ Len(lists) <= 1 /\ added \subseteq Told(Items)
    /\ \A j, k \in 1..Len(Items) : j # k => Items[j] # Items[k]
    /\ \A t \in Threads : user[t] = "new_list" => lists = <<>>
    /\ \A t, u \in Adders : t = u

\* A callback that is being told is on a list.
Inside(f) ==
    /\ f.on <= Len(lists)
    /\ f.at \in {"in_before", "in_after"} => f.on # 0 /\ f.i <= Len(lists[f.on].items)

Walks == ~overlap => \A t \in Threads : \A k \in 1..Len(loads[t]) : Fits(loads[t][k], Len(lists), Items)

AllInside == \A t \in Threads : \A k \in 1..Len(loads[t]) : Inside(loads[t][k])

LoadInv == LoadTypes /\ Numbered /\ HasList /\ OneList /\ AllInside /\ Walks

-----------------------------------------------------------------------------
\* Sequences of loads: what replacing the last one does.
LEMMA Replaced ==
  ASSUME NEW s \in Seq(Frames), s # <<>>, NEW f \in Frames
  PROVE  \E r \in Seq(Frames) : /\ r = Load!Front(s) \o <<f>>
                               /\ Len(r) = Len(s) /\ r[Len(s)] = f
                               /\ \A k \in 1..Len(s) : k # Len(s) => r[k] = s[k]
<1>1. Len(s) \in Nat \ {0} /\ Len(s) - 1 \in Int /\ \A k \in 1..Len(s) - 1 : s[k] \in Frames
  BY EmptySeq, ElementOfSeq
<1>2. Load!Front(s) = [k \in 1..(Len(s) - 1) |-> s[k]]
  BY <1>1 DEF Load!Front
<1>3. PICK p \in Seq(Frames) : p = Load!Front(s) /\ Len(p) = Len(s) - 1
  BY <1>1, <1>2
<1>4. \A k \in 1..Len(s) - 1 : p[k] = s[k]
  BY <1>2, <1>3
<1>. DEFINE r == p \o <<f>>
<1>5. r = p \o <<f>> /\ r = Load!Front(s) \o <<f>>
  BY <1>3
<1>. HIDE DEF r
<1>6. PICK q \in Seq(Frames) : q = <<f>> /\ Len(q) = 1 /\ q[1] = f
  <2>1. <<f>> \in Seq(Frames) /\ Len(<<f>>) = 1 /\ <<f>>[1] = f
    OBVIOUS
  <2>. QED
    BY <2>1
<1>7. r \in Seq(Frames) /\ Len(r) = Len(p) + Len(q)
      /\ \A k \in 1..Len(p) + Len(q) : r[k] = IF k <= Len(p) THEN p[k] ELSE q[k - Len(p)]
  <2>1. /\ p \o q \in Seq(Frames) /\ Len(p \o q) = Len(p) + Len(q)
        /\ \A k \in 1..Len(p) + Len(q) : (p \o q)[k] = IF k <= Len(p) THEN p[k] ELSE q[k - Len(p)]
    BY ConcatProperties
  <2>2. r = p \o q
    BY <1>5, <1>6
  <2>. QED
    BY <2>1, <2>2
<1>8. Len(r) = Len(s) /\ \A k \in 1..Len(s) : r[k] = IF k <= Len(s) - 1 THEN p[k] ELSE q[k - (Len(s) - 1)]
  BY <1>1, <1>3, <1>6, <1>7
<1>9. r[Len(s)] = q[1] /\ \A k \in 1..Len(s) : k # Len(s) => k \in 1..Len(s) - 1 /\ r[k] = p[k]
  BY <1>1, <1>8
<1>. QED
  BY <1>4, <1>5, <1>6, <1>7, <1>8, <1>9

\* A step that changes the last load of t, and nothing that the others depend on.
LEMMA TopStep ==
  ASSUME LoadInv, NEW t \in Threads, loads[t] # <<>>, NEW f \in Frames, Load!SetTop(t, f),
         Inside(f), ~overlap => Fits(f, Len(lists), Items),
         UNCHANGED <<hooked, lists, added, overlap, redirect, user, begun, ended>>,
         loaded' \subseteq Libs
  PROVE  LoadInv'
<1>1. loads \in [Threads -> Seq(Frames)] /\ loads[t] \in Seq(Frames)
  BY DEF LoadInv, LoadTypes
<1>2. PICK r \in Seq(Frames) :
        /\ r = Load!Front(loads[t]) \o <<f>>
        /\ Len(r) = Len(loads[t]) /\ r[Len(loads[t])] = f
        /\ \A k \in 1..Len(loads[t]) : k # Len(loads[t]) => r[k] = loads[t][k]
  BY <1>1, Replaced
<1>3. loads' = [loads EXCEPT ![t] = r]
  BY <1>2 DEF Load!SetTop
<1>4. loads' \in [Threads -> Seq(Frames)] /\ loads'[t] = r /\ \A u \in Threads : u # t => loads'[u] = loads[u]
  BY <1>1, <1>3
<1>5. LoadTypes'
  BY <1>4 DEF LoadInv, LoadTypes
<1>6. Numbered' /\ HasList' /\ OneList'
  BY DEF LoadInv, Numbered, HasList, OneList, Adders, Items
<1>7. AllInside'
  <2>. SUFFICES ASSUME NEW u \in Threads, NEW k \in 1..Len(loads'[u])
                PROVE  Inside(loads'[u][k])
    BY DEF AllInside, Inside
  <2>1. CASE u = t
    BY <1>1, <1>2, <1>4, <2>1 DEF LoadInv, AllInside
  <2>2. CASE u # t
    BY <1>4, <2>2 DEF LoadInv, AllInside
  <2>. QED
    BY <2>1, <2>2
<1>8. Walks'
  <2>. SUFFICES ASSUME ~overlap', NEW u \in Threads, NEW k \in 1..Len(loads'[u])
                PROVE  Fits(loads'[u][k], Len(lists), Items)
    BY DEF Walks, Items
  <2>1. CASE u = t
    BY <1>1, <1>2, <1>4, <2>1 DEF LoadInv, Walks
  <2>2. CASE u # t
    BY <1>4, <2>2 DEF LoadInv, Walks
  <2>. QED
    BY <2>1, <2>2
<1>. QED
  BY <1>5, <1>6, <1>7, <1>8 DEF LoadInv

\* What is known of the load that t is in.
LEMMA TopFacts ==
  ASSUME LoadInv, NEW t \in Threads, loads[t] # <<>>
  PROVE  /\ Load!Top(t) \in Frames
         /\ Inside(Load!Top(t))
         /\ ~overlap => Fits(Load!Top(t), Len(lists), Items)
<1>1. loads[t] \in Seq(Frames) /\ Len(loads[t]) \in 1..Len(loads[t])
  <2>1. loads[t] \in Seq(Frames)
    BY DEF LoadInv, LoadTypes
  <2>2. Len(loads[t]) \in Nat \ {0}
    BY <2>1, EmptySeq
  <2>. QED
    BY <2>1, <2>2
<1>2. Load!Top(t) = loads[t][Len(loads[t])]
  BY DEF Load!Top
<1>. QED
  BY <1>1, <1>2, ElementOfSeq DEF LoadInv, Walks, AllInside

LEMMA ListFacts ==
  ASSUME LoadInv
  PROVE  /\ Len(lists) \in Nat /\ (lists = <<>> <=> Len(lists) = 0)
         /\ \A n \in 1..Len(lists) : lists[n] \in CallbackLists
         /\ ~overlap => Items \in Seq(Nat) /\ Len(Items) \in Nat /\ Len(lists) \in {0, 1}
         /\ lists # <<>> => Items = lists[1].items
<1>1. lists \in Seq(CallbackLists) /\ Len(lists) \in Nat
  <2>1. lists \in Seq(CallbackLists)
    BY DEF LoadInv, LoadTypes
  <2>. QED
    BY <2>1, LenProperties
<1>2. lists = <<>> <=> Len(lists) = 0
  BY <1>1, EmptySeq
<1>3. \A n \in 1..Len(lists) : lists[n] \in CallbackLists
  BY <1>1, ElementOfSeq
<1>4. Items \in Seq(Nat)
  <2>1. CASE lists = <<>>
    BY <2>1, EmptySeq DEF Items
  <2>2. CASE lists # <<>>
    <3>1. lists[1] \in CallbackLists
      BY <1>1, <1>2, <1>3, <2>2
    <3>. QED
      BY <2>2, <3>1 DEF Items, CallbackLists
  <2>. QED
    BY <2>1, <2>2
<1>. QED
  <2>1. Len(Items) \in Nat
    BY <1>4, LenProperties
  <2>2. ~overlap => Len(lists) \in {0, 1}
    <3>1. ~overlap => Len(lists) <= 1
      BY DEF LoadInv, OneList
    <3>2. PICK n \in Nat : n = Len(lists)
      BY <1>1
    <3>3. n <= 1 => n \in {0, 1}
      OBVIOUS
    <3>. QED
      BY <3>1, <3>2, <3>3
  <2>. QED
    BY <1>1, <1>2, <1>3, <1>4, <2>1, <2>2 DEF Items

\* The list that t walks.
LEMMA WalkFacts ==
  ASSUME LoadInv, NEW t \in Threads, loads[t] # <<>>
  PROVE  /\ Load!Walked(t) \in 0..Len(lists)
         /\ Load!Walked(t) # 0 => Load!Walked(t) \in 1..Len(lists) /\ lists[Load!Walked(t)] \in CallbackLists
                                  /\ lists[Load!Walked(t)].items \in Seq(Nat)
                                  /\ Len(lists[Load!Walked(t)].items) \in Nat
         /\ ~overlap /\ Load!Walked(t) # 0 => Load!Walked(t) = 1 /\ Len(lists) = 1 /\ lists[Load!Walked(t)].items = Items
         /\ ~overlap /\ Load!Walked(t) = 0 => Load!Top(t).on = 0 /\ Items = <<>>
<1>. DEFINE f == Load!Top(t)
<1>1. f \in Frames /\ Inside(f) /\ (~overlap => Fits(f, Len(lists), Items))
  BY TopFacts
<1>2. Load!Walked(t) = IF f.on = 0 THEN Len(lists) ELSE f.on
  BY DEF Load!Walked
<1>. HIDE DEF f
<1>3. f.on \in Nat /\ f.on <= Len(lists) /\ (~overlap => f.on \in {0, 1})
  BY <1>1 DEF Frames, Inside, Fits
<1>4. /\ Len(lists) \in Nat /\ (lists = <<>> <=> Len(lists) = 0)
      /\ \A n \in 1..Len(lists) : lists[n] \in CallbackLists
      /\ ~overlap => Len(lists) \in {0, 1}
      /\ lists # <<>> => Items = lists[1].items
  BY ListFacts
<1>5. PICK w \in 0..Len(lists) : w = Load!Walked(t) /\ w = IF f.on = 0 THEN Len(lists) ELSE f.on
  BY <1>2, <1>3, <1>4
<1>6. w # 0 => w \in 1..Len(lists) /\ lists[w] \in CallbackLists
  BY <1>4, <1>5
<1>7. w # 0 => lists[w].items \in Seq(Nat) /\ Len(lists[w].items) \in Nat
  BY <1>6, LenProperties DEF CallbackLists
<1>8. ~overlap /\ w # 0 => w = 1 /\ Len(lists) = 1 /\ lists # <<>>
  BY <1>3, <1>4, <1>5
<1>9. ~overlap /\ w = 0 => f.on = 0 /\ Items = <<>>
  BY <1>3, <1>4, <1>5 DEF Items
<1>. QED
  BY <1>4, <1>5, <1>6, <1>7, <1>8, <1>9 DEF f

LEMMA TellKeeps ==
  ASSUME LoadInv, NEW t \in Threads, NEW where \in {"before", "after"}, NEW telling \in {"in_before", "in_after"},
         where = "before" => telling = "in_before", where = "after" => telling = "in_after", Load!Tell(t, where, telling)
  PROVE  LoadInv'
<1>1. /\ loads[t] # <<>> /\ Load!Top(t).at = where /\ Load!SetTop(t, [Load!Top(t) EXCEPT !.at = telling, !.on = Load!Walked(t)])
      /\ UNCHANGED <<hooked, lists, added, overlap, redirect, user, loaded, begun, ended>>
      /\ Load!Walked(t) # 0 /\ ~(Load!Top(t).i > Len(lists[Load!Walked(t)].items))
  BY DEF Load!Tell, Load!At, Load!InLoad, Load!listVars, Load!WalkDone
<1>2. PICK f \in Frames : f = Load!Top(t) /\ Inside(f) /\ (~overlap => Fits(f, Len(lists), Items))
  BY <1>1, TopFacts
<1>3. PICK w \in 1..Len(lists) : /\ w = Load!Walked(t) /\ lists[w].items \in Seq(Nat) /\ Len(lists[w].items) \in Nat
                                 /\ (~overlap => w = 1 /\ Len(lists) = 1 /\ lists[w].items = Items)
  BY <1>1, WalkFacts
<1>4. w \in Nat /\ Len(lists) \in Nat /\ w <= Len(lists)
  BY <1>3, ListFacts
<1>. DEFINE g == [f EXCEPT !.at = telling, !.on = w]
<1>5. /\ g \in Frames /\ g.at = telling /\ g.on = w /\ g.i = f.i /\ g.before = f.before /\ g.after = f.after /\ g.known = f.known
  BY <1>4 DEF Frames, LoadPoints
<1>6. Load!SetTop(t, g)
  BY <1>1, <1>2, <1>3
<1>. HIDE DEF g
<1>7. f.i <= Len(lists[w].items) /\ f.i \in Nat
  BY <1>1, <1>2, <1>3 DEF Frames
<1>8. Inside(g)
  BY <1>3, <1>4, <1>5, <1>7 DEF Inside
<1>9. ~overlap => Fits(g, Len(lists), Items)
  BY <1>1, <1>2, <1>3, <1>5, <1>7 DEF Fits
<1>10. loaded' \subseteq Libs
  BY <1>1 DEF LoadInv, LoadTypes
<1>. QED
  BY <1>1, <1>5, <1>6, <1>8, <1>9, <1>10, TopStep

\* The next callback is told, once.
LEMMA Extends ==
  ASSUME NEW s \in Seq(Nat), NEW items \in Seq(Nat), Begins(s, items), Len(s) < Len(items),
         NEW r, r = Append(s, items[Len(s) + 1])
  PROVE  r \in Seq(Nat) /\ Len(r) = Len(s) + 1 /\ Begins(r, items)
<1>1. Len(s) \in Nat /\ Len(items) \in Nat /\ Len(s) + 1 \in 1..Len(items)
  OBVIOUS
<1>2. items[Len(s) + 1] \in Nat
  BY <1>1
<1>3. r \in Seq(Nat) /\ Len(r) = Len(s) + 1 /\ r[Len(s) + 1] = items[Len(s) + 1]
      /\ \A k \in 1..Len(s) : r[k] = s[k]
  BY <1>1, <1>2
<1>. QED
  BY <1>1, <1>3 DEF Begins

LEMMA ToldKeeps ==
  ASSUME LoadInv, NEW t \in Threads, NEW where \in {"before", "after"}, NEW telling \in {"in_before", "in_after"},
         where = "before" => telling = "in_before", where = "after" => telling = "in_after", Load!Told(t, telling, where)
  PROVE  LoadInv'
<1>1. /\ loads[t] # <<>> /\ Load!Top(t).at = telling
      /\ Load!SetTop(t, [Load!Top(t) EXCEPT !.at = where, !.i = @ + 1,
                                         ![where] = Append(@, lists[Load!Walked(t)].items[Load!Top(t).i])])
      /\ UNCHANGED <<hooked, lists, added, overlap, redirect, user, loaded, begun, ended>>
  BY DEF Load!Told, Load!At, Load!InLoad, Load!listVars
<1>2. PICK f \in Frames : f = Load!Top(t) /\ Inside(f) /\ (~overlap => Fits(f, Len(lists), Items))
  BY <1>1, TopFacts
<1>3. f.on # 0 /\ f.i <= Len(lists[f.on].items) /\ f.at = telling /\ f.i \in Nat \ {0} /\ f.on <= Len(lists)
  BY <1>1, <1>2 DEF Inside, Frames
<1>4. Load!Walked(t) = f.on
  BY <1>2, <1>3 DEF Load!Walked
<1>5. PICK items \in Seq(Nat) : /\ items = lists[f.on].items /\ Len(items) \in Nat
                                /\ (~overlap => items = Items)
  BY <1>1, <1>3, <1>4, WalkFacts
<1>6. PICK c \in Nat : c = items[f.i]
  BY <1>3, <1>5
<1>7. PICK g \in Frames :
        /\ g = [f EXCEPT !.at = where, !.i = @ + 1, ![where] = Append(@, c)]
        /\ g.at = where /\ g.i = f.i + 1 /\ g.on = f.on /\ g.known = f.known
        /\ g.before = IF where = "before" THEN Append(f.before, c) ELSE f.before
        /\ g.after = IF where = "after" THEN Append(f.after, c) ELSE f.after
  <2>1. CASE where = "before"
    <3>2. PICK b \in Seq(Nat) : b = Append(f.before, c)
      <4>1. f.before \in Seq(Nat)
        BY DEF Frames
      <4>2. Append(f.before, c) \in Seq(Nat)
        BY <4>1
      <4>. QED
        BY <4>2
    <3>3. PICK n \in Nat \ {0} : n = f.i + 1
      BY <1>3
    <3>. DEFINE g == [f EXCEPT !.at = "before", !.i = n, !.before = b]
    <3>1. g = [f EXCEPT !.at = where, !.i = @ + 1, ![where] = Append(@, c)]
      BY <2>1, <3>2, <3>3
    <3>4. g \in Frames /\ g.at = "before" /\ g.i = f.i + 1 /\ g.on = f.on /\ g.known = f.known
          /\ g.before = Append(f.before, c) /\ g.after = f.after
      BY <3>2, <3>3 DEF Frames, LoadPoints
    <3>. QED
      BY <2>1, <3>1, <3>4
  <2>2. CASE where = "after"
    <3>2. PICK b \in Seq(Nat) : b = Append(f.after, c)
      <4>1. f.after \in Seq(Nat)
        BY DEF Frames
      <4>2. Append(f.after, c) \in Seq(Nat)
        BY <4>1
      <4>. QED
        BY <4>2
    <3>3. PICK n \in Nat \ {0} : n = f.i + 1
      BY <1>3
    <3>. DEFINE g == [f EXCEPT !.at = "after", !.i = n, !.after = b]
    <3>1. g = [f EXCEPT !.at = where, !.i = @ + 1, ![where] = Append(@, c)]
      BY <2>2, <3>2, <3>3
    <3>4. g \in Frames /\ g.at = "after" /\ g.i = f.i + 1 /\ g.on = f.on /\ g.known = f.known
          /\ g.before = f.before /\ g.after = Append(f.after, c)
      BY <3>2, <3>3 DEF Frames, LoadPoints
    <3>. QED
      BY <2>2, <3>1, <3>4
  <2>. QED
    BY <2>1, <2>2
<1>8. Load!SetTop(t, g)
  BY <1>1, <1>2, <1>4, <1>5, <1>6, <1>7
<1>9. Inside(g)
  BY <1>3, <1>7 DEF Inside
<1>10. ASSUME ~overlap PROVE Fits(g, Len(lists), Items)
  <2>1. Fits(f, Len(lists), Items) /\ items = Items
    BY <1>2, <1>5, <1>10
  <2>2. f.before \in Seq(Nat) /\ f.after \in Seq(Nat)
    BY DEF Frames
  <2>3. CASE where = "before"
    <3>1. Len(f.before) = f.i - 1 /\ Begins(f.before, items) /\ Len(f.before) \in Nat
      BY <1>3, <2>1, <2>2, <2>3 DEF Fits
    <3>2. Len(f.before) < Len(items) /\ c = items[Len(f.before) + 1]
      <4>1. PICK m \in Nat : m = Len(f.before)
        BY <3>1
      <4>2. f.i = m + 1
        BY <1>3, <3>1, <4>1
      <4>. QED
        BY <1>3, <1>5, <1>6, <4>1, <4>2
    <3>3. Len(g.before) = Len(f.before) + 1 /\ Begins(g.before, items)
      BY <1>7, <2>2, <2>3, <3>1, <3>2, Extends
    <3>4. Len(g.before) = g.i - 1
      BY <1>3, <1>7, <3>1, <3>3
    <3>. QED
      BY <1>3, <1>7, <2>1, <2>3, <3>3, <3>4 DEF Fits
  <2>4. CASE where = "after"
    <3>1. Len(f.after) = f.i - 1 /\ Begins(f.after, items) /\ Len(f.after) \in Nat
      BY <1>3, <2>1, <2>2, <2>4 DEF Fits
    <3>2. Len(f.after) < Len(items) /\ c = items[Len(f.after) + 1]
      <4>1. PICK m \in Nat : m = Len(f.after)
        BY <3>1
      <4>2. f.i = m + 1
        BY <1>3, <3>1, <4>1
      <4>. QED
        BY <1>3, <1>5, <1>6, <4>1, <4>2
    <3>3. Len(g.after) = Len(f.after) + 1 /\ Begins(g.after, items)
      BY <1>7, <2>2, <2>4, <3>1, <3>2, Extends
    <3>4. Len(g.after) = g.i - 1
      BY <1>3, <1>7, <3>1, <3>3
    <3>. QED
      BY <1>3, <1>7, <2>1, <2>4, <3>3, <3>4 DEF Fits
  <2>. QED
    BY <2>3, <2>4
<1>11. loaded' \subseteq Libs
  BY <1>1 DEF LoadInv, LoadTypes
<1>. QED
  BY <1>1, <1>8, <1>9, <1>10, <1>11, TopStep

LEMMA BeforeDoneKeeps == ASSUME LoadInv, NEW t \in Threads, Load!BeforeDone(t) PROVE LoadInv'
<1>1. /\ loads[t] # <<>> /\ Load!Top(t).at = "before" /\ Load!WalkDone(t)
      /\ Load!SetTop(t, [Load!Top(t) EXCEPT !.at = "orig", !.on = 0, !.i = 1, !.to = IF redirect THEN "other" ELSE @])
      /\ UNCHANGED <<hooked, lists, added, overlap, redirect, user, loaded, begun, ended>>
  BY DEF Load!BeforeDone, Load!At, Load!InLoad, Load!listVars
<1>2. PICK f \in Frames : f = Load!Top(t) /\ Inside(f) /\ (~overlap => Fits(f, Len(lists), Items))
  BY <1>1, TopFacts
<1>3. PICK path \in {"path", "other"} : path = IF redirect THEN "other" ELSE f.to
  BY DEF Frames
<1>. DEFINE g == [f EXCEPT !.at = "orig", !.on = 0, !.i = 1, !.to = path]
<1>4. g \in Frames /\ g.at = "orig" /\ g.on = 0 /\ g.i = 1 /\ g.before = f.before /\ g.after = f.after /\ g.known = f.known
  <2>. HIDE DEF g
  <2>. DEFINE h == [f EXCEPT !.at = "orig", !.to = path]
  <2>1. h \in Frames /\ h.at = "orig" /\ h.before = f.before /\ h.after = f.after /\ h.known = f.known
    BY DEF Frames, LoadPoints
  <2>2. g = [h EXCEPT !.on = 0, !.i = 1]
    BY DEF Frames, g
  <2>. HIDE DEF h
  <2>. DEFINE e == [h EXCEPT !.on = 0]
  <2>3. e \in Frames /\ e.on = 0 /\ e.at = h.at /\ e.before = h.before /\ e.after = h.after /\ e.known = h.known
    BY <2>1 DEF Frames
  <2>4. g = [e EXCEPT !.i = 1]
    BY <2>1, <2>2 DEF Frames
  <2>. HIDE DEF e
  <2>0. PICK n \in Nat \ {0} : n = 1
    OBVIOUS
  <2>. DEFINE d == [e EXCEPT !.i = n]
  <2>5. /\ d \in Frames /\ d.i = n /\ d.on = e.on /\ d.at = e.at
        /\ d.before = e.before /\ d.after = e.after /\ d.known = e.known
    BY <2>3 DEF Frames
  <2>6. g = d
    BY <2>0, <2>4
  <2>. HIDE DEF d
  <2>. QED
    BY <2>0, <2>1, <2>3, <2>5, <2>6
<1>5. Load!SetTop(t, g)
  BY <1>1, <1>2, <1>3
<1>. HIDE DEF g
<1>6. Inside(g)
  BY <1>4, ListFacts DEF Inside
<1>7. ASSUME ~overlap PROVE Fits(g, Len(lists), Items)
  <2>1. /\ Fits(f, Len(lists), Items) /\ f.before \in Seq(Nat) /\ Len(f.before) \in Nat
        /\ Items \in Seq(Nat) /\ Len(Items) \in Nat /\ f.i \in Nat
    BY <1>2, <1>7, ListFacts DEF Frames
  <2>2. Len(f.before) = Len(Items)
    <3>1. CASE Load!Walked(t) = 0
      <4>1. f.on = 0 /\ Items = <<>> /\ Len(Items) = 0
        BY <1>2, <1>7, <1>1, <3>1, WalkFacts
      <4>. QED
        BY <1>1, <1>2, <2>1, <4>1 DEF Fits
    <3>2. CASE Load!Walked(t) # 0
      <4>1. lists[Load!Walked(t)].items = Items
        BY <1>1, <1>7, <3>2, WalkFacts
      <4>2. f.i > Len(Items)
        BY <1>1, <1>2, <3>2, <4>1 DEF Load!WalkDone
      <4>. QED
        BY <1>1, <1>2, <2>1, <4>2 DEF Fits, Begins
    <3>. QED
      BY <3>1, <3>2
  <2>3. Told(Items) \subseteq Told(f.before)
    BY <2>1, <2>2 DEF Fits, Begins, Told
  <2>. QED
    BY <1>1, <1>2, <1>4, <2>1, <2>3 DEF Fits
<1>8. loaded' \subseteq Libs
  BY <1>1 DEF LoadInv, LoadTypes
<1>. QED
  BY <1>1, <1>4, <1>5, <1>6, <1>7, <1>8, TopStep

LEMMA OrigKeeps == ASSUME LoadInv, NEW t \in Threads, Load!Orig(t) PROVE LoadInv'
<1>1. /\ loads[t] # <<>> /\ Load!Top(t).at = "orig"
      /\ UNCHANGED <<hooked, lists, added, overlap, redirect, user, begun, ended>>
  BY DEF Load!Orig, Load!At, Load!InLoad, Load!listVars
<1>2. PICK f \in Frames : f = Load!Top(t) /\ Inside(f) /\ (~overlap => Fits(f, Len(lists), Items))
  BY <1>1, TopFacts
<1>3. PICK ok \in BOOLEAN :
         /\ loaded' = IF ok /\ hooked # "openat" THEN loaded \union {Load!Top(t).lib} ELSE loaded
         /\ Load!SetTop(t, [Load!Top(t) EXCEPT !.at = "after", !.over = hooked # "openat" \/ ~ok])
  BY DEF Load!Orig
<1>4. PICK over \in BOOLEAN : over = (hooked # "openat" \/ ~ok)
  OBVIOUS
<1>. DEFINE g == [f EXCEPT !.at = "after", !.over = over]
<1>5. g \in Frames /\ g.at = "after" /\ g.on = f.on /\ g.i = f.i /\ g.before = f.before /\ g.after = f.after /\ g.known = f.known
  BY DEF Frames, LoadPoints
<1>6. Load!SetTop(t, g)
  BY <1>2, <1>3, <1>4
<1>. HIDE DEF g
<1>7. Inside(g)
  BY <1>2, <1>5 DEF Inside
<1>8. ~overlap => Fits(g, Len(lists), Items)
  BY <1>1, <1>2, <1>5, EmptySeq DEF Fits
<1>9. loaded' \subseteq Libs
  BY <1>2, <1>3 DEF LoadInv, LoadTypes, Frames
<1>. QED
  BY <1>1, <1>5, <1>6, <1>7, <1>8, <1>9, TopStep

LEMMA AfterDoneKeeps == ASSUME LoadInv, NEW t \in Threads, Load!AfterDone(t) PROVE LoadInv'
<1>1. /\ loads[t] # <<>> /\ Load!Top(t).at = "after" /\ Load!WalkDone(t)
      /\ Load!Goto(t, IF Load!Top(t).over THEN "return" ELSE "map")
      /\ UNCHANGED <<hooked, lists, added, overlap, redirect, user, loaded, begun, ended>>
  BY DEF Load!AfterDone, Load!At, Load!InLoad, Load!listVars
<1>2. PICK f \in Frames : f = Load!Top(t) /\ Inside(f) /\ (~overlap => Fits(f, Len(lists), Items))
  BY <1>1, TopFacts
<1>3. PICK where \in {"return", "map"} : where = IF f.over THEN "return" ELSE "map"
  OBVIOUS
<1>. DEFINE g == [f EXCEPT !.at = where]
<1>4. g \in Frames /\ g.at = where /\ g.on = f.on /\ g.i = f.i /\ g.before = f.before /\ g.after = f.after /\ g.known = f.known
  BY DEF Frames, LoadPoints
<1>5. Load!SetTop(t, g)
  BY <1>1, <1>2, <1>3 DEF Load!Goto
<1>. HIDE DEF g
<1>6. Inside(g)
  BY <1>2, <1>4 DEF Inside
<1>7. ASSUME ~overlap PROVE Fits(g, Len(lists), Items)
  <2>1. /\ Fits(f, Len(lists), Items) /\ Len(f.before) \in Nat /\ Len(f.after) \in Nat
        /\ Len(Items) \in Nat /\ f.i \in Nat
    BY <1>2, <1>7, ListFacts DEF Frames
  <2>2. Len(f.before) <= Len(f.after)
    <3>1. CASE Load!Walked(t) = 0
      <4>1. Items = <<>> /\ Len(Items) = 0
        BY <1>7, <1>1, <3>1, WalkFacts
      <4>. QED
        BY <2>1, <4>1 DEF Fits, Begins
    <3>2. CASE Load!Walked(t) # 0
      <4>1. lists[Load!Walked(t)].items = Items
        BY <1>1, <1>7, <3>2, WalkFacts
      <4>2. f.i > Len(Items)
        BY <1>1, <1>2, <3>2, <4>1 DEF Load!WalkDone
      <4>3. Len(f.after) = f.i - 1 /\ Len(f.before) <= Len(Items)
        BY <1>1, <1>2, <2>1 DEF Fits, Begins
      <4>. QED
        BY <2>1, <4>2, <4>3
    <3>. QED
      BY <3>1, <3>2
  <2>. QED
    BY <1>1, <1>2, <1>4, <2>1, <2>2 DEF Fits
<1>8. loaded' \subseteq Libs
  BY <1>1 DEF LoadInv, LoadTypes
<1>. QED
  BY <1>1, <1>4, <1>5, <1>6, <1>7, <1>8, TopStep

LEMMA MapKeeps == ASSUME LoadInv, NEW t \in Threads, Load!Map(t) PROVE LoadInv'
<1>1. /\ loads[t] # <<>> /\ Load!Top(t).at = "map"
      /\ loaded' = loaded \union {Load!Top(t).lib}
      /\ Load!SetTop(t, [Load!Top(t) EXCEPT !.at = "return", !.over = TRUE])
      /\ UNCHANGED <<hooked, lists, added, overlap, redirect, user, begun, ended>>
  BY DEF Load!Map, Load!At, Load!InLoad, Load!listVars
<1>2. PICK f \in Frames : f = Load!Top(t) /\ Inside(f) /\ (~overlap => Fits(f, Len(lists), Items))
  BY <1>1, TopFacts
<1>. DEFINE g == [f EXCEPT !.at = "return", !.over = TRUE]
<1>3. g \in Frames /\ g.at = "return" /\ g.on = f.on /\ g.i = f.i /\ g.before = f.before /\ g.after = f.after /\ g.known = f.known
  BY DEF Frames, LoadPoints
<1>4. Load!SetTop(t, g)
  BY <1>1, <1>2
<1>. HIDE DEF g
<1>5. Inside(g)
  BY <1>2, <1>3 DEF Inside
<1>6. ~overlap => Fits(g, Len(lists), Items)
  BY <1>1, <1>2, <1>3 DEF Fits
<1>7. loaded' \subseteq Libs
  BY <1>1, <1>2 DEF LoadInv, LoadTypes, Frames
<1>. QED
  BY <1>1, <1>3, <1>4, <1>5, <1>6, <1>7, TopStep

\* A load that begins or ends leaves the others as they are.
LEMMA LoadsStep ==
  ASSUME LoadInv, loads' \in [Threads -> Seq(Frames)],
         \A u \in Threads : \A k \in 1..Len(loads'[u]) :
            \/ k \in 1..Len(loads[u]) /\ loads'[u][k] = loads[u][k]
            \/ Inside(loads'[u][k]) /\ (~overlap => Fits(loads'[u][k], Len(lists), Items)),
         UNCHANGED <<hooked, lists, added, overlap, redirect, user, loaded, ended>>, begun' \in 0..LoaderLoads
  PROVE  LoadInv'
<1>1. LoadTypes'
  BY DEF LoadInv, LoadTypes
<1>2. Numbered' /\ HasList' /\ OneList'
  BY DEF LoadInv, Numbered, HasList, OneList, Adders, Items
<1>3. AllInside'
  <2>. SUFFICES ASSUME NEW u \in Threads, NEW k \in 1..Len(loads'[u])
                PROVE  Inside(loads'[u][k])
    BY DEF AllInside, Inside
  <2>. QED
    BY DEF LoadInv, AllInside
<1>4. Walks'
  <2>. SUFFICES ASSUME ~overlap', NEW u \in Threads, NEW k \in 1..Len(loads'[u])
                PROVE  Fits(loads'[u][k], Len(lists), Items)
    BY DEF Walks, Items
  <2>. QED
    BY DEF LoadInv, Walks
<1>. QED
  BY <1>1, <1>2, <1>3, <1>4 DEF LoadInv

LEMMA LoadKeeps == ASSUME LoadInv, NEW t \in Threads, NEW l \in Libs, Load!Load(t, l) PROVE LoadInv'
<1>1. /\ loads' = [loads EXCEPT ![t] = Append(@, Load!NewLoad(l))]
      /\ begun < LoaderLoads /\ begun' = begun + 1
      /\ UNCHANGED <<hooked, lists, added, overlap, redirect, user, loaded, ended>>
  BY DEF Load!Load, Load!listVars
<1>2. PICK f \in Frames : /\ f = Load!NewLoad(l) /\ f.at = "before" /\ f.on = 0 /\ f.i = 1
                          /\ f.before = <<>> /\ f.after = <<>> /\ f.known = added
  <2>1. added \subseteq Nat
    <3>1. added = 1..Cardinality(added) /\ Cardinality(added) \in Nat
      BY FS_CardinalityType DEF LoadInv, Numbered
    <3>. QED
      BY <3>1
  <2>2. <<>> \in Seq(Nat)
    OBVIOUS
  <2>3. Load!NewLoad(l) \in Frames
    BY <2>1, <2>2 DEF Load!NewLoad, Frames, LoadPoints
  <2>. QED
    BY <2>3 DEF Load!NewLoad
<1>3. loads \in [Threads -> Seq(Frames)] /\ loads[t] \in Seq(Frames)
  BY DEF LoadInv, LoadTypes
<1>4. PICK r \in Seq(Frames) : /\ r = Append(loads[t], f) /\ Len(r) = Len(loads[t]) + 1 /\ r[Len(loads[t]) + 1] = f
                               /\ \A k \in 1..Len(loads[t]) : r[k] = loads[t][k]
  <2>1. /\ Append(loads[t], f) \in Seq(Frames) /\ Len(Append(loads[t], f)) = Len(loads[t]) + 1
        /\ Append(loads[t], f)[Len(loads[t]) + 1] = f
        /\ \A k \in 1..Len(loads[t]) : Append(loads[t], f)[k] = loads[t][k]
    BY <1>3
  <2>. QED
    BY <2>1
<1>5. loads' \in [Threads -> Seq(Frames)] /\ loads'[t] = r /\ \A u \in Threads : u # t => loads'[u] = loads[u]
  BY <1>1, <1>2, <1>3, <1>4
<1>6. Inside(f)
  BY <1>2, ListFacts DEF Inside
<1>7. ~overlap => Fits(f, Len(lists), Items)
  <2>1. Len(<<>>) = 0
    OBVIOUS
  <2>2. ~overlap => added \subseteq Told(Items) /\ Len(Items) \in Nat
    BY ListFacts DEF LoadInv, OneList
  <2>. QED
    BY <1>2, <2>1, <2>2 DEF Fits, Begins
<1>8. Len(loads[t]) \in Nat
  BY <1>3, LenProperties
<1>9. ASSUME NEW u \in Threads, NEW k \in 1..Len(loads'[u])
      PROVE  \/ k \in 1..Len(loads[u]) /\ loads'[u][k] = loads[u][k]
             \/ Inside(loads'[u][k]) /\ (~overlap => Fits(loads'[u][k], Len(lists), Items))
  <2>1. CASE u # t
    BY <1>5, <2>1
  <2>2. CASE u = t /\ k \in 1..Len(loads[t])
    BY <1>4, <1>5, <2>2
  <2>3. CASE u = t /\ k \notin 1..Len(loads[t])
    <3>1. k = Len(loads[t]) + 1
      BY <1>4, <1>5, <1>8, <2>3
    <3>. QED
      BY <1>4, <1>5, <1>6, <1>7, <2>3, <3>1
  <2>. QED
    BY <2>1, <2>2, <2>3
<1>10. begun' \in 0..LoaderLoads
  BY <1>1, LoaderAssumption DEF LoadInv, LoadTypes
<1>. QED
  BY <1>1, <1>5, <1>9, <1>10, LoadsStep

LEMMA ReturnKeeps == ASSUME LoadInv, NEW t \in Threads, Load!Return(t) PROVE LoadInv'
<1>1. /\ loads[t] # <<>> /\ loads' = [loads EXCEPT ![t] = Load!Front(@)]
      /\ UNCHANGED <<hooked, lists, added, overlap, redirect, user, loaded, begun, ended>>
  BY DEF Load!Return, Load!At, Load!InLoad, Load!listVars
<1>2. loads \in [Threads -> Seq(Frames)] /\ loads[t] \in Seq(Frames)
  BY DEF LoadInv, LoadTypes
<1>3. Len(loads[t]) \in Nat \ {0}
  BY <1>1, <1>2, EmptySeq
<1>4. Load!Front(loads[t]) = [k \in 1..(Len(loads[t]) - 1) |-> loads[t][k]]
  BY <1>2, <1>3 DEF Load!Front
<1>5. PICK r \in Seq(Frames) : r = Load!Front(loads[t]) /\ Len(r) = Len(loads[t]) - 1
  BY <1>2, <1>3, <1>4
<1>6. \A k \in 1..Len(loads[t]) - 1 : r[k] = loads[t][k]
  BY <1>4, <1>5
<1>7. loads' \in [Threads -> Seq(Frames)] /\ loads'[t] = r /\ \A u \in Threads : u # t => loads'[u] = loads[u]
  BY <1>1, <1>2, <1>5
<1>8. ASSUME NEW u \in Threads, NEW k \in 1..Len(loads'[u])
      PROVE  k \in 1..Len(loads[u]) /\ loads'[u][k] = loads[u][k]
  <2>1. CASE u # t
    BY <1>7, <2>1
  <2>2. CASE u = t
    <3>1. PICK n \in Nat : n = Len(loads[t])
      BY <1>3
    <3>2. k \in 1..n - 1 /\ loads'[u][k] = r[k]
      BY <1>5, <1>7, <2>2, <3>1
    <3>3. k \in 1..n
      BY <3>1, <3>2
    <3>. QED
      BY <1>6, <2>2, <3>1, <3>2, <3>3
  <2>3. u = t \/ u # t
    OBVIOUS
  <2>. QED
    BY <2>1, <2>2, <2>3
<1>9. begun' \in 0..LoaderLoads
  BY <1>1 DEF LoadInv, LoadTypes
<1>. QED
  BY <1>1, <1>7, <1>8, <1>9, LoadsStep

-----------------------------------------------------------------------------
(* The calls of linkerHandler *)

\* A load stays where it is when the list grows.
LEMMA ListStep ==
  ASSUME LoadInv, UNCHANGED loads, overlap => overlap', Len(lists) <= Len(lists'), Len(lists') \in Nat,
         \A n \in 1..Len(lists) : /\ Len(lists'[n].items) \in Nat
                                  /\ Len(lists[n].items) <= Len(lists'[n].items),
         ~overlap' => /\ Len(lists') <= 1
                      /\ Len(Items') \in Nat /\ Len(Items) <= Len(Items')
                      /\ \A k \in 1..Len(Items) : Items'[k] = Items[k]
  PROVE  AllInside' /\ Walks'
<1>1. loads \in [Threads -> Seq(Frames)] /\ Len(lists) \in Nat
  BY ListFacts DEF LoadInv, LoadTypes
<1>2. \A n \in 1..Len(lists) : Len(lists[n].items) \in Nat
  <2>. SUFFICES ASSUME NEW n \in 1..Len(lists) PROVE Len(lists[n].items) \in Nat
    OBVIOUS
  <2>1. lists[n].items \in Seq(Nat)
    BY ListFacts DEF CallbackLists
  <2>. QED
    BY <2>1, LenProperties
<1>3. ASSUME NEW u \in Threads, NEW k \in 1..Len(loads[u])
      PROVE  /\ loads[u][k] \in Frames /\ loads[u][k].on \in Nat /\ loads[u][k].i \in Nat
             /\ Len(loads[u][k].before) \in Nat /\ Len(loads[u][k].after) \in Nat
  <2>1. PICK f \in Frames : f = loads[u][k]
    BY <1>1, ElementOfSeq
  <2>2. f.before \in Seq(Nat) /\ f.after \in Seq(Nat) /\ f.on \in Nat /\ f.i \in Nat
    BY DEF Frames
  <2>3. Len(f.before) \in Nat /\ Len(f.after) \in Nat
    BY <2>2, LenProperties
  <2>. QED
    BY ONLY <2>1, <2>2, <2>3
<1>4. AllInside'
  <2>. SUFFICES ASSUME NEW u \in Threads, NEW k \in 1..Len(loads[u])
                PROVE  Inside(loads[u][k])'
    BY DEF AllInside
  <2>1. PICK f \in Frames : f = loads[u][k] /\ Inside(f)
    BY <1>3 DEF LoadInv, AllInside
  <2>2. PICK o \in Nat : o = f.on
    BY DEF Frames
  <2>3. PICK i \in Nat : i = f.i
    BY DEF Frames
  <2>4. o <= Len(lists) /\ o <= Len(lists')
    BY <1>1, <2>1, <2>2 DEF Inside
  <2>5. ASSUME f.at \in {"in_before", "in_after"}
        PROVE  o # 0 /\ i <= Len(lists'[o].items)
    <3>1. o # 0 /\ i <= Len(lists[o].items)
      BY <2>1, <2>2, <2>3, <2>5 DEF Inside
    <3>2. o \in 1..Len(lists)
      BY <1>1, <2>4, <3>1
    <3>. QED
      BY <1>2, <3>1, <3>2
  <2>. QED
    BY <2>1, <2>2, <2>3, <2>4, <2>5 DEF Inside
<1>5. Walks'
  <2>. SUFFICES ASSUME ~overlap', NEW u \in Threads, NEW k \in 1..Len(loads[u])
                PROVE  Fits(loads[u][k], Len(lists'), Items')
    BY DEF Walks
  <2>1. PICK f \in Frames : f = loads[u][k] /\ Fits(f, Len(lists), Items)
    BY <1>3 DEF LoadInv, Walks
  <2>2. Len(Items) \in Nat /\ Len(f.before) \in Nat /\ Len(f.after) \in Nat /\ f.i \in Nat
    BY <1>3, <2>1, ListFacts
  <2>3. Told(Items) \subseteq Told(Items')
    BY <2>2 DEF Told
  <2>4. Begins(f.before, Items') /\ Begins(f.after, Items')
    <3>1. Begins(f.before, Items) /\ Begins(f.after, Items)
      BY <2>1 DEF Fits
    <3>2. PICK m \in Nat : m = Len(Items)
      BY <2>2
    <3>3. PICK n \in Nat : n = Len(Items')
      OBVIOUS
    <3>4. m <= n /\ \A j \in 1..m : Items'[j] = Items[j]
      BY <3>2, <3>3
    <3>5. Begins(f.before, Items')
      <4>1. PICK l \in Nat : l = Len(f.before)
        BY <2>2
      <4>2. l <= m /\ \A j \in 1..l : f.before[j] = Items[j]
        BY <3>1, <3>2, <4>1 DEF Begins
      <4>. QED
        BY <3>3, <3>4, <4>1, <4>2 DEF Begins
    <3>6. Begins(f.after, Items')
      <4>1. PICK l \in Nat : l = Len(f.after)
        BY <2>2
      <4>2. l <= m /\ \A j \in 1..l : f.after[j] = Items[j]
        BY <3>1, <3>2, <4>1 DEF Begins
      <4>. QED
        BY <3>3, <3>4, <4>1, <4>2 DEF Begins
    <3>. QED
      BY <3>5, <3>6
  <2>5. f.on = 1 => Len(lists') = 1
    <3>1. f.on = 1 => Len(lists) = 1
      BY <2>1 DEF Fits
    <3>2. Len(lists') <= 1 /\ Len(lists) <= Len(lists') /\ Len(lists') \in Nat
      OBVIOUS
    <3>3. PICK m \in Nat : m = Len(lists')
      BY <3>2
    <3>4. PICK n \in Nat : n = Len(lists)
      BY <1>1
    <3>5. m <= 1 /\ n <= m
      BY <3>2, <3>3, <3>4
    <3>6. n = 1 => m = 1
      BY <3>5
    <3>. QED
      BY <3>1, <3>3, <3>4, <3>6
  <2>6. f.at \in {"in_before", "in_after"} => f.on = 1 /\ f.i <= Len(Items')
    BY <2>1, <2>2 DEF Fits
  <2>. QED
    BY <2>1, <2>3, <2>4, <2>5, <2>6 DEF Fits
<1>. QED
  BY <1>4, <1>5

\* A call that adds a callback begins.
LEMMA AddCheckKeeps == ASSUME LoadInv, NEW t \in Threads, Load!AddCheck(t) PROVE LoadInv'
<1>1. /\ user[t] = "no"
      /\ Cardinality(added) + Cardinality(Adders) < MaxAdds
      /\ user' = [user EXCEPT ![t] = IF lists = <<>> THEN "new_list" ELSE "add"]
      /\ overlap' = (overlap \/ Adders # {})
      /\ UNCHANGED <<hooked, lists, redirect, loads, loaded, added, begun, ended>>
  <2>1. \A S : Load!Cardinality(S) = Cardinality(S)
    BY DEF Load!Cardinality, Cardinality
  <2>2. Load!Busy = Adders
    BY DEF Load!Busy, Adders
  <2>. QED
    BY <2>1, <2>2 DEF Load!AddCheck, Load!MayCall
<1>2. LoadTypes /\ Numbered /\ HasList /\ OneList
  BY DEF LoadInv
<1>3. user \in [Threads -> {"no", "new_list", "add"}] /\ overlap \in BOOLEAN
  BY <1>2 DEF LoadTypes
<1>4. /\ user' \in [Threads -> {"no", "new_list", "add"}] /\ user'[t] # "no"
      /\ \A u \in Threads : u # t => user'[u] = user[u]
      /\ user'[t] = "add" => lists # <<>>
      /\ user'[t] = "new_list" => lists = <<>>
  BY <1>1, <1>3
<1>5. LoadTypes'
  BY <1>1, <1>2, <1>3, <1>4 DEF LoadTypes
<1>6. Numbered'
  <2>1. Adders' = Adders \union {t} /\ t \notin Adders
    BY <1>1, <1>4 DEF Adders
  <2>2. IsFiniteSet(Adders') /\ Cardinality(Adders') = Cardinality(Adders) + 1
    BY <1>2, <2>1, FS_AddElement DEF Numbered
  <2>3. Cardinality(added) \in Nat /\ Cardinality(Adders) \in Nat
    BY <1>2, FS_CardinalityType DEF Numbered
  <2>4. Cardinality(added) + Cardinality(Adders') <= MaxAdds
    BY <1>1, <2>2, <2>3, LoaderAssumption
  <2>. QED
    BY <1>1, <1>2, <2>2, <2>4 DEF Numbered
<1>7. HasList'
  BY <1>1, <1>2, <1>4 DEF HasList
<1>8. OneList'
  <2>. SUFFICES ASSUME ~overlap' PROVE OneList'
    BY DEF OneList
  <2>1. ~overlap /\ Adders = {}
    BY <1>1, <1>3
  <2>2. Adders' = {t}
    BY <1>1, <1>4, <2>1 DEF Adders
  <2>3. \A u \in Threads : user'[u] = "new_list" => lists = <<>>
    BY <1>4, <2>1 DEF Adders
  <2>. QED
    BY <1>1, <1>2, <2>1, <2>2, <2>3 DEF OneList, Items
<1>9. AllInside' /\ Walks'
  BY <1>1, <1>3 DEF LoadInv, AllInside, Inside, Walks, Items
<1>. QED
  BY <1>5, <1>6, <1>7, <1>8, <1>9 DEF LoadInv

LEMMA NewListKeeps == ASSUME LoadInv, NEW t \in Threads, Load!NewList(t) PROVE LoadInv'
<1>1. /\ user[t] = "new_list"
      /\ lists' = Append(lists, [mem |-> "live", items |-> <<>>])
      /\ user' = [user EXCEPT ![t] = "add"]
      /\ UNCHANGED <<hooked, redirect, loads, loaded, added, overlap, begun, ended>>
  BY DEF Load!NewList
<1>2. LoadTypes /\ Numbered /\ HasList /\ OneList
  BY DEF LoadInv
<1>3. user \in [Threads -> {"no", "new_list", "add"}] /\ lists \in Seq(CallbackLists) /\ Len(lists) \in Nat
  BY <1>2, ListFacts DEF LoadTypes
<1>4. PICK c \in CallbackLists : c = [mem |-> "live", items |-> <<>>] /\ c.items = <<>> /\ Len(c.items) = 0
  <2>1. <<>> \in Seq(Nat) /\ Len(<<>>) = 0
    OBVIOUS
  <2>. DEFINE c == [mem |-> "live", items |-> <<>>]
  <2>2. c \in CallbackLists /\ c.items = <<>>
    BY <2>1 DEF CallbackLists
  <2>. QED
    BY <2>1, <2>2
<1>5. /\ lists' \in Seq(CallbackLists) /\ Len(lists') = Len(lists) + 1 /\ lists'[Len(lists) + 1] = c
      /\ \A n \in 1..Len(lists) : lists'[n] = lists[n]
  BY <1>1, <1>3, <1>4
<1>6. lists' # <<>> /\ Len(lists') \in Nat
  BY <1>3, <1>5, EmptySeq
<1>7. /\ user' \in [Threads -> {"no", "new_list", "add"}] /\ user'[t] = "add"
      /\ \A u \in Threads : u # t => user'[u] = user[u]
  BY <1>1, <1>3
<1>8. Adders' = Adders
  BY <1>1, <1>7 DEF Adders
<1>9. LoadTypes'
  BY <1>1, <1>2, <1>5, <1>7 DEF LoadTypes
<1>10. Numbered'
  <2>1. \A n \in 1..Len(lists') : Told(lists'[n].items) \subseteq added
    <3>. SUFFICES ASSUME NEW n \in 1..Len(lists') PROVE Told(lists'[n].items) \subseteq added
      OBVIOUS
    <3>1. CASE n \in 1..Len(lists)
      BY <1>2, <1>5, <3>1 DEF Numbered
    <3>2. CASE n \notin 1..Len(lists)
      <4>1. n = Len(lists) + 1
        BY <1>3, <1>5, <3>2
      <4>. QED
        BY <1>4, <1>5, <4>1 DEF Told
    <3>. QED
      BY <3>1, <3>2
  <2>. QED
    BY <1>1, <1>2, <1>8, <2>1 DEF Numbered
<1>11. HasList'
  BY <1>6 DEF HasList
<1>12. ASSUME ~overlap
       PROVE  /\ lists = <<>> /\ Len(lists) = 0 /\ Len(lists') = 1 /\ Items = <<>> /\ Items' = <<>> /\ Len(Items') = 0
              /\ \A u \in Threads : user'[u] # "new_list"
  <2>1. lists = <<>> /\ Items = <<>> /\ Len(lists) = 0
    BY <1>1, <1>2, <1>12 DEF OneList, Items
  <2>2. Len(lists') = 1 /\ lists'[1] = c
    BY <1>5, <2>1
  <2>3. Items' = c.items
    BY <1>6, <2>2 DEF Items
  <2>4. \A u \in Threads : user[u] = "new_list" => u = t
    BY <1>1, <1>2, <1>12 DEF OneList, Adders
  <2>. QED
    BY <1>4, <1>7, <2>1, <2>2, <2>3, <2>4
<1>13. OneList'
  <2>. SUFFICES ASSUME ~overlap PROVE OneList'
    BY <1>1 DEF OneList
  <2>1. added \subseteq Told(Items) /\ Told(<<>>) = {}
    BY <1>2 DEF OneList, Told
  <2>2. added \subseteq Told(Items')
    BY <1>12, <2>1
  <2>. QED
    BY <1>1, <1>2, <1>8, <1>12, <2>2 DEF OneList
<1>14. AllInside' /\ Walks'
  <2>1. \A n \in 1..Len(lists) : /\ Len(lists'[n].items) \in Nat
                                 /\ Len(lists[n].items) <= Len(lists'[n].items)
    <3>. SUFFICES ASSUME NEW n \in 1..Len(lists)
                  PROVE  Len(lists'[n].items) \in Nat /\ Len(lists[n].items) <= Len(lists'[n].items)
      OBVIOUS
    <3>1. lists[n].items \in Seq(Nat) /\ lists'[n] = lists[n]
      BY <1>5, ListFacts DEF CallbackLists
    <3>2. Len(lists[n].items) \in Nat
      BY <3>1, LenProperties
    <3>. QED
      BY <3>1, <3>2
  <2>2. Len(lists) <= Len(lists')
    BY <1>3, <1>5
  <2>3. ~overlap' => /\ Len(lists') <= 1
                     /\ Len(Items') \in Nat /\ Len(Items) <= Len(Items')
                     /\ \A k \in 1..Len(Items) : Items'[k] = Items[k]
    <3>1. Len(<<>>) = 0
      OBVIOUS
    <3>. QED
      BY <1>1, <1>12, <3>1
  <2>. QED
    BY <1>1, <1>6, <2>1, <2>2, <2>3, ListStep
<1>. QED
  BY <1>9, <1>10, <1>11, <1>13, <1>14 DEF LoadInv

LEMMA AddCallbackKeeps == ASSUME LoadInv, NEW t \in Threads, Load!AddCallback(t) PROVE LoadInv'
<1>. DEFINE c == Cardinality(added) + 1
<1>1. /\ user[t] = "add" /\ user' = [user EXCEPT ![t] = "no"]
      /\ UNCHANGED <<hooked, redirect, loads, loaded, overlap, begun>>
  BY DEF Load!AddCallback
<1>2. \/ ended' = "freed" /\ UNCHANGED <<lists, added>>
      \/ /\ lists' = [lists EXCEPT ![Len(lists)].items = Append(@, c)]
         /\ added' = added \union {c} /\ UNCHANGED ended
  <2>1. Load!NextCallback = c
    BY DEF Load!NextCallback, Load!Cardinality, Cardinality
  <2>. QED
    BY <2>1 DEF Load!AddCallback, Load!Inserted
<1>3. LoadTypes /\ Numbered /\ HasList /\ OneList
  BY DEF LoadInv
<1>4. user \in [Threads -> {"no", "new_list", "add"}] /\ lists \in Seq(CallbackLists) /\ lists # <<>>
      /\ Len(lists) \in Nat \ {0} /\ Len(lists) \in 1..Len(lists)
  <2>1. lists # <<>> /\ user \in [Threads -> {"no", "new_list", "add"}]
    BY <1>1, <1>3 DEF LoadTypes, HasList
  <2>2. Len(lists) \in Nat /\ (lists = <<>> <=> Len(lists) = 0)
    BY ListFacts
  <2>. QED
    BY <1>3, <2>1, <2>2 DEF LoadTypes
<1>5. /\ user' \in [Threads -> {"no", "new_list", "add"}] /\ user'[t] = "no"
      /\ \A u \in Threads : u # t => user'[u] = user[u]
  BY <1>1, <1>4
<1>6. Cardinality(added) \in Nat /\ added = 1..Cardinality(added) /\ IsFiniteSet(added)
      /\ Cardinality(Adders) \in Nat /\ IsFiniteSet(Adders)
  BY <1>3, FS_CardinalityType DEF Numbered
<1>7. Adders' = Adders \ {t} /\ IsFiniteSet(Adders') /\ Cardinality(Adders') = Cardinality(Adders) - 1
      /\ Cardinality(Adders') \in Nat
  <2>1. Adders' = Adders \ {t} /\ t \in Adders
    BY <1>1, <1>5 DEF Adders
  <2>2. IsFiniteSet(Adders') /\ Cardinality(Adders') = Cardinality(Adders) - 1
    BY <1>6, <2>1, FS_RemoveElement
  <2>. QED
    BY <2>1, <2>2, FS_CardinalityType
<1>8. \A u, v \in Adders' : u \in Adders /\ v \in Adders
  BY <1>7
<1>9. CASE ended' = "freed" /\ UNCHANGED <<lists, added>>
  <2>1. LoadTypes'
    BY <1>1, <1>3, <1>5, <1>9 DEF LoadTypes
  <2>2. Numbered'
    <3>1. Cardinality(added) + Cardinality(Adders') <= MaxAdds
      BY <1>3, <1>6, <1>7, LoaderAssumption DEF Numbered
    <3>. QED
      BY <1>3, <1>7, <1>9, <3>1 DEF Numbered
  <2>3. HasList'
    BY <1>4, <1>9 DEF HasList
  <2>4. OneList'
    BY <1>1, <1>3, <1>5, <1>8, <1>9 DEF OneList, Items
  <2>5. AllInside' /\ Walks'
    BY <1>1, <1>9 DEF LoadInv, AllInside, Inside, Walks, Items
  <2>. QED
    BY <2>1, <2>2, <2>3, <2>4, <2>5 DEF LoadInv
<1>10. CASE /\ lists' = [lists EXCEPT ![Len(lists)].items = Append(@, c)]
            /\ added' = added \union {c} /\ UNCHANGED ended
  <2>1. PICK n \in Nat : n = c
    BY <1>6
  <2>2. n \notin added /\ added' = 1..n /\ Cardinality(added') = n /\ IsFiniteSet(added')
    <3>1. added' = 1..n /\ n \notin added
      BY <1>6, <1>10, <2>1
    <3>. QED
      BY <1>6, <1>10, <2>1, <3>1, FS_AddElement
  <2>3. PICK end \in CallbackLists : end = lists[Len(lists)]
    BY <1>4, ListFacts
  <2>4. end.items \in Seq(Nat) /\ Len(end.items) \in Nat
    BY LenProperties DEF CallbackLists
  <2>5. PICK items \in Seq(Nat) : /\ items = Append(end.items, n) /\ Len(items) = Len(end.items) + 1
                                  /\ items[Len(end.items) + 1] = n
                                  /\ \A k \in 1..Len(end.items) : items[k] = end.items[k]
    <3>1. /\ Append(end.items, n) \in Seq(Nat) /\ Len(Append(end.items, n)) = Len(end.items) + 1
          /\ Append(end.items, n)[Len(end.items) + 1] = n
          /\ \A k \in 1..Len(end.items) : Append(end.items, n)[k] = end.items[k]
      BY <2>4
    <3>. QED
      BY <3>1
  <2>. DEFINE new == [end EXCEPT !.items = items]
  <2>6. new \in CallbackLists /\ new.items = items
    BY DEF CallbackLists
  <2>7. lists' = [lists EXCEPT ![Len(lists)] = new]
    BY <1>4, <1>10, <2>1, <2>3, <2>5
  <2>. HIDE DEF new
  <2>8. /\ lists' \in Seq(CallbackLists) /\ Len(lists') = Len(lists) /\ lists'[Len(lists)] = new
        /\ \A j \in 1..Len(lists) : j # Len(lists) => lists'[j] = lists[j]
    BY <1>4, <2>6, <2>7
  <2>9. lists' # <<>>
    BY <1>4, <2>8, EmptySeq
  <2>10. Told(items) = Told(end.items) \union {n}
    <3>1. Told(items) \subseteq Told(end.items) \union {n}
      BY <2>4, <2>5 DEF Told
    <3>2. n \in Told(items)
      BY <2>4, <2>5 DEF Told
    <3>3. Told(end.items) \subseteq Told(items)
      BY <2>4, <2>5 DEF Told
    <3>. QED
      BY <3>1, <3>2, <3>3
  <2>11. LoadTypes'
    BY <1>1, <1>3, <1>5, <1>10, <2>8 DEF LoadTypes
  <2>12. Numbered'
    <3>1. Cardinality(added') + Cardinality(Adders') <= MaxAdds
      BY <1>3, <1>6, <1>7, <2>1, <2>2, LoaderAssumption DEF Numbered
    <3>2. \A j \in 1..Len(lists') : Told(lists'[j].items) \subseteq added'
      <4>. SUFFICES ASSUME NEW j \in 1..Len(lists) PROVE Told(lists'[j].items) \subseteq added'
        BY <2>8
      <4>1. Told(lists[j].items) \subseteq added
        BY <1>3 DEF Numbered
      <4>2. CASE j = Len(lists)
        BY <1>10, <2>1, <2>3, <2>6, <2>8, <2>10, <4>1, <4>2
      <4>3. CASE j # Len(lists)
        BY <1>10, <2>8, <4>1, <4>3
      <4>. QED
        BY <4>2, <4>3
    <3>. QED
      BY <1>7, <2>2, <3>1, <3>2 DEF Numbered
  <2>13. HasList'
    BY <2>9 DEF HasList
  <2>14. ASSUME ~overlap
         PROVE  Len(lists) = 1 /\ Items = end.items /\ Items' = items
    <3>1. Len(lists) <= 1
      BY <1>3, <2>14 DEF OneList
    <3>2. Len(lists) = 1
      <4>1. PICK m \in Nat \ {0} : m = Len(lists)
        BY <1>4
      <4>2. m = 1
        BY <3>1, <4>1
      <4>. QED
        BY <4>1, <4>2
    <3>. QED
      BY <1>4, <2>3, <2>6, <2>8, <2>9, <3>2 DEF Items
  <2>15. OneList'
    <3>. SUFFICES ASSUME ~overlap PROVE OneList'
      BY <1>1 DEF OneList
    <3>1. added' \subseteq Told(Items')
      BY <1>3, <1>10, <2>1, <2>10, <2>14 DEF OneList
    <3>2. \A j, k \in 1..Len(items) : j # k => items[j] # items[k]
      <4>. SUFFICES ASSUME NEW j \in 1..Len(items), NEW k \in 1..Len(items), j # k PROVE items[j] # items[k]
        OBVIOUS
      <4>1. \A m \in 1..Len(end.items) : end.items[m] # n
        <5>1. Told(end.items) \subseteq added
          BY <1>3, <1>4, <2>3 DEF Numbered
        <5>. QED
          BY <2>2, <5>1 DEF Told
      <4>2. \A l, m \in 1..Len(end.items) : l # m => end.items[l] # end.items[m]
        BY <1>3, <2>14 DEF OneList
      <4>3. j \in 1..Len(end.items) \/ j = Len(end.items) + 1
        BY <2>4, <2>5
      <4>4. k \in 1..Len(end.items) \/ k = Len(end.items) + 1
        BY <2>4, <2>5
      <4>. QED
        BY <2>5, <4>1, <4>2, <4>3, <4>4
    <3>3. \A u \in Threads : user'[u] # "new_list"
      BY <1>1, <1>3, <1>4, <1>5 DEF OneList
    <3>4. Len(lists') <= 1
      BY <2>8, <2>14
    <3>5. \A u, v \in Adders' : u = v
      BY <1>3, <1>8 DEF OneList
    <3>. QED
      BY <2>14, <3>1, <3>2, <3>3, <3>4, <3>5 DEF OneList
  <2>16. AllInside' /\ Walks'
    <3>1. \A j \in 1..Len(lists) : /\ Len(lists'[j].items) \in Nat
                                   /\ Len(lists[j].items) <= Len(lists'[j].items)
      <4>. SUFFICES ASSUME NEW j \in 1..Len(lists)
                    PROVE  Len(lists'[j].items) \in Nat /\ Len(lists[j].items) <= Len(lists'[j].items)
        OBVIOUS
      <4>1. CASE j = Len(lists)
        BY <2>3, <2>4, <2>5, <2>6, <2>8, <4>1
      <4>2. CASE j # Len(lists)
        <5>1. lists[j].items \in Seq(Nat) /\ lists'[j] = lists[j]
          BY <2>8, <4>2, ListFacts DEF CallbackLists
        <5>2. Len(lists[j].items) \in Nat
          BY <5>1, LenProperties
        <5>. QED
          BY <5>1, <5>2
      <4>. QED
        BY <4>1, <4>2
    <3>2. Len(lists) <= Len(lists') /\ Len(lists') \in Nat
      BY <1>4, <2>8
    <3>3. ~overlap' => /\ Len(lists') <= 1
                       /\ Len(Items') \in Nat /\ Len(Items) <= Len(Items')
                       /\ \A k \in 1..Len(Items) : Items'[k] = Items[k]
      BY <1>1, <2>4, <2>5, <2>8, <2>14
    <3>. QED
      BY <1>1, <3>1, <3>2, <3>3, ListStep
  <2>. QED
    BY <2>11, <2>12, <2>13, <2>15, <2>16 DEF LoadInv
<1>. QED
  BY <1>2, <1>9, <1>10

\* A freed list keeps its callbacks, as far as anyone may look.
LEMMA CleanKeeps == ASSUME LoadInv, NEW t \in Threads, Load!CleanCallBack(t) PROVE LoadInv'
<1>1. /\ lists # <<>>
      /\ \/ ended' = "freed" /\ UNCHANGED lists
         \/ lists' = [lists EXCEPT ![Len(lists)].mem = "freed"] /\ UNCHANGED ended
      /\ UNCHANGED <<hooked, redirect, loads, user, loaded, added, overlap, begun>>
  BY DEF Load!CleanCallBack
<1>2. lists \in Seq(CallbackLists) /\ Len(lists) \in Nat \ {0} /\ Len(lists) \in 1..Len(lists)
  <2>1. Len(lists) \in Nat /\ (lists = <<>> <=> Len(lists) = 0)
    BY ListFacts
  <2>. QED
    BY <1>1, <2>1 DEF LoadInv, LoadTypes
<1>3. /\ lists' \in Seq(CallbackLists) /\ Len(lists') = Len(lists)
      /\ \A n \in 1..Len(lists) : lists'[n].items = lists[n].items
  <2>1. CASE UNCHANGED lists
    BY <1>2, <2>1
  <2>2. CASE lists' = [lists EXCEPT ![Len(lists)].mem = "freed"]
    <3>1. PICK end \in CallbackLists : end = lists[Len(lists)]
      BY <1>2, ListFacts
    <3>. DEFINE new == [end EXCEPT !.mem = "freed"]
    <3>2. new \in CallbackLists /\ new.items = end.items
      BY DEF CallbackLists
    <3>3. lists' = [lists EXCEPT ![Len(lists)] = new]
      BY <1>2, <2>2, <3>1
    <3>. HIDE DEF new
    <3>. QED
      BY <1>2, <3>1, <3>2, <3>3
  <2>. QED
    BY <1>1, <2>1, <2>2
<1>4. lists' # <<>> /\ Items' = Items
  <2>1. lists' # <<>>
    BY <1>2, <1>3, EmptySeq
  <2>. QED
    BY <1>1, <1>2, <1>3, <2>1 DEF Items
<1>5. LoadTypes'
  BY <1>1, <1>3 DEF LoadInv, LoadTypes
<1>6. Numbered'
  BY <1>1, <1>3 DEF LoadInv, Numbered, Adders
<1>7. HasList' /\ OneList'
  BY <1>1, <1>3, <1>4 DEF LoadInv, HasList, OneList, Adders
<1>8. AllInside'
  <2>. SUFFICES ASSUME NEW u \in Threads, NEW k \in 1..Len(loads[u]) PROVE Inside(loads[u][k])'
    BY <1>1 DEF AllInside
  <2>1. PICK f \in Frames : f = loads[u][k] /\ Inside(f)
    BY ElementOfSeq DEF LoadInv, LoadTypes, AllInside
  <2>2. f.on \in Nat /\ f.on <= Len(lists)
    BY <2>1 DEF Frames, Inside
  <2>3. f.on # 0 => f.on \in 1..Len(lists)
    BY <1>2, <2>2
  <2>. QED
    BY <1>1, <1>3, <2>1, <2>3 DEF Inside
<1>9. Walks'
  BY <1>1, <1>3, <1>4 DEF LoadInv, Walks
<1>. QED
  BY <1>5, <1>6, <1>7, <1>8, <1>9 DEF LoadInv

\* The other steps leave the loads and the lists alone.
LEMMA QuietLoadStep ==
  ASSUME LoadInv, UNCHANGED <<hooked, lists, added, overlap, loads, user, loaded, begun>>,
         redirect' \in BOOLEAN, ended' \in {"no", "freed", "abort"}
  PROVE  LoadInv'
  BY DEF LoadInv, LoadTypes, Numbered, HasList, OneList, Adders, Items, AllInside, Inside, Walks

-----------------------------------------------------------------------------
LEMMA LoadInit == Load!Init => LoadInv
<1>. SUFFICES ASSUME Load!Init PROVE LoadInv
  OBVIOUS
<1>1. /\ hooked \in Hooks /\ lists = <<>> /\ redirect = FALSE
      /\ loads = [t \in Threads |-> <<>>] /\ user = [t \in Threads |-> "no"]
      /\ loaded = {} /\ added = {} /\ overlap = FALSE /\ begun = 0 /\ ended = "no"
  BY DEF Load!Init
<1>2. Len(<<>>) = 0 /\ <<>> \in Seq(Frames) /\ <<>> \in Seq(CallbackLists)
  OBVIOUS
<1>3. LoadTypes
  <2>1. lists \in Seq(CallbackLists) /\ loads \in [Threads -> Seq(Frames)]
    BY <1>1, <1>2
  <2>2. user \in [Threads -> {"no", "new_list", "add"}] /\ loaded \subseteq Libs
    BY <1>1
  <2>3. begun \in 0..LoaderLoads
    BY <1>1, LoaderAssumption
  <2>. QED
    BY <1>1, <2>1, <2>2, <2>3 DEF LoadTypes
<1>4. Adders = {} /\ Items = <<>> /\ \A t \in Threads : loads[t] = <<>> /\ user[t] = "no"
  BY <1>1 DEF Adders, Items
<1>5. Numbered
  <2>1. IsFiniteSet({}) /\ Cardinality({}) = 0
    BY FS_EmptySet
  <2>. QED
    BY <1>1, <1>2, <1>4, <2>1, LoaderAssumption DEF Numbered
<1>6. HasList /\ OneList /\ AllInside /\ Walks
  BY <1>1, <1>2, <1>4 DEF HasList, OneList, AllInside, Walks
<1>. QED
  BY <1>3, <1>5, <1>6 DEF LoadInv

LEMMA LoadNext == LoadInv /\ [Load!Next]_(Load!vars) => LoadInv'
<1>. SUFFICES ASSUME LoadInv, [Load!Next]_(Load!vars) PROVE LoadInv'
  OBVIOUS
<1>1. ASSUME NEW t \in Threads, NEW l \in Libs, Load!Load(t, l) PROVE LoadInv'
  BY <1>1, LoadKeeps
<1>2. ASSUME NEW t \in Threads, Load!LoadSteps(t) PROVE LoadInv'
  <2>1. CASE Load!LoadBefore(t)
    <3>1. CASE Load!Tell(t, "before", "in_before")
      BY <3>1, TellKeeps
    <3>2. CASE Load!Told(t, "in_before", "before")
      BY <3>2, ToldKeeps
    <3>. QED
      BY <2>1, <3>1, <3>2 DEF Load!LoadBefore
  <2>2. CASE Load!LoadAfter(t)
    <3>1. CASE Load!Tell(t, "after", "in_after")
      BY <3>1, TellKeeps
    <3>2. CASE Load!Told(t, "in_after", "after")
      BY <3>2, ToldKeeps
    <3>. QED
      BY <2>2, <3>1, <3>2 DEF Load!LoadAfter
  <2>3. CASE Load!WalkFreed(t)
    BY <2>3, QuietLoadStep DEF Load!WalkFreed, Load!listVars, LoadInv, LoadTypes
  <2>. QED
    BY <1>2, <2>1, <2>2, <2>3, BeforeDoneKeeps, OrigKeeps, AfterDoneKeeps, MapKeeps, ReturnKeeps DEF Load!LoadSteps
<1>3. ASSUME NEW t \in Threads, Load!AddCheck(t) \/ Load!AddSteps(t) \/ Load!CleanCallBack(t) PROVE LoadInv'
  BY <1>3, AddCheckKeeps, NewListKeeps, AddCallbackKeeps, CleanKeeps DEF Load!AddSteps
<1>4. ASSUME NEW t \in Threads, Load!SetRedirect(t) PROVE LoadInv'
  BY <1>4, QuietLoadStep DEF Load!SetRedirect, Load!listVars, LoadInv, LoadTypes
<1>5. CASE UNCHANGED Load!vars
  BY <1>5, QuietLoadStep DEF Load!vars, Load!listVars, LoadInv, LoadTypes
<1>. QED
  BY <1>1, <1>2, <1>3, <1>4, <1>5 DEF Load!Next

\* A sequence without repetitions has as many elements as places.
LEMMA CountDistinct ==
  ASSUME NEW s \in Seq(Nat), \A j, k \in 1..Len(s) : j # k => s[j] # s[k]
  PROVE  Load!Cardinality(Load!ToSet(s)) = Len(s)
<1>1. Len(s) \in Nat /\ s \in [1..Len(s) -> Nat] /\ DOMAIN s = 1..Len(s)
  BY LenProperties
<1>2. Load!ToSet(s) = Told(s)
  BY <1>1 DEF Load!ToSet, Told
<1>3. s \in Bijection(1..Len(s), Told(s))
  BY <1>1 DEF Bijection, Injection, Surjection, IsInjective, Told
<1>4. Cardinality(Told(s)) = Len(s)
  BY <1>1, <1>3, FS_CountingElements DEF ExistsBijection
<1>5. Load!Cardinality(Told(s)) = Cardinality(Told(s))
  BY DEF Load!Cardinality, Cardinality
<1>. QED
  BY <1>2, <1>4, <1>5

\* A load ends with every callback told that was there when it began, before and
\* after, in one order and once.
LEMMA LoadTold == LoadInv => EveryLoadIsTold
<1>. SUFFICES ASSUME LoadInv PROVE EveryLoadIsTold
  OBVIOUS
<1>1. Load!TypeOK
  <2>1. \A n \in DOMAIN lists : lists[n].mem \in {"live", "freed"} /\ Load!ToSet(lists[n].items) \subseteq added
    <3>. SUFFICES ASSUME NEW n \in DOMAIN lists
                  PROVE  lists[n].mem \in {"live", "freed"} /\ Load!ToSet(lists[n].items) \subseteq added
      OBVIOUS
    <3>1. n \in 1..Len(lists)
      BY LenProperties DEF LoadInv, LoadTypes
    <3>2. lists[n] \in CallbackLists /\ Told(lists[n].items) \subseteq added
      BY <3>1, ListFacts DEF LoadInv, Numbered
    <3>3. lists[n].items \in Seq(Nat)
      BY <3>2 DEF CallbackLists
    <3>4. DOMAIN lists[n].items = 1..Len(lists[n].items)
      BY <3>3, LenProperties
    <3>5. Load!ToSet(lists[n].items) = Told(lists[n].items)
      BY <3>4 DEF Load!ToSet, Told
    <3>. QED
      BY <3>2, <3>5 DEF CallbackLists
  <2>2. added \subseteq 1..MaxAdds
    <3>1. Cardinality(added) \in Nat /\ Cardinality(Adders) \in Nat
          /\ added = 1..Cardinality(added) /\ Cardinality(added) + Cardinality(Adders) <= MaxAdds
      BY FS_CardinalityType DEF LoadInv, Numbered
    <3>2. Cardinality(added) <= MaxAdds
      BY <3>1, LoaderAssumption
    <3>. QED
      BY <3>1, <3>2, LoaderAssumption
  <2>. QED
    BY <2>1, <2>2 DEF LoadInv, LoadTypes, Load!TypeOK
<1>2. ASSUME NEW t \in Threads, NEW k \in DOMAIN loads[t], loads[t][k].at = "return", ~overlap
      PROVE  /\ Load!IsPrefix(loads[t][k].before, loads[t][k].after)
             /\ loads[t][k].known \subseteq Load!ToSet(loads[t][k].before)
             /\ Load!Cardinality(Load!ToSet(loads[t][k].after)) = Len(loads[t][k].after)
  <2>1. loads[t] \in Seq(Frames) /\ k \in 1..Len(loads[t])
    BY LenProperties DEF LoadInv, LoadTypes
  <2>2. PICK f \in Frames : f = loads[t][k] /\ Fits(f, Len(lists), Items)
    BY <1>2, <2>1, ElementOfSeq DEF LoadInv, Walks
  <2>3. f.before \in Seq(Nat) /\ f.after \in Seq(Nat) /\ Items \in Seq(Nat) /\ Len(Items) \in Nat
    BY <1>2, ListFacts DEF Frames
  <2>4. Len(f.before) \in Nat /\ Len(f.after) \in Nat
    BY <2>3, LenProperties
  <2>5. Begins(f.before, Items) /\ Begins(f.after, Items) /\ Len(f.before) <= Len(f.after)
        /\ f.known \subseteq Told(f.before)
    BY <1>2, <2>2 DEF Fits
  <2>6. \A j \in 1..Len(f.before) : f.before[j] = f.after[j]
    BY <2>4, <2>5 DEF Begins
  <2>7. Load!IsPrefix(f.before, f.after)
    <3>1. SubSeq(f.before, 1, Len(f.before)) = [j \in 1..Len(f.before) |-> f.before[j]]
      BY <2>3, <2>4
    <3>2. SubSeq(f.after, 1, Len(f.before)) = [j \in 1..Len(f.before) |-> f.after[j]]
      BY <2>3, <2>4, <2>5
    <3>. QED
      BY <2>5, <2>6, <3>1, <3>2 DEF Load!IsPrefix
  <2>8. Load!ToSet(f.before) = Told(f.before)
    BY <2>3, LenProperties DEF Load!ToSet, Told
  <2>9. \A i, j \in 1..Len(f.after) : i # j => f.after[i] # f.after[j]
    <3>1. \A i, j \in 1..Len(Items) : i # j => Items[i] # Items[j]
      BY <1>2 DEF LoadInv, OneList
    <3>2. \A i \in 1..Len(f.after) : i \in 1..Len(Items) /\ f.after[i] = Items[i]
      <4>1. PICK m \in Nat : m = Len(f.after)
        BY <2>4
      <4>2. PICK n \in Nat : n = Len(Items)
        BY <2>3
      <4>3. m <= n /\ \A i \in 1..m : f.after[i] = Items[i]
        BY <2>5, <4>1, <4>2 DEF Begins
      <4>4. \A i \in 1..m : i \in 1..n
        BY <4>3
      <4>. QED
        BY <4>1, <4>2, <4>3, <4>4
    <3>. QED
      BY <3>1, <3>2
  <2>10. Load!Cardinality(Load!ToSet(f.after)) = Len(f.after)
    BY <2>3, <2>9, CountDistinct
  <2>. QED
    BY <2>2, <2>5, <2>7, <2>8, <2>10
<1>. QED
  BY <1>1, <1>2 DEF EveryLoadIsTold, Load!EveryLoadIsTold

\* Whoever is registered is told of every load, before and after it, for any threads,
\* libraries and number of loads and callbacks, as long as no two calls of
\* addLinkerCallBack overlap.
THEOREM LoadsTold == Load!Spec => []EveryLoadIsTold
  BY LoadInit, LoadNext, LoadTold, PTL DEF Load!Spec
-----------------------------------------------------------------------------
(* SoList: the linker's list *)

\* What the list is to hold.
Members == {Libdl} \union (live \ removed)
Blocks == Soinfos \union {Libdl}

\* rank numbers the members along the list.
Chained(rank) ==
    /\ \A s, p \in Members : rank[s] = rank[p] => s = p
    /\ \A s \in Members : rank[Libdl] <= rank[s]
    /\ \A s \in Members : next[s] # Null => next[s] \in Members /\ rank[s] < rank[next[s]]
    /\ \A s, p \in Members : rank[s] < rank[p] => next[s] # Null /\ rank[next[s]] <= rank[p]

IsTail(e) == e \in Members /\ next[e] = Null

\* The copy holds what is before the element that comes next.
Copies(f, rank) == f.at = "list" =>
    /\ f.i = 1 /\ \A k \in 1..Len(f.seen) : f.seen[k] \in Members
    /\ f.trav = Null => \A s \in Members : \E k \in 1..Len(f.seen) : f.seen[k] = s
    /\ f.trav # Null =>
         /\ f.trav \in Members
         /\ \A k \in 1..Len(f.seen) : rank[f.seen[k]] < rank[f.trav]
         /\ \A s \in Members : rank[s] < rank[f.trav] => \E k \in 1..Len(f.seen) : f.seen[k] = s

\* The libraries that are still to be removed are in the rest of the copy, and the
\* rest of the copy is in the list.
Rest(f) == IF f.at = "tail" THEN f.i + 1 ELSE f.i
Compares(f) == f.at \in {"match", "find", "unlink", "tail"} =>
    /\ \A k \in Rest(f)..Len(f.seen) : f.seen[k] \in Members
    /\ \A s \in Members \intersect target : \E k \in Rest(f)..Len(f.seen) : f.seen[k] = s

\* The search does not pass the library that it looks for, and stops at the one before.
Finds(f, rank) ==
    /\ f.at \in {"find", "unlink", "tail"} => f.i <= Len(f.seen)
    /\ f.at \in {"find", "unlink"} => f.seen[f.i] \in target
    /\ f.at = "find" =>
         /\ f.trav \in Members /\ rank[f.trav] <= rank[f.seen[f.i]]
         /\ f.trav # Libdl => f.prev \in Members /\ next[f.prev] = f.trav
    /\ f.at = "unlink" => f.prev \in Members /\ next[f.prev] = f.seen[f.i]
    /\ f.at = "tail" => IF sonext = f.seen[f.i] THEN IsTail(f.prev) ELSE IsTail(sonext)

Fine(f, rank) ==
    /\ \A j, k \in 1..Len(f.seen) : f.seen[j] = f.seen[k] => j = k
    /\ Copies(f, rank) /\ Compares(f) /\ Finds(f, rank)
    /\ f.at = "done" => Members \intersect target = {}

LinkerFine ==
    /\ linker.at = "load" => IsTail(linker.si)
    /\ linker.at = "unload" => linker.prev \in Members /\ next[linker.prev] = linker.si
                               /\ linker.si \in live
TailKept == linker.at # "load" /\ (\A r \in Removers : remover[r].at # "tail") => IsTail(sonext)

\* One operation at a time.
Alone ==
    /\ \A r, u \in Removers : List!Active(r) /\ List!Active(u) => r = u
    /\ linker.at # "idle" => \A r \in Removers : ~List!Active(r)
    /\ guards = IF List!Busy THEN 1 ELSE 0
LockKept ==
    /\ linker.at # "idle" => lock = "linker"
    /\ \A r \in Removers : List!Active(r) /\ holds[r] => lock = r

Removals == [at : {"idle", "list", "match", "find", "unlink", "tail", "done"}, seen : Seq(Blocks),
             i : Nat \ {0}, trav : Blocks \union {Null}, prev : Blocks \union {Null}]
LinkerSteps == [at : {"idle", "load", "unload"}, si : Soinfos \union {Null}, prev : Blocks \union {Null}]
ListTypes ==
    /\ List!TypeOK
    /\ remover \in [Removers -> Removals] /\ linker \in LinkerSteps /\ holds \in [Removers -> BOOLEAN]
    /\ linker.at = "load" => linker.si \in Soinfos

ListRight ==
    /\ Alone /\ LinkerFine /\ TailKept
    /\ \E rank \in [Blocks -> Nat] : Chained(rank) /\ \A r \in Removers : Fine(remover[r], rank)

ListInv ==
    /\ ListTypes /\ LockKept /\ misused = FALSE
    /\ raced => List!Busy /\ \E r \in Removers : ~holds[r]
    /\ ~raced => ListRight

-----------------------------------------------------------------------------
\* The walk along the list, the way Listed defines it.
After(x) == IF x = Null THEN Null ELSE next[x]
WalkOf(g, m) == g[0] = Libdl /\ \A k \in 1..m : g[k] = After(g[k - 1])
Places == Blocks \union {Null}

LEMMA WalkExists ==
  ASSUME next \in [Blocks -> Places], NEW m \in Nat
  PROVE  \E g \in [Nat -> Places] : WalkOf(g, m)
<1>. DEFINE Bad == {n \in Nat : ~ \E g \in [Nat -> Places] : WalkOf(g, n)}
<1>1. SUFFICES ASSUME Bad # {} PROVE FALSE
  OBVIOUS
<1>2. PICK n \in Bad : \A l \in Bad : n <= l
  BY <1>1, LeastOf
<1>3. n \in Nat /\ ~ \E g \in [Nat -> Places] : WalkOf(g, n)
  OBVIOUS
<1>4. CASE n = 0
  <2>1. WalkOf([k \in Nat |-> Libdl], 0)
    BY DEF WalkOf
  <2>2. [k \in Nat |-> Libdl] \in [Nat -> Places]
    BY DEF Places, Blocks
  <2>. QED
    BY <1>3, <1>4, <2>1, <2>2
<1>5. CASE n # 0
  <2>1. n - 1 \in Nat /\ n - 1 \notin Bad
    BY <1>2, <1>3, <1>5
  <2>2. PICK g \in [Nat -> Places] : WalkOf(g, n - 1)
    BY <2>1
  <2>. DEFINE h == [g EXCEPT ![n] = After(g[n - 1])]
  <2>3. After(g[n - 1]) \in Places
    BY <2>1 DEF After, Places
  <2>4. h \in [Nat -> Places] /\ h[n] = After(g[n - 1]) /\ \A k \in Nat : k # n => h[k] = g[k]
    BY <1>3, <2>3
  <2>. HIDE DEF h
  <2>5. h[0] = Libdl
    BY <1>5, <2>2, <2>4 DEF WalkOf
  <2>6. ASSUME NEW k \in 1..n PROVE h[k] = After(h[k - 1])
    <3>1. k - 1 \in Nat /\ k - 1 # n
      BY <1>3
    <3>2. CASE k = n
      BY <2>4, <3>1, <3>2
    <3>3. CASE k # n
      <4>1. k \in 1..n - 1 /\ k \in Nat
        BY <1>3, <3>3
      <4>. QED
        BY <2>2, <2>4, <3>1, <3>3, <4>1 DEF WalkOf
    <3>. QED
      BY <3>2, <3>3
  <2>7. WalkOf(h, n)
    BY <2>5, <2>6 DEF WalkOf
  <2>. QED
    BY <1>3, <2>4, <2>7
<1>. QED
  BY <1>4, <1>5

LEMMA WalkUnique ==
  ASSUME NEW m \in Nat, NEW n \in Nat, m <= n, NEW g, NEW h, WalkOf(g, m), WalkOf(h, n),
         NEW k \in 0..m
  PROVE  g[k] = h[k]
<1>. DEFINE Bad == {l \in 0..m : g[l] # h[l]}
<1>1. SUFFICES ASSUME Bad # {} PROVE FALSE
  OBVIOUS
<1>2. PICK l \in Bad : \A j \in Bad : l <= j
  <2>1. Bad \in SUBSET Nat
    OBVIOUS
  <2>. QED
    BY <1>1, <2>1, LeastOf
<1>3. l \in 0..m /\ g[l] # h[l]
  OBVIOUS
<1>4. CASE l = 0
  BY <1>3, <1>4 DEF WalkOf
<1>5. CASE l # 0
  <2>1. l - 1 \in 0..m /\ l - 1 \notin Bad /\ l \in 1..m /\ l \in 1..n
    BY <1>2, <1>3, <1>5
  <2>2. g[l - 1] = h[l - 1]
    BY <2>1
  <2>. QED
    BY <1>3, <2>1, <2>2 DEF WalkOf
<1>. QED
  BY <1>4, <1>5

\* The walk as a function of all numbers.
LEMMA WalkIs ==
  ASSUME next \in [Blocks -> Places]
  PROVE  \E f : /\ f \in [Nat -> Places] /\ f[0] = Libdl
                /\ \A n \in Nat : f[n + 1] = After(f[n])
                /\ f = [n \in Nat |-> IF n = 0 THEN Libdl ELSE IF f[n - 1] = Null THEN Null ELSE next[f[n - 1]]]
<1>. DEFINE W(m) == CHOOSE g \in [Nat -> Places] : WalkOf(g, m)
<1>1. ASSUME NEW m \in Nat PROVE W(m) \in [Nat -> Places] /\ WalkOf(W(m), m)
  <2>1. \E g \in [Nat -> Places] : WalkOf(g, m)
    BY WalkExists
  <2>. QED
    BY <2>1
<1>. HIDE DEF W
<1>. DEFINE f == [n \in Nat |-> W(n)[n]]
<1>2. f \in [Nat -> Places] /\ \A n \in Nat : f[n] = W(n)[n]
  BY <1>1
<1>3. f[0] = Libdl
  BY <1>1, <1>2 DEF WalkOf
<1>4. ASSUME NEW n \in Nat PROVE f[n + 1] = After(f[n])
  <2>1. n + 1 \in Nat /\ n + 1 \in 1..n + 1 /\ (n + 1) - 1 = n /\ n <= n + 1 /\ n \in 0..n
    OBVIOUS
  <2>2. W(n + 1)[n + 1] = After(W(n + 1)[n])
    BY <1>1, <2>1 DEF WalkOf
  <2>3. W(n)[n] = W(n + 1)[n]
    BY <1>1, <2>1, WalkUnique
  <2>. QED
    BY <1>2, <2>1, <2>2, <2>3
<1>5. f = [n \in Nat |-> IF n = 0 THEN Libdl ELSE IF f[n - 1] = Null THEN Null ELSE next[f[n - 1]]]
  <2>1. ASSUME NEW n \in Nat
        PROVE  f[n] = IF n = 0 THEN Libdl ELSE IF f[n - 1] = Null THEN Null ELSE next[f[n - 1]]
    <3>1. CASE n = 0
      BY <1>3, <3>1
    <3>2. CASE n # 0
      <4>1. n - 1 \in Nat /\ (n - 1) + 1 = n
        BY <3>2
      <4>2. f[n] = After(f[n - 1])
        BY <1>4, <4>1
      <4>. QED
        BY <3>2, <4>2 DEF After
    <3>. QED
      BY <3>1, <3>2
  <2>. HIDE DEF f
  <2>2. f = [n \in Nat |-> f[n]]
    BY <1>2
  <2>. QED
    BY <2>1, <2>2
<1>. HIDE DEF f
<1>. QED
  BY <1>2, <1>3, <1>4, <1>5

LEMMA ListedIs ==
  ASSUME next \in [Blocks -> Places]
  PROVE  \E f \in [Nat -> Places] :
           /\ f[0] = Libdl /\ \A n \in Nat : f[n + 1] = After(f[n])
           /\ List!Listed = {f[n] : n \in 0..Cardinality(Soinfos)} \ {Null}
<1>. DEFINE nth == CHOOSE f : f = [n \in Nat |-> IF n = 0 THEN Libdl
                                                  ELSE IF f[n - 1] = Null THEN Null ELSE next[f[n - 1]]]
<1>1. nth = [n \in Nat |-> IF n = 0 THEN Libdl ELSE IF nth[n - 1] = Null THEN Null ELSE next[nth[n - 1]]]
  <2>1. \E f : f = [n \in Nat |-> IF n = 0 THEN Libdl ELSE IF f[n - 1] = Null THEN Null ELSE next[f[n - 1]]]
    BY WalkIs
  <2>. QED
    BY <2>1
<1>2. List!Listed = {nth[n] : n \in 0..Cardinality(Soinfos)} \ {Null}
  <2>1. List!Cardinality(Soinfos) = Cardinality(Soinfos)
    BY DEF List!Cardinality, Cardinality
  <2>2. List!Listed = {nth[n] : n \in 0..List!Cardinality(Soinfos)} \ {Null}
    BY DEF List!Listed
  <2>. QED
    BY <2>1, <2>2
<1>. HIDE DEF nth
<1>3. nth[0] = Libdl
  BY <1>1
<1>4. ASSUME NEW n \in Nat PROVE nth[n + 1] = After(nth[n])
  <2>1. n + 1 \in Nat /\ n + 1 # 0 /\ (n + 1) - 1 = n
    OBVIOUS
  <2>2. nth[n + 1] = IF n + 1 = 0 THEN Libdl ELSE IF nth[(n + 1) - 1] = Null THEN Null ELSE next[nth[(n + 1) - 1]]
    BY <1>1, <2>1
  <2>. QED
    BY <2>1, <2>2 DEF After
<1>5. ASSUME NEW n \in Nat PROVE nth[n] \in Places
  <2>. DEFINE Bad == {l \in Nat : nth[l] \notin Places}
  <2>1. SUFFICES ASSUME Bad # {} PROVE FALSE
    OBVIOUS
  <2>2. PICK l \in Bad : \A j \in Bad : l <= j
    BY <2>1, LeastOf
  <2>3. l # 0
    BY <1>3 DEF Places, Blocks
  <2>4. l - 1 \in Nat /\ l - 1 \notin Bad /\ (l - 1) + 1 = l
    BY <2>2, <2>3
  <2>5. nth[l] = After(nth[l - 1])
    BY <1>4, <2>4
  <2>. QED
    BY <2>4, <2>5 DEF After, Places
<1>6. nth \in [Nat -> Places]
  BY <1>1, <1>5
<1>. QED
  BY <1>2, <1>3, <1>4, <1>6

\* What the types say of the members.
LEMMA MemberFacts ==
  ASSUME ListTypes
  PROVE  /\ next \in [Blocks -> Soinfos \union {Null}] /\ next \in [Blocks -> Places]
         /\ Members \subseteq Blocks /\ Libdl \in Members /\ Null \notin Blocks /\ Libdl \notin Soinfos
         /\ \A s \in live : s \in Soinfos /\ s # Libdl
         /\ target \subseteq live /\ removed \subseteq live /\ live \subseteq Soinfos
         /\ \A s \in Members : List!Usable(s)
         /\ \A s \in Blocks : next[s] # Libdl
<1>1. /\ next \in [Blocks -> Soinfos \union {Null}] /\ live \subseteq Soinfos
      /\ target \subseteq live /\ removed \subseteq live
  BY DEF ListTypes, List!TypeOK, Blocks
<1>2. Libdl \notin Soinfos /\ Null \notin Blocks
  BY ListAssumption DEF Blocks
<1>3. next \in [Blocks -> Places]
  BY <1>1 DEF Places, Blocks
<1>4. \A s \in Blocks : next[s] # Libdl
  BY <1>1, <1>2 DEF Blocks
<1>5. Members \subseteq Blocks /\ Libdl \in Members
  BY <1>1 DEF Members, Blocks
<1>6. \A s \in Members : List!Usable(s)
  BY DEF Members, List!Usable
<1>. QED
  BY <1>1, <1>2, <1>3, <1>4, <1>5, <1>6

\* A list that is in order has its members, all of them and no other.
LEMMA ListedMembers ==
  ASSUME ListTypes, NEW rank \in [Blocks -> Nat], Chained(rank)
  PROVE  List!Listed = Members
<1>1. /\ next \in [Blocks -> Places] /\ Members \subseteq Blocks /\ Libdl \in Members /\ Null \notin Blocks
  BY MemberFacts
<1>2. PICK f \in [Nat -> Places] :
        /\ f[0] = Libdl /\ \A n \in Nat : f[n + 1] = After(f[n])
        /\ List!Listed = {f[n] : n \in 0..Cardinality(Soinfos)} \ {Null}
  BY <1>1, ListedIs
<1>3. PICK c \in Nat : c = Cardinality(Soinfos)
  BY ListAssumption, FS_CardinalityType
<1>4. ASSUME NEW n \in Nat PROVE f[n] \in Members \union {Null}
  <2>. DEFINE Bad == {l \in Nat : f[l] \notin Members \union {Null}}
  <2>1. SUFFICES ASSUME Bad # {} PROVE FALSE
    OBVIOUS
  <2>2. PICK l \in Bad : \A j \in Bad : l <= j
    BY <2>1, LeastOf
  <2>3. l # 0
    BY <1>1, <1>2
  <2>4. l - 1 \in Nat /\ l - 1 \notin Bad /\ (l - 1) + 1 = l
    BY <2>2, <2>3
  <2>5. f[l] = After(f[l - 1]) /\ f[l - 1] \in Members \union {Null}
    BY <1>2, <2>4
  <2>. QED
    BY <2>5 DEF After, Chained
<1>5. List!Listed \subseteq Members
  BY <1>2, <1>3, <1>4
<1>6. ASSUME NEW s \in Members, s \notin List!Listed PROVE FALSE
  <2>1. ASSUME NEW n \in 0..c PROVE f[n] # s
    <3>1. s \in Blocks
      BY <1>1
    <3>. QED
      BY <1>1, <1>2, <1>3, <1>6, <3>1
  <2>2. ASSUME NEW n \in 0..c PROVE f[n] \in Members /\ rank[f[n]] < rank[s]
    <3>. DEFINE Bad == {l \in 0..c : ~(f[l] \in Members /\ rank[f[l]] < rank[s])}
    <3>1. SUFFICES ASSUME Bad # {} PROVE FALSE
      OBVIOUS
    <3>2. PICK l \in Bad : \A j \in Bad : l <= j
      <4>1. Bad \in SUBSET Nat
        OBVIOUS
      <4>. QED
        BY <3>1, <4>1, LeastOf
    <3>3. l \in 0..c /\ ~(f[l] \in Members /\ rank[f[l]] < rank[s])
      OBVIOUS
    <3>4. rank[s] \in Nat /\ \A p \in Members : rank[p] \in Nat
      BY <1>1
    <3>5. CASE l = 0
      <4>1. f[l] = Libdl /\ Libdl # s
        BY <1>2, <2>1, <3>3, <3>5
      <4>2. rank[Libdl] <= rank[s] /\ rank[Libdl] # rank[s]
        BY <1>1, <4>1 DEF Chained
      <4>. QED
        BY <1>1, <3>3, <3>4, <4>1, <4>2
    <3>6. CASE l # 0
      <4>1. l - 1 \in 0..c /\ l - 1 \notin Bad /\ (l - 1) + 1 = l /\ l - 1 \in Nat
        BY <3>2, <3>3, <3>6
      <4>2. PICK p \in Members : p = f[l - 1] /\ rank[p] < rank[s]
        BY <4>1
      <4>3. f[l] = next[p]
        BY <1>1, <1>2, <4>1, <4>2 DEF After
      <4>4. next[p] # Null /\ rank[next[p]] <= rank[s] /\ next[p] \in Members
        BY <4>2 DEF Chained
      <4>5. next[p] # s
        BY <2>1, <3>3, <4>3
      <4>6. rank[next[p]] # rank[s]
        BY <4>4, <4>5 DEF Chained
      <4>. QED
        BY <3>3, <3>4, <4>3, <4>4, <4>6
    <3>. QED
      BY <3>5, <3>6
  <2>3. ASSUME NEW m \in 0..c, NEW n \in 0..c, m < n PROVE rank[f[m]] < rank[f[n]]
    <3>. DEFINE Bad == {l \in m + 1..c : ~(rank[f[m]] < rank[f[l]])}
    <3>1. SUFFICES ASSUME Bad # {} PROVE FALSE
      BY <2>3
    <3>2. PICK l \in Bad : \A j \in Bad : l <= j
      <4>1. Bad \in SUBSET Nat
        OBVIOUS
      <4>. QED
        BY <3>1, <4>1, LeastOf
    <3>3. l \in m + 1..c /\ ~(rank[f[m]] < rank[f[l]])
      OBVIOUS
    <3>4. l - 1 \in m..c /\ l - 1 \notin Bad /\ (l - 1) + 1 = l /\ l - 1 \in Nat /\ l - 1 \in 0..c /\ l \in 0..c
      BY <3>2, <3>3
    <3>5. PICK p \in Members : p = f[l - 1]
      BY <2>2, <3>4
    <3>6. PICK q \in Members : q = f[l]
      BY <2>2, <3>4
    <3>7. q = next[p] /\ q # Null
      BY <1>1, <1>2, <3>4, <3>5, <3>6 DEF After
    <3>8. rank[p] < rank[q]
      BY <3>7 DEF Chained
    <3>9. PICK o \in Members : o = f[m]
      BY <2>2
    <3>10. rank[o] \in Nat /\ rank[p] \in Nat /\ rank[q] \in Nat
      BY <1>1
    <3>11. l - 1 = m \/ rank[o] < rank[p]
      BY <3>3, <3>4, <3>5, <3>9
    <3>12. l - 1 = m => o = p
      BY <3>5, <3>9
    <3>. QED
      BY <3>3, <3>6, <3>8, <3>9, <3>10, <3>11, <3>12
  <2>. DEFINE g == [n \in 0..c |-> f[n]]
  <2>4. g \in Injection(0..c, Members \ {s})
    <3>1. g \in [0..c -> Members \ {s}]
      BY <2>1, <2>2
    <3>2. ASSUME NEW m \in 0..c, NEW n \in 0..c, g[m] = g[n] PROVE m = n
      <4>1. f[m] = f[n] /\ rank[f[m]] \in Nat /\ f[m] \in Members
        BY <1>1, <2>2, <3>2
      <4>2. ~(m < n) /\ ~(n < m)
        BY <2>3, <4>1
      <4>. QED
        BY <4>2
    <3>. QED
      BY <3>1, <3>2 DEF Injection, IsInjective
  <2>5. IsFiniteSet(Soinfos) /\ IsFiniteSet(Blocks) /\ Cardinality(Blocks) = c + 1
    BY <1>3, ListAssumption, FS_AddElement DEF Blocks
  <2>6. IsFiniteSet(Blocks \ {s}) /\ Cardinality(Blocks \ {s}) = c
    <3>1. s \in Blocks
      BY <1>1
    <3>2. IsFiniteSet(Blocks \ {s}) /\ Cardinality(Blocks \ {s}) = Cardinality(Blocks) - 1
      BY <2>5, <3>1, FS_RemoveElement
    <3>. QED
      BY <2>5, <3>2
  <2>7. IsFiniteSet(Members \ {s}) /\ Cardinality(Members \ {s}) <= c
    <3>1. Members \ {s} \in SUBSET (Blocks \ {s})
      BY <1>1
    <3>. QED
      BY <2>6, <3>1, FS_Subset
  <2>8. Cardinality(0..c) = c + 1
    BY FS_Interval
  <2>9. Cardinality(0..c) <= Cardinality(Members \ {s}) /\ Cardinality(Members \ {s}) \in Nat
    BY <2>4, <2>7, FS_Injection, FS_CardinalityType
  <2>. QED
    BY <2>7, <2>8, <2>9
<1>. QED
  BY <1>5, <1>6

\* A member that is cut out leaves the rest in order.
LEMMA Cut ==
  ASSUME ListTypes, NEW rank \in [Blocks -> Nat], Chained(rank), NEW p \in Members, NEW c \in Soinfos,
         next[p] = c, next' = [next EXCEPT ![p] = next[c]], Members' = Members \ {c}
  PROVE  /\ Chained(rank)' /\ c \in Members /\ p # c /\ p \in Members'
         /\ \A e : IsTail(e) => IF e = c THEN IsTail(p)' ELSE IsTail(e)'
         /\ next' \in [Blocks -> Soinfos \union {Null}]
<1>1. /\ next \in [Blocks -> Soinfos \union {Null}] /\ Members \subseteq Blocks
      /\ Null \notin Blocks /\ Libdl \in Members /\ Libdl \notin Soinfos
  BY MemberFacts
<1>2. c # Null /\ c # Libdl /\ c \in Members /\ c \in Blocks
  BY <1>1 DEF Chained, Blocks
<1>3. \A s \in Members : rank[s] \in Nat
  BY <1>1
<1>4. rank[p] < rank[c] /\ p # c
  BY <1>2, <1>3 DEF Chained
<1>5. /\ next' \in [Blocks -> Soinfos \union {Null}]
      /\ next'[p] = next[c] /\ \A s \in Blocks : s # p => next'[s] = next[s]
  BY <1>1, <1>2
<1>6. ASSUME NEW s \in Members, s # p PROVE next[s] # c
  <2>. SUFFICES ASSUME next[s] = c PROVE FALSE
    OBVIOUS
  <2>1. rank[s] # rank[p] /\ rank[s] < rank[c]
    BY <1>2, <1>6 DEF Chained
  <2>2. CASE rank[s] < rank[p]
    <3>1. rank[c] <= rank[p]
      BY <2>2 DEF Chained
    <3>. QED
      BY <1>2, <1>3, <1>4, <3>1
  <2>3. CASE rank[p] < rank[s]
    <3>1. rank[c] <= rank[s]
      BY <2>3 DEF Chained
    <3>. QED
      BY <1>2, <1>3, <2>1, <3>1
  <2>. QED
    BY <1>3, <2>1, <2>2, <2>3
<1>7. ASSUME NEW s \in Members', next'[s] # Null
      PROVE  next'[s] \in Members' /\ rank[s] < rank[next'[s]]
  <2>1. CASE s = p
    <3>1. next[c] \in Members /\ rank[c] < rank[next[c]]
      BY <1>2, <1>5, <1>7, <2>1 DEF Chained
    <3>. QED
      BY <1>2, <1>3, <1>4, <1>5, <2>1, <3>1
  <2>2. CASE s # p
    <3>1. s \in Members /\ next'[s] = next[s]
      BY <1>1, <1>5, <2>2
    <3>2. next[s] \in Members /\ rank[s] < rank[next[s]]
      BY <1>7, <3>1 DEF Chained
    <3>. QED
      BY <1>6, <2>2, <3>1, <3>2
  <2>. QED
    BY <2>1, <2>2
<1>8. ASSUME NEW s \in Members', NEW q \in Members', rank[s] < rank[q]
      PROVE  next'[s] # Null /\ rank[next'[s]] <= rank[q]
  <2>1. s \in Members /\ q \in Members /\ q # c /\ s # c
    OBVIOUS
  <2>2. next[s] # Null /\ rank[next[s]] <= rank[q]
    BY <1>8, <2>1 DEF Chained
  <2>3. CASE s = p
    <3>1. rank[c] <= rank[q] /\ rank[c] # rank[q]
      BY <1>2, <2>1, <2>2, <2>3 DEF Chained
    <3>2. rank[c] < rank[q]
      BY <1>2, <1>3, <2>1, <3>1
    <3>3. next[c] # Null /\ rank[next[c]] <= rank[q]
      BY <1>2, <2>1, <3>2 DEF Chained
    <3>. QED
      BY <1>5, <2>3, <3>3
  <2>4. CASE s # p
    BY <1>1, <1>5, <2>1, <2>2, <2>4
  <2>. QED
    BY <2>3, <2>4
<1>9. Chained(rank)'
  <2>1. \A s, q \in Members' : rank[s] = rank[q] => s = q
    BY DEF Chained
  <2>2. \A s \in Members' : rank[Libdl] <= rank[s]
    BY DEF Chained
  <2>. QED
    BY <1>7, <1>8, <2>1, <2>2 DEF Chained
<1>10. p \in Members'
  BY <1>4
<1>11. \A e : IsTail(e) => IF e = c THEN IsTail(p)' ELSE IsTail(e)'
  <2>. SUFFICES ASSUME NEW e, IsTail(e) PROVE IF e = c THEN IsTail(p)' ELSE IsTail(e)'
    OBVIOUS
  <2>1. e \in Members /\ next[e] = Null
    BY DEF IsTail
  <2>2. e # p
    BY <1>2, <2>1
  <2>3. CASE e = c
    BY <1>5, <1>10, <2>1, <2>3 DEF IsTail
  <2>4. CASE e # c
    <3>1. next'[e] = Null /\ e \in Members'
      BY <1>1, <1>5, <2>1, <2>2, <2>4
    <3>. QED
      BY <2>4, <3>1 DEF IsTail
  <2>. QED
    BY <2>3, <2>4
<1>. QED
  BY <1>2, <1>4, <1>5, <1>9, <1>10, <1>11

\* A library is appended at the tail, and comes after all others.
LEMMA Grow ==
  ASSUME ListTypes, NEW rank \in [Blocks -> Nat], Chained(rank), NEW e, IsTail(e), NEW c \in Soinfos \ live,
         next' = [next EXCEPT ![c] = Null, ![e] = c], Members' = Members \union {c}
  PROVE  /\ IsTail(c)' /\ next' \in [Blocks -> Soinfos \union {Null}]
         /\ \E new \in [Blocks -> Nat] : Chained(new)'
<1>1. /\ next \in [Blocks -> Soinfos \union {Null}] /\ Members \subseteq Blocks
      /\ Null \notin Blocks /\ Libdl \in Members /\ Libdl \notin Soinfos
  BY MemberFacts
<1>2. e \in Members /\ next[e] = Null /\ e \in Blocks /\ c \in Blocks /\ c # Null
  BY <1>1 DEF IsTail, Blocks
<1>3. c \notin Members /\ c # Libdl /\ c # e
  BY <1>1, <1>2 DEF Members
<1>4. \A s \in Members : rank[s] \in Nat
  BY <1>1
<1>5. /\ next' \in [Blocks -> Soinfos \union {Null}]
      /\ next'[c] = Null /\ next'[e] = c /\ \A s \in Blocks : s # c /\ s # e => next'[s] = next[s]
  <2>. DEFINE half == [next EXCEPT ![c] = Null]
  <2>1. /\ half \in [Blocks -> Soinfos \union {Null}] /\ half[c] = Null
        /\ \A s \in Blocks : s # c => half[s] = next[s]
    BY <1>1, <1>2
  <2>2. next' = [half EXCEPT ![e] = c]
    OBVIOUS
  <2>. HIDE DEF half
  <2>. QED
    BY <1>2, <1>3, <2>1, <2>2
<1>6. IsTail(c)'
  BY <1>5 DEF IsTail
<1>7. \A s \in Members : rank[s] <= rank[e]
  <2>. SUFFICES ASSUME NEW s \in Members, ~(rank[s] <= rank[e]) PROVE FALSE
    OBVIOUS
  <2>1. rank[e] < rank[s]
    BY <1>2, <1>4
  <2>. QED
    BY <1>2, <2>1 DEF Chained
<1>. DEFINE new == [rank EXCEPT ![c] = rank[e] + 1]
<1>8. new \in [Blocks -> Nat] /\ new[c] = rank[e] + 1 /\ \A s \in Members : new[s] = rank[s]
  BY <1>1, <1>2, <1>3, <1>4
<1>. HIDE DEF new
<1>9. \A s \in Members : new[s] < new[c]
  BY <1>2, <1>4, <1>7, <1>8
<1>10. \A s \in Members : s # e => next'[s] = next[s] /\ next[s] # Null
  <2>. SUFFICES ASSUME NEW s \in Members, s # e PROVE next'[s] = next[s] /\ next[s] # Null
    OBVIOUS
  <2>1. rank[s] # rank[e]
    BY <1>2 DEF Chained
  <2>2. rank[s] < rank[e]
    BY <1>2, <1>4, <1>7, <2>1
  <2>3. next[s] # Null
    BY <1>2, <2>2 DEF Chained
  <2>. QED
    BY <1>1, <1>3, <1>5, <2>3
<1>11. Chained(new)'
  <2>1. \A s, q \in Members' : new[s] = new[q] => s = q
    <3>. SUFFICES ASSUME NEW s \in Members', NEW q \in Members', new[s] = new[q] PROVE s = q
      OBVIOUS
    <3>1. CASE s = c \/ q = c
      <4>1. \A o \in Members : new[o] # new[c]
        BY <1>4, <1>8, <1>9
      <4>. QED
        BY <3>1, <4>1
    <3>2. CASE s # c /\ q # c
      BY <1>8, <3>2 DEF Chained
    <3>. QED
      BY <3>1, <3>2
  <2>2. \A s \in Members' : new[Libdl] <= new[s]
    <3>. SUFFICES ASSUME NEW s \in Members' PROVE new[Libdl] <= new[s]
      OBVIOUS
    <3>1. CASE s = c
      <4>1. new[Libdl] < new[c] /\ new[Libdl] \in Nat /\ new[c] \in Nat
        BY <1>1, <1>2, <1>8, <1>9
      <4>. QED
        BY <3>1, <4>1
    <3>2. CASE s # c
      BY <1>1, <1>8, <3>2 DEF Chained
    <3>. QED
      BY <3>1, <3>2
  <2>3. ASSUME NEW s \in Members', next'[s] # Null PROVE next'[s] \in Members' /\ new[s] < new[next'[s]]
    <3>1. s # c /\ s \in Members
      BY <1>5, <2>3
    <3>2. CASE s = e
      BY <1>5, <1>9, <3>1, <3>2
    <3>3. CASE s # e
      <4>1. next'[s] = next[s] /\ next[s] \in Members /\ rank[s] < rank[next[s]]
        BY <1>10, <2>3, <3>1, <3>3 DEF Chained
      <4>. QED
        BY <1>8, <3>1, <4>1
    <3>. QED
      BY <3>2, <3>3
  <2>4. ASSUME NEW s \in Members', NEW q \in Members', new[s] < new[q]
        PROVE  next'[s] # Null /\ new[next'[s]] <= new[q]
    <3>1. s # c
      <4>1. new[c] \in Nat /\ (q = c \/ (new[q] < new[c] /\ new[q] \in Nat))
        BY <1>1, <1>2, <1>8, <1>9
      <4>. QED
        BY <2>4, <4>1
    <3>2. CASE s = e
      <4>1. q = c
        <5>. SUFFICES ASSUME q # c PROVE FALSE
          OBVIOUS
        <5>1. q \in Members /\ new[q] = rank[q] /\ new[s] = rank[e]
          BY <1>2, <1>8, <3>2
        <5>. QED
          BY <1>2, <1>4, <1>7, <2>4, <5>1
      <4>2. new[c] <= new[c]
        BY <1>2, <1>8
      <4>. QED
        BY <1>2, <1>5, <3>2, <4>1, <4>2
    <3>3. CASE s # e
      <4>1. s \in Members /\ next'[s] = next[s] /\ next[s] # Null
        BY <1>10, <3>1, <3>3
      <4>2. next[s] \in Members
        BY <4>1 DEF Chained
      <4>3. CASE q = c
        <5>1. new[next[s]] < new[c] /\ new[next[s]] \in Nat /\ new[c] \in Nat
          BY <1>2, <1>4, <1>8, <1>9, <4>2
        <5>. QED
          BY <4>1, <4>3, <5>1
      <4>4. CASE q # c
        <5>1. q \in Members /\ rank[s] < rank[q]
          BY <1>8, <2>4, <4>1, <4>4
        <5>2. rank[next[s]] <= rank[q]
          BY <4>1, <5>1 DEF Chained
        <5>. QED
          BY <1>8, <4>1, <4>2, <5>1, <5>2
      <4>. QED
        BY <4>3, <4>4
    <3>. QED
      BY <3>2, <3>3
  <2>. QED
    BY <2>1, <2>2, <2>3, <2>4 DEF Chained
<1>. QED
  BY <1>5, <1>6, <1>8, <1>11

-----------------------------------------------------------------------------
(* SoList: who acts, acts alone *)

\* A call that is under way is the only operation.
LEMMA CallFacts ==
  ASSUME ListInv, NEW r \in Removers, NEW w \in {"list", "match", "find", "unlink", "tail", "done"}, List!At(r, w)
  PROVE  /\ ~raced /\ linker.at = "idle" /\ \A u \in Removers : u # r => remover[u].at = "idle"
         /\ guards = 1 /\ (holds[r] => lock = r)
         /\ w # "tail" => IsTail(sonext)
         /\ \E f \in Removals : /\ f = remover[r] /\ f.at = w
                                /\ \E rank \in [Blocks -> Nat] : Chained(rank) /\ Fine(f, rank)
<1>1. ~raced /\ remover[r].at = w /\ ListRight /\ ListTypes /\ LockKept
  BY DEF List!At, List!Alive, ListInv
<1>2. List!Active(r)
  BY <1>1 DEF List!Active
<1>3. linker.at = "idle" /\ (\A u \in Removers : u # r => ~List!Active(u)) /\ guards = 1
  BY <1>1, <1>2 DEF ListRight, Alone, List!Busy
<1>4. \A u \in Removers : u # r => remover[u].at = "idle"
  BY <1>3 DEF List!Active
<1>5. holds[r] => lock = r
  BY <1>1, <1>2 DEF LockKept
<1>6. w # "tail" => IsTail(sonext)
  BY <1>1, <1>3, <1>4 DEF ListRight, TailKept
<1>7. remover[r] \in Removals
  BY <1>1 DEF ListTypes
<1>8. \E rank \in [Blocks -> Nat] : Chained(rank) /\ Fine(remover[r], rank)
  BY <1>1 DEF ListRight
<1>. QED
  BY <1>1, <1>3, <1>4, <1>5, <1>6, <1>7, <1>8

\* The copy of a call that is over is of no account.
LEMMA IdleFine ==
  ASSUME ListInv, ~raced, NEW u \in Removers, remover[u].at = "idle", remover'[u] = remover[u], NEW rank \in [Blocks -> Nat]
  PROVE  Fine(remover[u], rank)'
<1>1. PICK r \in [Blocks -> Nat] : Fine(remover[u], r)
  BY DEF ListInv, ListRight
<1>. DEFINE f == remover[u]
<1>2. \A j, k \in 1..Len(f.seen) : f.seen[j] = f.seen[k] => j = k
  BY <1>1 DEF Fine
<1>. HIDE DEF f
<1>3. f.at = "idle" /\ f = remover'[u]
  BY DEF f
<1>. QED
  BY <1>2, <1>3 DEF Fine, Copies, Compares, Finds

\* What a call has to keep, while nobody else acts.
LEMMA CallStep ==
  ASSUME ListInv, ~raced, linker.at = "idle", NEW r \in Removers,
         \A u \in Removers : u # r => remover[u].at = "idle",
         NEW g \in Removals, remover' = [remover EXCEPT ![r] = g],
         UNCHANGED <<linker, holds>>, raced' = FALSE, misused' = FALSE, List!TypeOK',
         guards' = IF g.at = "idle" THEN 0 ELSE 1, g.at # "idle" /\ holds[r] => lock' = r,
         g.at # "tail" => IsTail(sonext)',
         \E rank \in [Blocks -> Nat] : Chained(rank)' /\ Fine(g, rank)'
  PROVE  ListInv'
<1>1. remover \in [Removers -> Removals] /\ linker \in LinkerSteps /\ holds \in [Removers -> BOOLEAN]
  BY DEF ListInv, ListTypes
<1>2. /\ remover' \in [Removers -> Removals] /\ remover'[r] = g
      /\ \A u \in Removers : u # r => remover'[u] = remover[u] /\ remover'[u].at = "idle"
  BY <1>1
<1>3. ListTypes'
  BY <1>1, <1>2 DEF ListTypes
<1>4. \A u \in Removers : List!Active(u)' => u = r /\ g.at # "idle"
  BY <1>2 DEF List!Active
<1>5. LockKept'
  BY <1>4 DEF LockKept
<1>6. List!Busy' <=> g.at # "idle"
  BY <1>2, <1>4 DEF List!Busy, List!Active
<1>7. Alone'
  BY <1>4, <1>6 DEF Alone
<1>8. LinkerFine'
  BY DEF LinkerFine
<1>9. TailKept'
  BY <1>2 DEF TailKept
<1>10. \E rank \in [Blocks -> Nat] : Chained(rank)' /\ \A u \in Removers : Fine(remover[u], rank)'
  <2>1. PICK rank \in [Blocks -> Nat] : Chained(rank)' /\ Fine(g, rank)'
    OBVIOUS
  <2>2. ASSUME NEW u \in Removers PROVE Fine(remover[u], rank)'
    <3>1. CASE u = r
      <4>1. remover'[u] = g
        BY <1>2, <3>1
      <4>. QED
        BY <2>1, <4>1
    <3>2. CASE u # r
      BY <1>2, <3>2, IdleFine
    <3>. QED
      BY <3>1, <3>2
  <2>. QED
    BY <2>1, <2>2
<1>11. ListRight'
  BY <1>7, <1>8, <1>9, <1>10 DEF ListRight
<1>. QED
  BY <1>3, <1>5, <1>11 DEF ListInv

\* What the linker has to keep, while no call is under way.
LEMMA LinkerStep ==
  ASSUME ListInv, ~raced, \A u \in Removers : remover[u].at = "idle",
         UNCHANGED <<remover, holds>>, raced' = FALSE, misused' = FALSE, List!TypeOK',
         linker' \in LinkerSteps, linker'.at = "load" => linker'.si \in Soinfos,
         guards' = IF linker'.at = "idle" THEN 0 ELSE 1, linker'.at # "idle" => lock' = "linker",
         LinkerFine', linker'.at # "load" => IsTail(sonext)',
         \E rank \in [Blocks -> Nat] : Chained(rank)'
  PROVE  ListInv'
<1>1. ListTypes'
  BY DEF ListInv, ListTypes
<1>2. \A u \in Removers : ~List!Active(u)'
  BY DEF List!Active
<1>3. LockKept' /\ Alone' /\ TailKept'
  BY <1>2 DEF LockKept, Alone, List!Busy, TailKept
<1>4. \E rank \in [Blocks -> Nat] : Chained(rank)' /\ \A u \in Removers : Fine(remover[u], rank)'
  <2>1. PICK rank \in [Blocks -> Nat] : Chained(rank)'
    OBVIOUS
  <2>2. \A u \in Removers : Fine(remover[u], rank)'
    BY IdleFine
  <2>. QED
    BY <2>1, <2>2
<1>5. ListRight'
  BY <1>3, <1>4 DEF ListRight
<1>. QED
  BY <1>1, <1>3, <1>5 DEF ListInv

\* Whoever overlaps an operation, a call without the lock is one of the two.
LEMMA RaceStep ==
  ASSUME ListInv, ~raced, raced', UNCHANGED holds, misused' = FALSE, ListTypes', LockKept', List!Busy',
         (lock = "nobody" /\ List!Busy) \/ \E u \in Removers : ~holds[u]
  PROVE  ListInv'
<1>1. ASSUME lock = "nobody", List!Busy PROVE \E u \in Removers : ~holds[u]
  <2>1. LockKept
    BY DEF ListInv
  <2>2. PICK u \in Removers : List!Active(u)
    BY <1>1, <2>1 DEF List!Busy, LockKept
  <2>3. ~holds[u]
    BY <1>1, <2>1, <2>2, ListAssumption DEF LockKept
  <2>. QED
    BY <2>3
<1>. QED
  BY <1>1 DEF ListInv

-----------------------------------------------------------------------------
(* SoList: the steps of a call *)

\* A step that only reads the list.
LEMMA ReadStep ==
  ASSUME ListInv, NEW r \in Removers, NEW w \in {"list", "match", "find"}, List!At(r, w),
         NEW g \in Removals, remover' = [remover EXCEPT ![r] = g], g.at \notin {"idle", "tail"},
         UNCHANGED <<List!listVars, lock, guards, linker, holds, removed, raced, loadCount, removals>>,
         misused' = FALSE,
         \E rank \in [Blocks -> Nat] : Chained(rank) /\ Fine(g, rank)
  PROVE  ListInv'
<1>1. /\ ~raced /\ linker.at = "idle" /\ \A u \in Removers : u # r => remover[u].at = "idle"
      /\ guards = 1 /\ (holds[r] => lock = r) /\ IsTail(sonext)
  BY CallFacts
<1>2. UNCHANGED <<next, sonext, live, target, lock, guards, linker, holds, removed, raced, loadCount, removals>>
  BY DEF List!listVars
<1>3. List!TypeOK'
  BY <1>2 DEF ListInv, ListTypes, List!TypeOK
<1>4. IsTail(sonext)'
  BY <1>1, <1>2 DEF IsTail, Members
<1>5. raced' = FALSE
  BY <1>1, <1>2 DEF ListInv, ListTypes, List!TypeOK
<1>6. \E rank \in [Blocks -> Nat] : Chained(rank)' /\ Fine(g, rank)'
  <2>1. PICK rank \in [Blocks -> Nat] : Chained(rank) /\ Fine(g, rank)
    OBVIOUS
  <2>2. Chained(rank)'
    BY <1>2, <2>1 DEF Chained, Members
  <2>3. Fine(g, rank)'
    BY <1>2, <2>1 DEF Fine, Copies, Compares, Finds, IsTail, Members
  <2>. QED
    BY <2>2, <2>3
<1>. QED
  BY <1>1, <1>2, <1>3, <1>4, <1>5, <1>6, CallStep

LEMMA GetSolistKeeps == ASSUME ListInv, NEW r \in Removers, List!GetSolist(r) PROVE ListInv'
<1>1. List!At(r, "list")
      /\ UNCHANGED <<List!listVars, lock, guards, linker, holds, removed, raced, loadCount, removals>>
  BY DEF List!GetSolist
<1>2. PICK f \in Removals : /\ f = remover[r] /\ f.at = "list"
                            /\ \E rank \in [Blocks -> Nat] : Chained(rank) /\ Fine(f, rank)
  BY <1>1, CallFacts
<1>3. PICK rank \in [Blocks -> Nat] : Chained(rank) /\ Fine(f, rank)
  BY <1>2
<1>4. misused = FALSE /\ ListTypes
  BY DEF ListInv
<1>5. Copies(f, rank) /\ f.i = 1 /\ \A k \in 1..Len(f.seen) : f.seen[k] \in Members
  BY <1>2, <1>3 DEF Fine, Copies
<1>6. \A j, k \in 1..Len(f.seen) : f.seen[j] = f.seen[k] => j = k
  BY <1>3 DEF Fine
<1>7. CASE f.trav = Null
  <2>. DEFINE g == [f EXCEPT !.at = "match"]
  <2>1. remover' = [remover EXCEPT ![r] = g] /\ misused' = FALSE
    BY <1>2, <1>4, <1>7 DEF List!GetSolist, List!Set
  <2>2. g \in Removals /\ g.at = "match" /\ g.seen = f.seen /\ g.i = f.i
    BY DEF Removals
  <2>. HIDE DEF g
  <2>3. \A s \in Members : \E k \in 1..Len(f.seen) : f.seen[k] = s
    BY <1>2, <1>5, <1>7 DEF Copies
  <2>4. Fine(g, rank)
    BY <1>5, <1>6, <2>2, <2>3 DEF Fine, Copies, Compares, Rest, Finds
  <2>. QED
    BY <1>1, <1>3, <2>1, <2>2, <2>4, ReadStep
<1>8. CASE f.trav # Null
  <2>1. PICK t \in Members : t = f.trav
    BY <1>2, <1>5, <1>8 DEF Copies
  <2>2. /\ Members \subseteq Blocks /\ List!Usable(t) /\ next \in [Blocks -> Soinfos \union {Null}]
    BY <1>4, MemberFacts
  <2>3. PICK n \in Blocks \union {Null} : n = next[t]
    BY <2>2 DEF Blocks
  <2>4. /\ \A k \in 1..Len(f.seen) : rank[f.seen[k]] < rank[t]
        /\ \A s \in Members : rank[s] < rank[t] => \E k \in 1..Len(f.seen) : f.seen[k] = s
    BY <1>2, <1>5, <1>8, <2>1 DEF Copies
  <2>5. f.seen \in Seq(Blocks) /\ t \in Blocks
    BY <2>2 DEF Removals
  <2>6. PICK l \in Nat : l = Len(f.seen)
    BY <2>5, LenProperties
  <2>7. PICK q \in Seq(Blocks) : /\ q = Append(f.seen, t) /\ Len(q) = l + 1 /\ q[l + 1] = t
                                 /\ \A k \in 1..l : q[k] = f.seen[k]
    <3>1. /\ Append(f.seen, t) \in Seq(Blocks) /\ Len(Append(f.seen, t)) = Len(f.seen) + 1
          /\ Append(f.seen, t)[Len(f.seen) + 1] = t
          /\ \A k \in 1..Len(f.seen) : Append(f.seen, t)[k] = f.seen[k]
      BY <2>5
    <3>. QED
      BY <2>6, <3>1
  <2>. DEFINE g == [f EXCEPT !.seen = q, !.trav = n]
  <2>8. remover' = [remover EXCEPT ![r] = g] /\ misused' = FALSE
    BY <1>2, <1>8, <2>1, <2>2, <2>3, <2>7 DEF List!GetSolist, List!Set, List!Reads
  <2>9. g \in Removals /\ g.at = "list" /\ g.seen = q /\ g.i = 1 /\ g.trav = n
    BY <1>2, <1>5 DEF Removals
  <2>. HIDE DEF g
  <2>10. \A k \in 1..l + 1 : k \in 1..l \/ k = l + 1
    BY <2>6
  <2>11. \A s \in Members : rank[s] \in Nat
    BY <2>2
  <2>12. \A k \in 1..l + 1 : q[k] \in Members
    BY <1>5, <2>1, <2>6, <2>7, <2>10
  <2>13. \A j, k \in 1..l + 1 : q[j] = q[k] => j = k
    <3>1. \A k \in 1..l : q[k] # t
      BY <1>5, <2>4, <2>6, <2>7, <2>11
    <3>2. \A j, k \in 1..l : q[j] = q[k] => j = k
      BY <1>6, <2>6, <2>7
    <3>. QED
      BY <2>7, <2>10, <3>1, <3>2
  <2>14. \A k \in 1..l + 1 : rank[q[k]] <= rank[t]
    <3>1. \A k \in 1..l : rank[q[k]] \in Nat /\ rank[q[k]] < rank[t]
      BY <1>5, <2>4, <2>6, <2>7, <2>11
    <3>. SUFFICES ASSUME NEW k \in 1..l + 1 PROVE rank[q[k]] <= rank[t]
      OBVIOUS
    <3>2. CASE k = l + 1
      BY <2>7, <2>11, <3>2
    <3>3. CASE k \in 1..l
      BY <2>11, <3>1, <3>3
    <3>. QED
      BY <2>10, <3>2, <3>3
  <2>15. \A s \in Members : rank[s] <= rank[t] => \E k \in 1..l + 1 : q[k] = s
    <3>. SUFFICES ASSUME NEW s \in Members, rank[s] <= rank[t] PROVE \E k \in 1..l + 1 : q[k] = s
      OBVIOUS
    <3>1. CASE s = t
      BY <2>6, <2>7, <3>1
    <3>2. CASE s # t
      <4>1. rank[s] # rank[t]
        BY <1>3, <3>2 DEF Chained
      <4>2. rank[s] < rank[t]
        BY <2>11, <4>1
      <4>3. PICK k \in 1..l : f.seen[k] = s
        BY <2>4, <2>6, <4>2
      <4>4. k \in 1..l + 1 /\ q[k] = s
        BY <2>6, <2>7, <4>3
      <4>. QED
        BY <4>4
    <3>. QED
      BY <3>1, <3>2
  <2>16. CASE n = Null
    <3>1. \A s \in Members : rank[s] <= rank[t]
      <4>. SUFFICES ASSUME NEW s \in Members, ~(rank[s] <= rank[t]) PROVE FALSE
        OBVIOUS
      <4>1. rank[t] < rank[s]
        BY <2>11
      <4>. QED
        BY <1>3, <2>3, <2>16, <4>1 DEF Chained
    <3>2. \A s \in Members : \E k \in 1..l + 1 : q[k] = s
      BY <2>15, <3>1
    <3>3. Copies(g, rank)
      BY <2>7, <2>9, <2>12, <2>16, <3>2 DEF Copies
    <3>4. Compares(g) /\ Finds(g, rank)
      BY <2>9 DEF Compares, Finds
    <3>5. Fine(g, rank)
      BY <2>7, <2>9, <2>13, <3>3, <3>4 DEF Fine
    <3>. QED
      BY <1>1, <1>3, <2>8, <2>9, <3>5, ReadStep
  <2>17. CASE n # Null
    <3>1. n \in Members /\ rank[t] < rank[n]
      BY <1>3, <2>3, <2>17 DEF Chained
    <3>2. \A k \in 1..l + 1 : rank[q[k]] < rank[n]
      BY <2>11, <2>12, <2>14, <3>1
    <3>3. \A s \in Members : rank[s] < rank[n] => rank[s] <= rank[t]
      <4>. SUFFICES ASSUME NEW s \in Members, rank[s] < rank[n], ~(rank[s] <= rank[t]) PROVE FALSE
        OBVIOUS
      <4>1. rank[t] < rank[s]
        BY <2>11
      <4>2. rank[n] <= rank[s]
        BY <1>3, <2>3, <4>1 DEF Chained
      <4>. QED
        BY <2>11, <3>1, <4>2
    <3>4. \A s \in Members : rank[s] < rank[n] => \E k \in 1..l + 1 : q[k] = s
      BY <2>15, <3>3
    <3>5. Copies(g, rank)
      BY <2>7, <2>9, <2>12, <2>17, <3>1, <3>2, <3>4 DEF Copies
    <3>6. Compares(g) /\ Finds(g, rank)
      BY <2>9 DEF Compares, Finds
    <3>7. Fine(g, rank)
      BY <2>7, <2>9, <2>13, <3>5, <3>6 DEF Fine
    <3>. QED
      BY <1>1, <1>3, <2>8, <2>9, <3>7, ReadStep
  <2>. QED
    BY <2>16, <2>17
<1>. QED
  BY <1>7, <1>8

LEMMA MatchKeeps == ASSUME ListInv, NEW r \in Removers, List!Match(r) PROVE ListInv'
<1>1. List!At(r, "match")
      /\ UNCHANGED <<List!listVars, lock, guards, linker, holds, removed, raced, loadCount, removals>>
  BY DEF List!Match
<1>2. PICK f \in Removals : /\ f = remover[r] /\ f.at = "match"
                            /\ \E rank \in [Blocks -> Nat] : Chained(rank) /\ Fine(f, rank)
  BY <1>1, CallFacts
<1>3. PICK rank \in [Blocks -> Nat] : Chained(rank) /\ Fine(f, rank)
  BY <1>2
<1>4. misused = FALSE /\ ListTypes
  BY DEF ListInv
<1>5. /\ \A k \in f.i..Len(f.seen) : f.seen[k] \in Members
      /\ \A s \in Members \intersect target : \E k \in f.i..Len(f.seen) : f.seen[k] = s
  BY <1>2, <1>3 DEF Fine, Compares, Rest
<1>6. \A j, k \in 1..Len(f.seen) : f.seen[j] = f.seen[k] => j = k
  BY <1>3 DEF Fine
<1>7. PICK l \in Nat : l = Len(f.seen)
  <2>1. f.seen \in Seq(Blocks)
    BY DEF Removals
  <2>. QED
    BY <2>1, LenProperties
<1>8. PICK i \in Nat \ {0} : i = f.i
  BY DEF Removals
<1>9. CASE i > l
  <2>. DEFINE g == [f EXCEPT !.at = "done"]
  <2>1. remover' = [remover EXCEPT ![r] = g] /\ misused' = FALSE
    BY <1>2, <1>4, <1>7, <1>8, <1>9 DEF List!Match, List!Set
  <2>2. g \in Removals /\ g.at = "done" /\ g.seen = f.seen
    BY DEF Removals
  <2>. HIDE DEF g
  <2>3. Members \intersect target = {}
    <3>1. i..l = {}
      BY <1>9
    <3>. QED
      BY <1>5, <1>7, <1>8, <3>1
  <2>4. Fine(g, rank)
    BY <1>6, <2>2, <2>3 DEF Fine, Copies, Compares, Finds
  <2>. QED
    BY <1>1, <1>3, <2>1, <2>2, <2>4, ReadStep
<1>10. CASE ~(i > l)
  <2>1. i \in i..l /\ i \in 1..l
    BY <1>10
  <2>2. PICK c \in Members : c = f.seen[i]
    BY <1>5, <1>7, <1>8, <2>1
  <2>3. List!Usable(c) /\ Members \subseteq Blocks /\ Libdl \in Members /\ Null \notin Blocks
    BY <1>4, MemberFacts
  <2>4. List!Cur(r) = c
    BY <1>2, <1>8, <2>2 DEF List!Cur
  <2>5. CASE c \in target
    <3>. DEFINE g == [f EXCEPT !.at = "find", !.trav = Libdl, !.prev = Null]
    <3>1. remover' = [remover EXCEPT ![r] = g] /\ misused' = FALSE
      BY <1>2, <1>7, <1>8, <1>10, <2>3, <2>4, <2>5 DEF List!Match, List!Set, List!Reads
    <3>2. g \in Removals /\ g.at = "find" /\ g.seen = f.seen /\ g.i = f.i /\ g.trav = Libdl
      BY <2>3 DEF Removals
    <3>. HIDE DEF g
    <3>3. rank[Libdl] <= rank[f.seen[i]]
      BY <1>3, <2>2 DEF Chained
    <3>4. Finds(g, rank)
      BY <1>7, <1>8, <1>10, <2>2, <2>3, <2>5, <3>2, <3>3 DEF Finds
    <3>5. Fine(g, rank)
      BY <1>5, <1>6, <3>2, <3>4 DEF Fine, Copies, Compares, Rest
    <3>. QED
      BY <1>1, <1>3, <3>1, <3>2, <3>5, ReadStep
  <2>6. CASE c \notin target
    <3>1. PICK j \in Nat \ {0} : j = i + 1
      OBVIOUS
    <3>. DEFINE g == [f EXCEPT !.i = j]
    <3>2. remover' = [remover EXCEPT ![r] = g] /\ misused' = FALSE
      BY <1>2, <1>7, <1>8, <1>10, <2>3, <2>4, <2>6, <3>1 DEF List!Match, List!Set, List!Reads
    <3>3. g \in Removals /\ g.at = "match" /\ g.seen = f.seen /\ g.i = j
      BY <1>2 DEF Removals
    <3>. HIDE DEF g
    <3>4. \A k \in j..l : f.seen[k] \in Members
      BY <1>5, <1>7, <1>8, <3>1
    <3>5. \A s \in Members \intersect target : \E k \in j..l : f.seen[k] = s
      <4>. SUFFICES ASSUME NEW s \in Members \intersect target PROVE \E k \in j..l : f.seen[k] = s
        OBVIOUS
      <4>1. PICK k \in i..l : f.seen[k] = s
        BY <1>5, <1>7, <1>8
      <4>2. k # i
        BY <2>2, <2>6, <4>1
      <4>3. k \in j..l
        BY <3>1, <4>2
      <4>. QED
        BY <4>1, <4>3
    <3>6. Fine(g, rank)
      BY <1>6, <1>7, <3>3, <3>4, <3>5 DEF Fine, Copies, Compares, Rest, Finds
    <3>. QED
      BY <1>1, <1>3, <3>2, <3>3, <3>6, ReadStep
  <2>. QED
    BY <2>5, <2>6
<1>. QED
  BY <1>9, <1>10

LEMMA FindKeeps == ASSUME ListInv, NEW r \in Removers, List!Find(r) PROVE ListInv'
<1>1. List!At(r, "find")
      /\ UNCHANGED <<List!listVars, lock, guards, linker, holds, removed, raced, loadCount, removals>>
  BY DEF List!Find
<1>2. PICK f \in Removals : /\ f = remover[r] /\ f.at = "find"
                            /\ \E rank \in [Blocks -> Nat] : Chained(rank) /\ Fine(f, rank)
  BY <1>1, CallFacts
<1>3. PICK rank \in [Blocks -> Nat] : Chained(rank) /\ Fine(f, rank)
  BY <1>2
<1>4. misused = FALSE /\ ListTypes
  BY DEF ListInv
<1>5. /\ \A k \in f.i..Len(f.seen) : f.seen[k] \in Members
      /\ \A s \in Members \intersect target : \E k \in f.i..Len(f.seen) : f.seen[k] = s
  BY <1>2, <1>3 DEF Fine, Compares, Rest
<1>6. \A j, k \in 1..Len(f.seen) : f.seen[j] = f.seen[k] => j = k
  BY <1>3 DEF Fine
<1>7. /\ f.i <= Len(f.seen) /\ f.seen[f.i] \in target
      /\ f.trav \in Members /\ rank[f.trav] <= rank[f.seen[f.i]]
      /\ f.trav # Libdl => f.prev \in Members /\ next[f.prev] = f.trav
  BY <1>2, <1>3 DEF Fine, Finds
<1>8. f.i \in f.i..Len(f.seen)
  <2>1. PICK l \in Nat : l = Len(f.seen)
    <3>1. f.seen \in Seq(Blocks)
      BY DEF Removals
    <3>. QED
      BY <3>1, LenProperties
  <2>2. PICK i \in Nat : i = f.i
    BY DEF Removals
  <2>. QED
    BY <1>7, <2>1, <2>2
<1>9. PICK c \in Members : c = f.seen[f.i] /\ c \in target
  BY <1>5, <1>7, <1>8
<1>10. List!Cur(r) = c
  BY <1>2, <1>9 DEF List!Cur
<1>11. PICK t \in Members : t = f.trav
  BY <1>7
<1>12. /\ List!Usable(t) /\ Members \subseteq Blocks /\ Null \notin Blocks /\ c # Libdl
       /\ next \in [Blocks -> Soinfos \union {Null}]
  BY <1>4, <1>9, MemberFacts
<1>13. CASE t = c
  <2>. DEFINE g == [f EXCEPT !.at = "unlink"]
  <2>1. remover' = [remover EXCEPT ![r] = g] /\ misused' = FALSE
    BY <1>2, <1>4, <1>10, <1>11, <1>12, <1>13 DEF List!Find, List!Set
  <2>2. g \in Removals /\ g.at = "unlink" /\ g.seen = f.seen /\ g.i = f.i /\ g.prev = f.prev
    BY DEF Removals
  <2>. HIDE DEF g
  <2>3. f.prev \in Members /\ next[f.prev] = f.seen[f.i]
    BY <1>7, <1>9, <1>11, <1>12, <1>13
  <2>4. Fine(g, rank)
    BY <1>5, <1>6, <1>7, <2>2, <2>3 DEF Fine, Copies, Compares, Rest, Finds
  <2>. QED
    BY <1>1, <1>3, <2>1, <2>2, <2>4, ReadStep
<1>14. CASE t # c
  <2>1. rank[t] # rank[c] /\ rank[t] \in Nat /\ rank[c] \in Nat /\ rank[t] <= rank[c]
    BY <1>3, <1>7, <1>9, <1>11, <1>12, <1>14 DEF Chained
  <2>2. rank[t] < rank[c]
    BY <2>1
  <2>3. next[t] # Null /\ rank[next[t]] <= rank[c] /\ next[t] \in Members
    BY <1>3, <2>2 DEF Chained
  <2>4. PICK n \in Members : n = next[t]
    BY <2>3
  <2>. DEFINE g == [f EXCEPT !.prev = t, !.trav = n]
  <2>5. remover' = [remover EXCEPT ![r] = g] /\ misused' = FALSE
    BY <1>2, <1>10, <1>11, <1>12, <1>14, <2>4 DEF List!Find, List!Set, List!Reads
  <2>6. g \in Removals /\ g.at = "find" /\ g.seen = f.seen /\ g.i = f.i /\ g.prev = t /\ g.trav = n
    BY <1>2, <1>12 DEF Removals
  <2>. HIDE DEF g
  <2>7. Finds(g, rank)
    BY <1>7, <1>9, <2>3, <2>4, <2>6 DEF Finds
  <2>8. Fine(g, rank)
    BY <1>5, <1>6, <2>6, <2>7 DEF Fine, Copies, Compares, Rest
  <2>. QED
    BY <1>1, <1>3, <2>5, <2>6, <2>8, ReadStep
<1>. QED
  BY <1>13, <1>14

LEMMA UnlinkKeeps == ASSUME ListInv, NEW r \in Removers, List!Unlink(r) PROVE ListInv'
<1>1. /\ List!At(r, "unlink")
      /\ UNCHANGED <<sonext, live, target, lock, guards, linker, holds, raced, loadCount, removals>>
  BY DEF List!Unlink
<1>2. PICK f \in Removals : /\ f = remover[r] /\ f.at = "unlink"
                            /\ \E rank \in [Blocks -> Nat] : Chained(rank) /\ Fine(f, rank)
  BY <1>1, CallFacts
<1>3. PICK rank \in [Blocks -> Nat] : Chained(rank) /\ Fine(f, rank)
  BY <1>2
<1>4. /\ ~raced /\ linker.at = "idle" /\ \A u \in Removers : u # r => remover[u].at = "idle"
      /\ guards = 1 /\ (holds[r] => lock = r) /\ IsTail(sonext)
  BY <1>1, CallFacts
<1>5. ListTypes
  BY DEF ListInv
<1>6. /\ f.i <= Len(f.seen) /\ f.seen[f.i] \in target
      /\ f.prev \in Members /\ next[f.prev] = f.seen[f.i]
  BY <1>2, <1>3 DEF Fine, Finds
<1>7. PICK c \in Soinfos : c = f.seen[f.i] /\ c \in live /\ c \in target
  BY <1>5, <1>6, MemberFacts
<1>8. PICK p \in Members : p = f.prev
  BY <1>6
<1>9. List!Cur(r) = c
  BY <1>2, <1>7 DEF List!Cur
<1>10. /\ next' = [next EXCEPT ![p] = next[c]] /\ removed' = removed \union {c}
       /\ remover' = [remover EXCEPT ![r] = [f EXCEPT !.at = "tail"]]
       /\ misused' = ~(List!Usable(c) /\ List!Usable(p) /\ guards > 0)
  <2>1. {c} \intersect live = {c}
    BY <1>7
  <2>. QED
    BY <1>2, <1>8, <1>9, <2>1 DEF List!Unlink, List!Set
<1>11. Members' = Members \ {c}
  <2>1. c # Libdl
    BY <1>5, <1>7, MemberFacts
  <2>. QED
    BY <1>1, <1>10, <2>1 DEF Members
<1>12. misused' = FALSE
  <2>1. List!Usable(c) /\ List!Usable(p)
    BY <1>5, <1>7, MemberFacts DEF List!Usable
  <2>2. guards > 0
    BY <1>4
  <2>. QED
    BY <1>10, <2>1, <2>2
<1>13. next[p] = c
  BY <1>6, <1>7, <1>8
<1>14. /\ Chained(rank)' /\ c \in Members /\ p # c /\ p \in Members'
       /\ \A e : IsTail(e) => IF e = c THEN IsTail(p)' ELSE IsTail(e)'
       /\ next' \in [Blocks -> Soinfos \union {Null}]
  BY <1>3, <1>5, <1>10, <1>11, <1>13, Cut
<1>15. List!TypeOK'
  <2>1. removed' \subseteq live
    BY <1>5, <1>7, <1>10, MemberFacts
  <2>2. misused' \in BOOLEAN
    BY <1>12
  <2>. QED
    BY <1>1, <1>5, <1>14, <2>1, <2>2 DEF ListTypes, List!TypeOK, Blocks
<1>16. raced' = FALSE
  BY <1>1, <1>4, <1>5 DEF ListTypes, List!TypeOK
<1>. DEFINE g == [f EXCEPT !.at = "tail"]
<1>17. g \in Removals /\ g.at = "tail" /\ g.seen = f.seen /\ g.i = f.i /\ g.prev = p
  BY <1>8 DEF Removals
<1>18. remover' = [remover EXCEPT ![r] = g]
  BY <1>10
<1>. HIDE DEF g
<1>19. PICK l \in Nat : l = Len(f.seen)
  <2>1. f.seen \in Seq(Blocks)
    BY DEF Removals
  <2>. QED
    BY <2>1, LenProperties
<1>20. PICK i \in Nat \ {0} : i = f.i
  BY DEF Removals
<1>21. /\ \A k \in i..l : f.seen[k] \in Members
       /\ \A s \in Members \intersect target : \E k \in i..l : f.seen[k] = s
  BY <1>2, <1>3, <1>19, <1>20 DEF Fine, Compares, Rest
<1>22. \A j, k \in 1..l : f.seen[j] = f.seen[k] => j = k
  BY <1>3, <1>19 DEF Fine
<1>23. \A k \in i + 1..l : f.seen[k] \in Members'
  <2>. SUFFICES ASSUME NEW k \in i + 1..l PROVE f.seen[k] \in Members'
    OBVIOUS
  <2>1. k \in i..l /\ k \in 1..l /\ i \in 1..l /\ k # i
    OBVIOUS
  <2>2. f.seen[k] \in Members /\ f.seen[k] # f.seen[i]
    BY <1>21, <1>22, <2>1
  <2>. QED
    BY <1>7, <1>11, <1>20, <2>2
<1>24. \A s \in Members' \intersect target : \E k \in i + 1..l : f.seen[k] = s
  <2>. SUFFICES ASSUME NEW s \in Members' \intersect target PROVE \E k \in i + 1..l : f.seen[k] = s
    OBVIOUS
  <2>1. s \in Members /\ s # c
    BY <1>11
  <2>2. PICK k \in i..l : f.seen[k] = s
    BY <1>21, <2>1
  <2>3. k # i
    BY <1>7, <1>20, <2>1, <2>2
  <2>4. k \in i + 1..l
    BY <2>3
  <2>. QED
    BY <2>2, <2>4
<1>25. Finds(g, rank)'
  <2>1. sonext' = sonext /\ IF sonext = c THEN IsTail(p)' ELSE IsTail(sonext)'
    BY <1>1, <1>4, <1>14
  <2>2. IF sonext' = g.seen[g.i] THEN IsTail(g.prev)' ELSE IsTail(sonext)'
    BY <1>7, <1>17, <2>1
  <2>. QED
    BY <1>6, <1>17, <2>2 DEF Finds
<1>26. Fine(g, rank)'
  <2>1. target' = target
    BY <1>1
  <2>. QED
    BY <1>17, <1>19, <1>20, <1>22, <1>23, <1>24, <1>25, <2>1 DEF Fine, Copies, Compares, Rest
<1>. QED
  BY <1>1, <1>4, <1>12, <1>14, <1>15, <1>16, <1>17, <1>18, <1>26, CallStep

LEMMA MoveTailKeeps == ASSUME ListInv, NEW r \in Removers, List!MoveTail(r) PROVE ListInv'
<1>1. /\ List!At(r, "tail")
      /\ UNCHANGED <<next, live, target, lock, guards, linker, holds, removed, raced, misused, loadCount, removals>>
  BY DEF List!MoveTail
<1>2. PICK f \in Removals : /\ f = remover[r] /\ f.at = "tail"
                            /\ \E rank \in [Blocks -> Nat] : Chained(rank) /\ Fine(f, rank)
  BY <1>1, CallFacts
<1>3. PICK rank \in [Blocks -> Nat] : Chained(rank) /\ Fine(f, rank)
  BY <1>2
<1>4. /\ ~raced /\ linker.at = "idle" /\ \A u \in Removers : u # r => remover[u].at = "idle"
      /\ guards = 1 /\ (holds[r] => lock = r)
  BY <1>1, CallFacts
<1>5. ListTypes /\ misused = FALSE
  BY DEF ListInv
<1>6. /\ sonext' = IF sonext = f.seen[f.i] THEN f.prev ELSE sonext
      /\ remover' = [remover EXCEPT ![r] = [f EXCEPT !.at = "match", !.i = @ + 1]]
  BY <1>2 DEF List!MoveTail, List!Set, List!Cur
<1>7. IF sonext = f.seen[f.i] THEN IsTail(f.prev) ELSE IsTail(sonext)
  BY <1>2, <1>3 DEF Fine, Finds
<1>8. sonext' \in Members /\ next[sonext'] = Null
  BY <1>6, <1>7 DEF IsTail
<1>9. Members' = Members
  BY <1>1 DEF Members
<1>10. IsTail(sonext)'
  BY <1>1, <1>8, <1>9 DEF IsTail
<1>11. List!TypeOK'
  <2>1. sonext' \in Soinfos \union {Libdl}
    BY <1>5, <1>8, MemberFacts DEF Blocks
  <2>. QED
    BY <1>1, <1>5, <2>1 DEF ListTypes, List!TypeOK
<1>12. raced' = FALSE /\ misused' = FALSE
  BY <1>1, <1>4, <1>5 DEF ListTypes, List!TypeOK
<1>13. PICK j \in Nat \ {0} : j = f.i + 1
  <2>1. f.i \in Nat
    BY DEF Removals
  <2>. QED
    BY <2>1
<1>. DEFINE g == [f EXCEPT !.at = "match", !.i = j]
<1>14. g \in Removals /\ g.at = "match" /\ g.seen = f.seen /\ g.i = j
  BY DEF Removals
<1>15. remover' = [remover EXCEPT ![r] = g]
  BY <1>6, <1>13
<1>. HIDE DEF g
<1>16. Chained(rank)'
  BY <1>1, <1>3, <1>9 DEF Chained
<1>17. Fine(g, rank)
  <2>1. /\ \A k \in j..Len(f.seen) : f.seen[k] \in Members
        /\ \A s \in Members \intersect target : \E k \in j..Len(f.seen) : f.seen[k] = s
    BY <1>2, <1>3, <1>13 DEF Fine, Compares, Rest
  <2>2. \A k, n \in 1..Len(f.seen) : f.seen[k] = f.seen[n] => k = n
    BY <1>3 DEF Fine
  <2>. QED
    BY <1>14, <2>1, <2>2 DEF Fine, Copies, Compares, Rest, Finds
<1>18. Fine(g, rank)'
  BY <1>1, <1>9, <1>14, <1>17 DEF Fine, Copies, Compares, Rest, Finds
<1>. QED
  BY <1>1, <1>4, <1>10, <1>11, <1>12, <1>14, <1>15, <1>16, <1>18, CallStep

LEMMA DoneKeeps == ASSUME ListInv, NEW r \in Removers, List!Done(r) PROVE ListInv'
<1>1. /\ List!At(r, "done") /\ guards' = guards - 1 /\ lock' = IF holds[r] THEN "nobody" ELSE lock
      /\ remover' = [remover EXCEPT ![r] = List!Quiet]
      /\ UNCHANGED <<next, sonext, live, target, linker, holds, removed, raced, misused, loadCount, removals>>
  BY DEF List!Done, List!Set, List!listVars, List!Nobody
<1>2. /\ ~raced /\ linker.at = "idle" /\ \A u \in Removers : u # r => remover[u].at = "idle"
      /\ guards = 1 /\ IsTail(sonext)
      /\ \E rank \in [Blocks -> Nat] : Chained(rank)
  BY <1>1, CallFacts
<1>3. ListTypes /\ misused = FALSE
  BY DEF ListInv
<1>4. PICK g \in Removals : g = List!Quiet /\ g.at = "idle" /\ g.seen = <<>>
  <2>1. <<>> \in Seq(Blocks)
    OBVIOUS
  <2>2. List!Quiet \in Removals
    BY <2>1 DEF List!Quiet, Removals
  <2>3. List!Quiet.at = "idle" /\ List!Quiet.seen = <<>>
    BY DEF List!Quiet
  <2>. QED
    BY <2>2, <2>3
<1>5. guards' = 0
  BY <1>1, <1>2
<1>6. List!TypeOK'
  BY <1>1, <1>3, <1>5 DEF ListTypes, List!TypeOK, List!Nobody
<1>7. raced' = FALSE /\ misused' = FALSE
  BY <1>1, <1>2, <1>3 DEF ListTypes, List!TypeOK
<1>8. PICK rank \in [Blocks -> Nat] : Chained(rank)
  BY <1>2
<1>9. Chained(rank)' /\ IsTail(sonext)'
  BY <1>1, <1>2, <1>8 DEF Chained, IsTail, Members
<1>10. Fine(g, rank)'
  <2>1. Len(<<>>) = 0
    OBVIOUS
  <2>. QED
    BY <1>4, <2>1 DEF Fine, Copies, Compares, Finds
<1>. QED
  BY <1>1, <1>2, <1>4, <1>5, <1>6, <1>7, <1>9, <1>10, CallStep

LEMMA RemoveKeeps == ASSUME ListInv, NEW r \in Removers, List!Remove(r) PROVE ListInv'
<1>1. /\ ~raced /\ remover[r].at = "idle" /\ (holds[r] => lock = "nobody")
      /\ lock' = IF holds[r] THEN r ELSE lock
      /\ guards' = guards + 1 /\ raced' = (raced \/ List!Busy)
      /\ remover' = [remover EXCEPT ![r] = [List!Quiet EXCEPT !.at = "list", !.trav = Libdl]]
      /\ removals < MaxRemovals /\ removals' = removals + 1
      /\ UNCHANGED <<next, sonext, live, target, linker, holds, removed, misused, loadCount>>
  BY DEF List!Remove, List!At, List!Alive, List!Guarded, List!Set, List!listVars, List!Nobody
<1>2. ListTypes /\ misused = FALSE /\ LockKept /\ ListRight /\ lock \in Removers \union {"linker", "nobody"}
  BY <1>1 DEF ListInv, ListTypes, List!TypeOK, List!Linker, List!Nobody
<1>3. PICK g \in Removals : /\ g = [List!Quiet EXCEPT !.at = "list", !.trav = Libdl]
                            /\ g.at = "list" /\ g.seen = <<>> /\ g.i = 1 /\ g.trav = Libdl
  <2>1. <<>> \in Seq(Blocks)
    OBVIOUS
  <2>2. PICK q \in Removals : q = List!Quiet /\ q.seen = <<>> /\ q.i = 1
    <3>1. List!Quiet \in Removals /\ List!Quiet.seen = <<>> /\ List!Quiet.i = 1
      BY <2>1 DEF List!Quiet, Removals
    <3>. QED
      BY <3>1
  <2>. DEFINE g == [q EXCEPT !.at = "list", !.trav = Libdl]
  <2>3. g \in Removals /\ g.at = "list" /\ g.seen = <<>> /\ g.i = 1 /\ g.trav = Libdl
    BY <2>2 DEF Removals, Blocks
  <2>4. g = [List!Quiet EXCEPT !.at = "list", !.trav = Libdl]
    BY <2>2
  <2>. HIDE DEF g
  <2>. QED
    BY <2>3, <2>4
<1>4. List!TypeOK'
  <2>1. removals' \in 0..MaxRemovals
    <3>1. removals \in 0..MaxRemovals
      BY <1>2 DEF ListTypes, List!TypeOK
    <3>. QED
      BY <1>1, <3>1, ListAssumption
  <2>2. guards' \in Nat
    <3>1. guards \in Nat
      BY <1>2 DEF ListTypes, List!TypeOK
    <3>. QED
      BY <1>1, <3>1
  <2>3. lock' \in Removers \union {"linker", "nobody"} /\ raced' \in BOOLEAN
    BY <1>1, <1>2
  <2>. QED
    BY <1>1, <1>2, <2>1, <2>2, <2>3 DEF ListTypes, List!TypeOK, List!Linker, List!Nobody
<1>5. misused' = FALSE /\ remover' = [remover EXCEPT ![r] = g]
  BY <1>1, <1>2, <1>3
<1>6. /\ remover \in [Removers -> Removals]
      /\ remover' \in [Removers -> Removals] /\ remover'[r] = g /\ \A u \in Removers : u # r => remover'[u] = remover[u]
  BY <1>2, <1>5 DEF ListTypes
<1>7. ListTypes'
  BY <1>1, <1>2, <1>4, <1>6 DEF ListTypes
<1>8. CASE List!Busy
  <2>1. LockKept'
    <3>1. linker'.at # "idle" => lock' = "linker"
      BY <1>1, <1>2 DEF LockKept
    <3>2. ASSUME NEW u \in Removers, List!Active(u)', holds[u] PROVE lock' = u
      <4>1. CASE u = r
        BY <1>1, <3>2, <4>1
      <4>2. CASE u # r
        <5>1. List!Active(u)
          BY <1>6, <3>2, <4>2 DEF List!Active
        <5>2. lock = u
          BY <1>2, <3>2, <5>1 DEF LockKept
        <5>. QED
          BY <1>1, <5>2, ListAssumption
      <4>. QED
        BY <4>1, <4>2
    <3>. QED
      BY <1>1, <3>1, <3>2 DEF LockKept
  <2>2. List!Busy' /\ raced'
    BY <1>1, <1>3, <1>6, <1>8 DEF List!Busy, List!Active
  <2>3. (lock = "nobody" /\ List!Busy) \/ \E u \in Removers : ~holds[u]
    BY <1>1, <1>8
  <2>. QED
    BY <1>1, <1>5, <1>7, <2>1, <2>2, <2>3, RaceStep
<1>9. CASE ~List!Busy
  <2>1. /\ linker.at = "idle" /\ \A u \in Removers : remover[u].at = "idle"
        /\ raced' = FALSE /\ guards = 0
    BY <1>1, <1>2, <1>9 DEF List!Busy, List!Active, ListRight, Alone, ListTypes, List!TypeOK
  <2>2. IsTail(sonext)
    BY <1>2, <2>1 DEF ListRight, TailKept
  <2>3. guards' = 1
    BY <1>1, <2>1
  <2>4. PICK rank \in [Blocks -> Nat] : Chained(rank)
    BY <1>2 DEF ListRight
  <2>5. Chained(rank)' /\ IsTail(sonext)'
    BY <1>1, <2>2, <2>4 DEF Chained, IsTail, Members
  <2>6. Fine(g, rank)
    <3>1. Len(<<>>) = 0 /\ Libdl \in Members /\ Libdl # Null /\ Members \subseteq Blocks
      BY <1>2, MemberFacts, ListAssumption
    <3>2. \A s \in Members : ~(rank[s] < rank[Libdl])
      <4>1. \A s \in Members : rank[s] \in Nat /\ rank[Libdl] \in Nat /\ rank[Libdl] <= rank[s]
        BY <2>4, <3>1 DEF Chained
      <4>. QED
        BY <4>1
    <3>. QED
      BY <1>3, <3>1, <3>2 DEF Fine, Copies, Compares, Finds
  <2>7. Fine(g, rank)'
    BY <1>1, <1>3, <2>6 DEF Fine, Copies, Compares, Finds, Members
  <2>8. holds[r] => lock' = r
    BY <1>1
  <2>. QED
    BY <1>1, <1>3, <1>4, <1>5, <2>1, <2>3, <2>5, <2>7, <2>8, CallStep
<1>. QED
  BY <1>8, <1>9

-----------------------------------------------------------------------------
(* SoList: the steps of the linker *)

\* The linker takes its lock: alone, unless a call without the lock is under way.
LEMMA EnterFacts ==
  ASSUME ListInv, List!LinkerEnter
  PROVE  /\ ~raced /\ misused = FALSE /\ ListTypes /\ LockKept /\ ListRight
         /\ lock = "nobody" /\ lock' = "linker" /\ guards' = guards + 1 /\ guards' \in Nat
         /\ raced' \in BOOLEAN /\ (raced' <=> List!Busy)
         /\ ~List!Busy => raced' = FALSE /\ guards' = 1 /\ \A u \in Removers : remover[u].at = "idle"
         /\ ~List!Busy => IsTail(sonext)
         /\ \A u \in Removers : ~(List!Active(u) /\ holds[u])
<1>1. ~raced /\ lock = "nobody" /\ lock' = "linker" /\ guards' = guards + 1 /\ raced' = (raced \/ List!Busy)
      /\ linker.at = "idle"
  BY DEF List!LinkerEnter, List!Alive, List!Linker, List!Nobody
<1>2. misused = FALSE /\ ListTypes /\ LockKept /\ ListRight
  BY <1>1 DEF ListInv
<1>3. guards \in Nat /\ raced \in BOOLEAN
  BY <1>2 DEF ListTypes, List!TypeOK
<1>4. guards' \in Nat /\ raced' \in BOOLEAN /\ (raced' <=> List!Busy)
  <2>1. guards' \in Nat
    BY <1>1, <1>3
  <2>2. raced' \in BOOLEAN /\ (raced' <=> List!Busy)
    BY <1>1, <1>3, Zenon DEF List!Busy
  <2>. QED
    BY <2>1, <2>2
<1>5. ASSUME ~List!Busy
      PROVE  /\ raced' = FALSE /\ guards' = 1 /\ \A u \in Removers : remover[u].at = "idle"
             /\ IsTail(sonext)
  <2>1. guards = 0 /\ \A u \in Removers : remover[u].at = "idle"
    BY <1>2, <1>5 DEF ListRight, Alone, List!Busy, List!Active
  <2>2. IsTail(sonext)
    BY <1>1, <1>2, <2>1 DEF ListRight, TailKept
  <2>3. guards' = 1
    BY <1>1, <2>1
  <2>. QED
    BY <1>4, <1>5, <2>1, <2>2, <2>3
<1>6. \A u \in Removers : ~(List!Active(u) /\ holds[u])
  BY <1>1, <1>2, ListAssumption DEF LockKept
<1>. QED
  BY <1>1, <1>2, <1>4, <1>5, <1>6

\* What the linker begins while a call without the lock is under way.
LEMMA EnterRace ==
  ASSUME ListInv, List!LinkerEnter, List!Busy, UNCHANGED <<remover, holds, misused>>, ListTypes'
  PROVE  ListInv'
<1>1. /\ ~raced /\ misused = FALSE /\ raced' /\ lock = "nobody" /\ lock' = "linker"
      /\ \A u \in Removers : ~(List!Active(u) /\ holds[u])
  BY EnterFacts
<1>2. PICK u \in Removers : List!Active(u)
  BY DEF List!Busy, List!LinkerEnter
<1>3. List!Busy'
  BY <1>2 DEF List!Busy, List!Active
<1>4. LockKept'
  BY <1>1 DEF LockKept, List!Active
<1>. QED
  BY <1>1, <1>3, <1>4, RaceStep

LEMMA LoadLinkKeeps == ASSUME ListInv, List!LoadLink PROVE ListInv'
<1>1. PICK s \in Soinfos \ live :
        /\ List!LinkerEnter /\ loadCount < ListLoads
        /\ linker' = [at |-> "load", si |-> s, prev |-> sonext]
        /\ live' = live \union {s} /\ target' \in {target, target \union {s}}
        /\ next' = [next EXCEPT ![s] = Null, ![sonext] = s]
        /\ loadCount' = loadCount + 1
        /\ UNCHANGED <<sonext, remover, holds, removed, misused, removals>>
  BY DEF List!LoadLink
<1>2. /\ ~raced /\ misused = FALSE /\ ListTypes /\ ListRight
      /\ lock' = "linker" /\ guards' \in Nat /\ raced' \in BOOLEAN /\ (raced' <=> List!Busy)
      /\ ~List!Busy => raced' = FALSE /\ guards' = 1 /\ \A u \in Removers : remover[u].at = "idle"
      /\ ~List!Busy => IsTail(sonext)
  BY <1>1, EnterFacts
<1>3. /\ next \in [Blocks -> Soinfos \union {Null}] /\ sonext \in Blocks
      /\ target \subseteq live /\ live \subseteq Soinfos /\ removed \subseteq live
      /\ loadCount \in 0..ListLoads /\ removals \in 0..MaxRemovals
  BY <1>2 DEF ListTypes, List!TypeOK, Blocks
<1>4. PICK load \in LinkerSteps : load = linker' /\ load.at = "load" /\ load.si = s
  <2>. DEFINE load == [at |-> "load", si |-> s, prev |-> sonext]
  <2>1. load \in LinkerSteps /\ load.at = "load" /\ load.si = s
    BY <1>3 DEF LinkerSteps
  <2>2. load = linker'
    BY <1>1
  <2>. HIDE DEF load
  <2>. QED
    BY <2>1, <2>2
<1>5. next' \in [Blocks -> Soinfos \union {Null}]
  <2>. DEFINE half == [next EXCEPT ![s] = Null]
  <2>1. half \in [Blocks -> Soinfos \union {Null}]
    BY <1>3
  <2>2. next' = [half EXCEPT ![sonext] = s]
    BY <1>1
  <2>. HIDE DEF half
  <2>. QED
    BY <2>1, <2>2
<1>6. loadCount' \in 0..ListLoads
  BY <1>1, <1>3, ListAssumption
<1>7. List!TypeOK'
  <2>1. target' \subseteq live' /\ live' \subseteq Soinfos /\ removed' \subseteq live'
    BY <1>1, <1>3
  <2>2. misused' \in BOOLEAN /\ sonext' \in Soinfos \union {Libdl} /\ removals' \in 0..MaxRemovals
    BY <1>1, <1>2, <1>3 DEF Blocks
  <2>. QED
    BY <1>2, <1>5, <1>6, <2>1, <2>2 DEF List!TypeOK, Blocks, List!Linker, List!Nobody
<1>8. ListTypes'
  BY <1>1, <1>2, <1>4, <1>7 DEF ListTypes
<1>9. CASE List!Busy
  BY <1>1, <1>8, <1>9, EnterRace
<1>10. CASE ~List!Busy
  <2>1. Members' = Members \union {s}
    BY <1>1, <1>3 DEF Members
  <2>2. PICK rank \in [Blocks -> Nat] : Chained(rank)
    BY <1>2 DEF ListRight
  <2>3. IsTail(s)' /\ \E new \in [Blocks -> Nat] : Chained(new)'
    BY <1>1, <1>2, <1>10, <2>1, <2>2, Grow
  <2>4. LinkerFine'
    BY <1>4, <2>3 DEF LinkerFine
  <2>. QED
    BY <1>1, <1>2, <1>4, <1>7, <1>10, <2>3, <2>4, LinkerStep
<1>. QED
  BY <1>9, <1>10

\* The linker is done: its operation was the only one.
LEMMA LeaveFacts ==
  ASSUME ListInv, List!Alive, linker.at # "idle", List!LinkerLeave
  PROVE  /\ ~raced /\ misused = FALSE /\ ListTypes /\ ListRight
         /\ \A u \in Removers : remover[u].at = "idle"
         /\ guards' = 0 /\ lock' = "nobody" /\ linker' \in LinkerSteps /\ linker'.at = "idle"
         /\ LinkerFine'
<1>1. ~raced /\ misused = FALSE /\ ListTypes /\ ListRight
  BY DEF ListInv, List!Alive
<1>2. (\A u \in Removers : remover[u].at = "idle") /\ guards = 1
  BY <1>1 DEF ListRight, Alone, List!Busy, List!Active
<1>3. guards' = 0 /\ lock' = "nobody"
  BY <1>2 DEF List!LinkerLeave, List!Nobody
<1>4. linker' \in LinkerSteps /\ linker'.at = "idle"
  BY DEF List!LinkerLeave, List!Waiting, LinkerSteps
<1>5. LinkerFine'
  BY <1>4 DEF LinkerFine
<1>. QED
  BY <1>1, <1>2, <1>3, <1>4, <1>5

LEMMA LoadTailKeeps == ASSUME ListInv, List!LoadTail PROVE ListInv'
<1>1. /\ List!Alive /\ linker.at = "load" /\ List!LinkerLeave /\ sonext' = linker.si
      /\ UNCHANGED <<next, live, target, remover, holds, removed, raced, misused, loadCount, removals>>
  BY DEF List!LoadTail
<1>2. /\ ~raced /\ misused = FALSE /\ ListTypes /\ ListRight
      /\ \A u \in Removers : remover[u].at = "idle"
      /\ guards' = 0 /\ lock' = "nobody" /\ linker' \in LinkerSteps /\ linker'.at = "idle"
      /\ LinkerFine'
  BY <1>1, LeaveFacts
<1>3. IsTail(linker.si) /\ linker.si \in Soinfos
  BY <1>1, <1>2 DEF ListRight, LinkerFine, ListTypes
<1>4. IsTail(sonext)'
  BY <1>1, <1>3 DEF IsTail, Members
<1>5. List!TypeOK'
  BY <1>1, <1>2, <1>3 DEF ListTypes, List!TypeOK, List!Nobody
<1>6. raced' = FALSE /\ misused' = FALSE
  BY <1>1, <1>2 DEF ListTypes, List!TypeOK
<1>7. \E rank \in [Blocks -> Nat] : Chained(rank)'
  <2>1. PICK rank \in [Blocks -> Nat] : Chained(rank)
    BY <1>2 DEF ListRight
  <2>2. Chained(rank)'
    BY <1>1, <2>1 DEF Chained, Members
  <2>. QED
    BY <2>2
<1>. QED
  BY <1>1, <1>2, <1>4, <1>5, <1>6, <1>7, LinkerStep

LEMMA UnloadFindKeeps == ASSUME ListInv, List!UnloadFind PROVE ListInv'
<1>1. PICK s \in live, p \in List!Listed :
        /\ List!LinkerEnter /\ next[p] = s
        /\ linker' = [at |-> "unload", si |-> s, prev |-> p]
        /\ UNCHANGED <<next, sonext, live, target, remover, holds, removed, misused, loadCount, removals>>
  BY DEF List!UnloadFind, List!listVars
<1>2. /\ ~raced /\ misused = FALSE /\ ListTypes /\ ListRight
      /\ lock' = "linker" /\ guards' \in Nat /\ raced' \in BOOLEAN /\ (raced' <=> List!Busy)
      /\ ~List!Busy => raced' = FALSE /\ guards' = 1 /\ \A u \in Removers : remover[u].at = "idle"
      /\ ~List!Busy => IsTail(sonext)
  BY <1>1, EnterFacts
<1>3. PICK rank \in [Blocks -> Nat] : Chained(rank)
  BY <1>2 DEF ListRight
<1>4. p \in Members /\ p \in Blocks /\ s \in Soinfos
  <2>1. p \in Members
    BY <1>1, <1>2, <1>3, ListedMembers
  <2>. QED
    BY <1>2, <2>1, MemberFacts
<1>5. PICK unload \in LinkerSteps : unload = linker' /\ unload.at = "unload" /\ unload.si = s /\ unload.prev = p
  <2>. DEFINE unload == [at |-> "unload", si |-> s, prev |-> p]
  <2>1. unload \in LinkerSteps /\ unload.at = "unload" /\ unload.si = s /\ unload.prev = p
    BY <1>4 DEF LinkerSteps
  <2>2. unload = linker'
    BY <1>1
  <2>. HIDE DEF unload
  <2>. QED
    BY <2>1, <2>2
<1>6. List!TypeOK'
  BY <1>1, <1>2 DEF ListTypes, List!TypeOK, List!Linker, List!Nobody
<1>7. ListTypes'
  BY <1>1, <1>2, <1>5, <1>6 DEF ListTypes
<1>8. CASE List!Busy
  BY <1>1, <1>7, <1>8, EnterRace
<1>9. CASE ~List!Busy
  <2>1. Members' = Members
    BY <1>1 DEF Members
  <2>2. Chained(rank)' /\ IsTail(sonext)'
    BY <1>1, <1>2, <1>3, <1>9, <2>1 DEF Chained, IsTail
  <2>3. LinkerFine'
    <3>1. linker'.at = "unload" /\ linker'.prev = p /\ linker'.si = s
      BY <1>5
    <3>. QED
      BY <1>1, <1>4, <2>1, <3>1 DEF LinkerFine
  <2>. QED
    BY <1>1, <1>2, <1>5, <1>6, <1>9, <2>2, <2>3, LinkerStep
<1>. QED
  BY <1>8, <1>9

LEMMA UnloadFreeKeeps == ASSUME ListInv, List!UnloadFree PROVE ListInv'
<1>1. /\ List!Alive /\ linker.at = "unload" /\ List!LinkerLeave
      /\ next' = [next EXCEPT ![linker.prev] = next[linker.si]]
      /\ sonext' = IF sonext = linker.si THEN linker.prev ELSE sonext
      /\ live' = live \ {linker.si} /\ target' = target \ {linker.si}
      /\ removed' = removed \ {linker.si}
      /\ UNCHANGED <<remover, holds, raced, misused, loadCount, removals>>
  BY DEF List!UnloadFree
<1>2. /\ ~raced /\ misused = FALSE /\ ListTypes /\ ListRight
      /\ \A u \in Removers : remover[u].at = "idle"
      /\ guards' = 0 /\ lock' = "nobody" /\ linker' \in LinkerSteps /\ linker'.at = "idle"
      /\ LinkerFine'
  BY <1>1, LeaveFacts
<1>3. PICK p \in Members : p = linker.prev /\ next[p] = linker.si /\ linker.si \in live
  BY <1>1, <1>2 DEF ListRight, LinkerFine
<1>4. PICK c \in Soinfos : c = linker.si
  BY <1>2, <1>3, MemberFacts
<1>5. PICK rank \in [Blocks -> Nat] : Chained(rank)
  BY <1>2 DEF ListRight
<1>6. Members' = Members \ {c}
  BY <1>1, <1>4, ListAssumption DEF Members
<1>7. /\ Chained(rank)' /\ c \in Members /\ p # c /\ p \in Members'
      /\ \A e : IsTail(e) => IF e = c THEN IsTail(p)' ELSE IsTail(e)'
      /\ next' \in [Blocks -> Soinfos \union {Null}]
  BY <1>1, <1>2, <1>3, <1>4, <1>5, <1>6, Cut
<1>8. IsTail(sonext)
  BY <1>1, <1>2 DEF ListRight, TailKept
<1>9. sonext' \in Members' /\ next'[sonext'] = Null
  BY <1>1, <1>3, <1>4, <1>7, <1>8 DEF IsTail
<1>10. IsTail(sonext)'
  BY <1>9 DEF IsTail
<1>11. List!TypeOK'
  <2>1. sonext' \in Soinfos \union {Libdl}
    BY <1>2, <1>6, <1>9, MemberFacts DEF Blocks
  <2>2. target' \subseteq live' /\ live' \subseteq Soinfos /\ removed' \subseteq live'
    BY <1>1, <1>2 DEF ListTypes, List!TypeOK
  <2>. QED
    BY <1>1, <1>2, <1>7, <2>1, <2>2 DEF ListTypes, List!TypeOK, List!Nobody, Blocks
<1>12. raced' = FALSE /\ misused' = FALSE
  BY <1>1, <1>2 DEF ListTypes, List!TypeOK
<1>. QED
  BY <1>1, <1>2, <1>7, <1>10, <1>11, <1>12, LinkerStep

-----------------------------------------------------------------------------
LEMMA ListInit == List!Init => ListInv
<1>. SUFFICES ASSUME List!Init PROVE ListInv
  OBVIOUS
<1>1. /\ next = [s \in Blocks |-> Null] /\ sonext = Libdl
      /\ live = {} /\ target = {} /\ lock = "nobody" /\ guards = 0
      /\ linker = List!Waiting /\ remover = [r \in Removers |-> List!Quiet]
      /\ holds \in [Removers -> BOOLEAN]
      /\ removed = {} /\ raced = FALSE /\ misused = FALSE /\ loadCount = 0 /\ removals = 0
  BY DEF List!Init, List!Nobody, Blocks
<1>2. linker \in LinkerSteps /\ linker.at = "idle"
  BY <1>1 DEF List!Waiting, LinkerSteps
<1>3. List!Quiet \in Removals /\ List!Quiet.at = "idle" /\ List!Quiet.seen = <<>>
  <2>1. <<>> \in Seq(Blocks)
    OBVIOUS
  <2>. QED
    BY <2>1 DEF List!Quiet, Removals
<1>4. remover \in [Removers -> Removals] /\ \A r \in Removers : remover[r].at = "idle" /\ remover[r].seen = <<>>
  BY <1>1, <1>3
<1>5. List!TypeOK
  <2>1. next \in [Blocks -> Soinfos \union {Null}] /\ sonext \in Blocks
    BY <1>1 DEF Blocks
  <2>2. guards \in Nat /\ loadCount \in 0..ListLoads /\ removals \in 0..MaxRemovals
    BY <1>1, ListAssumption
  <2>3. target \subseteq live /\ live \subseteq Soinfos /\ removed \subseteq live
    BY <1>1
  <2>. QED
    BY <1>1, <2>1, <2>2, <2>3 DEF List!TypeOK, Blocks, List!Linker, List!Nobody
<1>6. ListTypes
  BY <1>1, <1>2, <1>4, <1>5 DEF ListTypes
<1>7. LockKept /\ Alone
  BY <1>1, <1>2, <1>4 DEF LockKept, Alone, List!Active, List!Busy
<1>8. Members = {Libdl} /\ IsTail(sonext)
  BY <1>1 DEF Members, IsTail, Blocks
<1>9. LinkerFine /\ TailKept
  BY <1>2, <1>8 DEF LinkerFine, TailKept
<1>. DEFINE rank == [s \in Blocks |-> 0]
<1>10. rank \in [Blocks -> Nat] /\ rank[Libdl] = 0
  BY DEF Blocks
<1>. HIDE DEF rank
<1>11. Chained(rank)
  <2>1. next[Libdl] = Null
    BY <1>1 DEF Blocks
  <2>. QED
    BY <1>8, <1>10, <2>1 DEF Chained
<1>12. \A r \in Removers : Fine(remover[r], rank)
  <2>1. Len(<<>>) = 0
    OBVIOUS
  <2>. QED
    BY <1>4, <2>1 DEF Fine, Copies, Compares, Finds
<1>13. ListRight
  BY <1>7, <1>9, <1>10, <1>11, <1>12 DEF ListRight
<1>. QED
  BY <1>1, <1>6, <1>7, <1>13 DEF ListInv

LEMMA ListNext == ListInv /\ [List!Next]_(List!vars) => ListInv'
<1>. SUFFICES ASSUME ListInv, [List!Next]_(List!vars) PROVE ListInv'
  OBVIOUS
<1>1. CASE List!LoadLink \/ List!LoadTail \/ List!UnloadFind \/ List!UnloadFree
  BY <1>1, LoadLinkKeeps, LoadTailKeeps, UnloadFindKeeps, UnloadFreeKeeps
<1>2. ASSUME NEW r \in Removers, List!Remove(r) \/ List!Step(r) PROVE ListInv'
  BY <1>2, RemoveKeeps, GetSolistKeeps, MatchKeeps, FindKeeps, UnlinkKeeps, MoveTailKeeps, DoneKeeps DEF List!Step
<1>3. CASE UNCHANGED List!vars
  <2>1. UNCHANGED <<next, sonext, live, target, lock, guards, linker, remover, holds, removed,
                    raced, misused, loadCount, removals>>
    BY <1>3 DEF List!vars, List!listVars
  <2>2. ListTypes'
    BY <2>1 DEF ListInv, ListTypes, List!TypeOK
  <2>3. LockKept' /\ (List!Busy' <=> List!Busy) /\ \A r \in Removers : List!Active(r)' <=> List!Active(r)
    BY <2>1 DEF ListInv, LockKept, List!Active, List!Busy
  <2>4. ~raced => ListRight'
    <3>. SUFFICES ASSUME ~raced PROVE ListRight'
      OBVIOUS
    <3>1. Alone' /\ LinkerFine' /\ TailKept'
      BY <2>1, <2>3 DEF ListInv, ListRight, Alone, LinkerFine, TailKept, IsTail, Members
    <3>2. PICK rank \in [Blocks -> Nat] : Chained(rank) /\ \A r \in Removers : Fine(remover[r], rank)
      BY DEF ListInv, ListRight
    <3>3. Chained(rank)'
      BY <2>1, <3>2 DEF Chained, Members
    <3>4. \A r \in Removers : Fine(remover[r], rank)'
      BY <2>1, <3>2 DEF Fine, Copies, Compares, Finds, IsTail, Members
    <3>. QED
      BY <3>1, <3>3, <3>4 DEF ListRight
  <2>. QED
    BY <2>1, <2>2, <2>3, <2>4 DEF ListInv
<1>. QED
  BY <1>1, <1>2, <1>3 DEF List!Next

LEMMA ListHolds == ListInv => ListIsWhole
<1>. SUFFICES ASSUME ListInv PROVE ListIsWhole
  OBVIOUS
<1>1. List!TypeOK /\ misused = FALSE /\ ListTypes /\ (raced => List!Busy /\ \E r \in Removers : ~holds[r])
  BY DEF ListInv, ListTypes
<1>2. ~raced => List!Listed = Members
  BY <1>1, ListedMembers DEF ListInv, ListRight
<1>3. ASSUME ~List!Busy
      PROVE  List!Listed = {Libdl} \union (live \ removed) /\ sonext \in List!Listed /\ next[sonext] = Null
  <2>1. ~raced /\ ListRight
    BY <1>1, <1>3 DEF ListInv
  <2>2. linker.at = "idle" /\ \A r \in Removers : remover[r].at = "idle"
    BY <1>3 DEF List!Busy, List!Active
  <2>3. IsTail(sonext)
    BY <2>1, <2>2 DEF ListRight, TailKept
  <2>. QED
    BY <1>2, <2>1, <2>3 DEF IsTail, Members
<1>4. ASSUME NEW r \in Removers, List!At(r, "done") PROVE List!Listed \intersect target = {}
  <2>1. ~raced /\ ListRight /\ remover[r].at = "done"
    BY <1>4 DEF ListInv, List!At, List!Alive
  <2>2. Members \intersect target = {}
    BY <2>1 DEF ListRight, Fine
  <2>. QED
    BY <1>2, <2>1, <2>2
<1>. QED
  BY <1>1, <1>3, <1>4 DEF ListIsWhole, List!ListIsWhole

\* For any libraries, threads and number of loads and calls, between the operations
\* the linker's list holds the libraries in use without the removed ones and ends where
\* the linker keeps its end, a call that is over has left none that it was to remove,
\* no freed soinfo is used, nothing is written to a read-only list, and calls with the
\* lock never race.
THEOREM ListWhole == List!Spec => []ListIsWhole
  BY ListInit, ListNext, ListHolds, PTL DEF List!Spec

-----------------------------------------------------------------------------
(* The run: its behaviours are behaviours of every part *)

LEMMA PartsStep ==
  ASSUME [PartsNext]_<<part, vars, loadVars, listVars, traceVars, hideVars>>
  PROVE  /\ [Next]_vars /\ [Load!Next]_(Load!vars) /\ [List!Next]_(List!vars)
         /\ [Trace!Next]_(Trace!vars) /\ [Hide!Next]_(Hide!vars)
<1>1. Next \/ UNCHANGED vars
  BY DEF PartsNext
<1>2. Load!Next \/ UNCHANGED loadVars
  BY DEF PartsNext
<1>3. List!Next \/ UNCHANGED listVars
  BY DEF PartsNext
<1>4. Trace!Next \/ UNCHANGED traceVars
  BY DEF PartsNext
<1>5. Hide!Next \/ UNCHANGED hideVars
  BY DEF PartsNext
<1>6. UNCHANGED loadVars => UNCHANGED Load!vars
  BY DEF loadVars, Load!vars, Load!listVars
<1>7. UNCHANGED listVars => UNCHANGED List!vars
  BY DEF listVars, List!vars, List!listVars
<1>8. UNCHANGED traceVars => UNCHANGED Trace!vars
  BY DEF traceVars, Trace!vars, Trace!settings, Trace!stream, Trace!hooks, Trace!history
<1>9. UNCHANGED hideVars => UNCHANGED Hide!vars
  BY DEF hideVars, Hide!vars
<1>. QED
  BY <1>1, <1>2, <1>3, <1>4, <1>5, <1>6, <1>7, <1>8, <1>9

\* What is proved of the parts holds of the specification that the run checks, which
\* composes the stack, the linker's callbacks, its list, the tracers and the hiding.
THEOREM PartsCorrect ==
  PartsSpec => /\ [](StacksArePrivate /\ FramesAreMine /\ EveryLoadIsTold /\ ListIsWhole
                     /\ TracedAsSet /\ HidingIsClean)
               /\ CallsAreSafe
<1>1. PartsInit => Init /\ Load!Init /\ List!Init /\ Trace!Init /\ Hide!Init
  BY DEF PartsInit
<1>2. [PartsNext]_<<part, vars, loadVars, listVars, traceVars, hideVars>>
      => /\ [Next]_vars /\ [Load!Next]_(Load!vars) /\ [List!Next]_(List!vars)
         /\ [Trace!Next]_(Trace!vars) /\ [Hide!Next]_(Hide!vars)
  BY PartsStep
<1>3. PartsSpec => Spec /\ Load!Spec /\ List!Spec /\ Trace!Spec /\ Hide!Spec
  BY <1>1, <1>2, PTL DEF PartsSpec, Spec, Load!Spec, List!Spec, Trace!Spec, Hide!Spec
<1>. QED
  BY <1>3, StacksPrivate, FramesOwn, LoadsTold, ListWhole, TracedRight, HidingClean, CallsSafe, PTL
=============================================================================
