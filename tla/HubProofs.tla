----------------------------- MODULE HubProofs -----------------------------
(***************************************************************************)
(* Proofs about Hub.  The inductive invariant speaks of each thread alone: *)
(* of its call stack s, its stack of frames g, what it executes a and its  *)
(* cursor c, with the lists of proxies p.                                  *)
(***************************************************************************)
EXTENDS Hub, FiniteSetTheorems, TLAPS

Proxies == [func : Funcs, enabled : BOOLEAN]
Frames == [hub : Hubs, head : Nat, ra : Sites, reentrant : BOOLEAN]
Activations ==
    [kind : {"app", "trampo", "proxy", "orig"}, hub : Hubs \union {NoHub},
     func : Funcs \union {NoFunc}, ra : Sites, first : BOOLEAN,
     must : SUBSET Funcs, may : SUBSET Funcs]
Places == {"run", "push", "walk", "found", "prev", "abort"}

Marked(s) == {i \in 1..Len(s) : s[i].kind = "proxy" /\ s[i].first}
Depth(s, i) == Cardinality({k \in Marked(s) : k <= i})

\* Activation e entered the chain of activation i.
Starts(s, i, e) == e \in 1..i /\ s[e].first /\ \A k \in e + 1..i : ~s[k].first
Ran(s, e, i) == {s[k].func : k \in e..i}

\* In list l, f is further from the head than what is at place c, or than d.
Within(l, f, c) == \A j \in 1..Len(l) : l[j].func = f => j <= c
Below(l, f, d) == \A j, k \in 1..Len(l) : l[j].func = f /\ l[k].func = d => j < k

\* How a call stack is built.
WellFormed(s, i) ==
    /\ i = 1 => s[i].first
    /\ i = 1 <=> s[i].kind = "app"
    /\ i # 1 => s[i].hub \in Hubs
    /\ s[i].hub \notin Hubs => s[i].must = {}
    /\ s[i].kind = "proxy" <=> s[i].func # NoFunc
    /\ s[i].first => s[i].ra[2] # "prev"
    /\ ~s[i].first => s[i].ra[2] = "prev" /\ s[i].must = {}
    /\ s[i].kind = "trampo" => i = Len(s) /\ s[i].first

Rooted(s, i) ==
    /\ \E e \in 1..i : Starts(s, i, e)
    /\ \A e \in 1..i : Starts(s, i, e) =>
        /\ s[e].hub = s[i].hub
        /\ e # i \/ s[i].kind = "proxy" => s[e].kind = "proxy"

Shape(s, a) ==
    /\ Len(s) >= 1
    /\ \A i \in 1..Len(s) : WellFormed(s, i) /\ Rooted(s, i)
    /\ a \in {"push", "walk", "found"} <=> s[Len(s)].kind = "trampo"
    /\ a = "prev" => s[Len(s)].kind = "proxy"
    /\ a # "abort"

\* Each chain has its frame.
Framed(s, g) ==
    /\ Len(g) = Depth(s, Len(s))
    /\ \A i \in Marked(s) : g[Depth(s, i)].hub = s[i].hub /\ g[Depth(s, i)].ra = s[i].ra

\* No function is twice in a list.
Lists(p) == \A h \in Hubs : \A i, j \in 1..Len(p[h]) : p[h][i].func = p[h][j].func => i = j

\* What an activation knows of the proxies of its function.
KnownBy(l, x) ==
    /\ \A k \in 1..Len(l) : l[k].enabled => l[k].func \in x.may
    /\ \A f \in x.must : \E k \in 1..Len(l) : l[k].enabled /\ l[k].func = f

Known(p, s) == \A e \in 1..Len(s) :
    s[e].first /\ s[e].hub \in Hubs => KnownBy(p[s[e].hub], s[e])

\* A proxy of a chain is in the list, below those that ran before it.
Listed(p, s, g, i, e) ==
    /\ g[Depth(s, e)].head \in Nat
    /\ g[Depth(s, e)].head <= Len(p[s[e].hub])
    /\ \E k \in 1..g[Depth(s, e)].head : p[s[e].hub][k].func = s[i].func
Descends(p, s, i, e, m) == \A j \in i + 1..m :
    Starts(s, j, e) /\ s[j].kind = "proxy" => Below(p[s[e].hub], s[j].func, s[i].func)
Leaves(p, s, i, e) == \A f \in s[e].must :
    f \in Ran(s, e, i) \/ Below(p[s[e].hub], f, s[i].func)

InChain(p, s, g, i, e) ==
    /\ s[i].kind = "proxy" =>
        /\ s[i].func \in s[e].may
        /\ Listed(p, s, g, i, e)
        /\ Leaves(p, s, i, e)
    /\ s[i].kind = "orig" => s[e].must \subseteq Ran(s, e, i)

Chained(p, s, g) == \A i \in 1..Len(s) : \A e \in 1..i : Starts(s, i, e) =>
    InChain(p, s, g, i, e) /\ (s[i].kind = "proxy" => Descends(p, s, i, e, Len(s)))

\* The cursor of a walk has passed nothing that had to run.
Cursor(l, s, a, c) ==
    /\ a = "walk" => c <= Len(l) /\ \A f \in s[Len(s)].must : Within(l, f, c)
    /\ a = "found" =>
        /\ c \in 1..Len(l) /\ l[c].func \in s[Len(s)].may
        /\ \A f \in s[Len(s)].must : Within(l, f, c)
    /\ a = "prev" =>
        /\ c <= Len(l)
        /\ \A k \in 1..Len(l) : l[k].func = s[Len(s)].func => c < k
        /\ \A e \in 1..Len(s) : Starts(s, Len(s), e) =>
            \A f \in s[e].must : f \in Ran(s, e, Len(s)) \/ Within(l, f, c)

\* The frames allow one another, and the one that is about to be pushed.
Allowed(s, g, a) ==
    /\ Len(g) <= MaxFrames
    /\ a = "found" => Len(g) < MaxFrames
    /\ \A i, j \in 1..Len(g) : i < j /\ g[i].hub = g[j].hub => g[i].reentrant
    /\ a \in {"walk", "found"} =>
        \A i \in 1..Len(g) : g[i].hub = s[Len(s)].hub => g[i].reentrant

ThreadInv(p, s, g, a, c) ==
    /\ Shape(s, a)
    /\ Framed(s, g)
    /\ Known(p, s)
    /\ Chained(p, s, g)
    /\ s[Len(s)].hub \in Hubs => Cursor(p[s[Len(s)].hub], s, a, c)
    /\ Allowed(s, g, a)

Inv ==
    /\ TypeOK
    /\ Lists(proxies)
    /\ \A t \in Threads : ThreadInv(proxies, calls[t], frames[t], at[t], cur[t])

USE BoundAssumption, NamesAssumption
-----------------------------------------------------------------------------
(* A chain has one entry.                                                  *)
LEMMA StartsOnce ==
    ASSUME NEW s, NEW i \in Nat, NEW d, NEW e, Starts(s, i, d), Starts(s, i, e)
    PROVE  d = e
<1>1. d \in 1..i /\ e \in 1..i
  BY DEF Starts
<1>2. ~(d < e) /\ ~(e < d)
  BY <1>1 DEF Starts
<1> QED
  BY <1>1, <1>2

(* Depth counts the marked activations up to a place.                      *)
LEMMA DepthCounts ==
    ASSUME NEW s, Len(s) \in Nat
    PROVE  /\ Marked(s) \subseteq 1..Len(s)
           /\ Depth(s, 0) = 0
           /\ \A i \in 0..Len(s) : Depth(s, i) \in Nat
           /\ \A i \in 1..Len(s) :
                Depth(s, i) = IF i \in Marked(s) THEN Depth(s, i - 1) + 1 ELSE Depth(s, i - 1)
<1> DEFINE To(i) == {k \in Marked(s) : k <= i}
<1>1. Marked(s) \subseteq 1..Len(s)
  BY DEF Marked
<1>a. IsFiniteSet(1..Len(s))
  BY FS_Interval
<1>2. IsFiniteSet(Marked(s))
  BY <1>1, <1>a, FS_Subset
<1>3. \A i : IsFiniteSet(To(i)) /\ Cardinality(To(i)) \in Nat
  BY <1>2, FS_Subset, FS_CardinalityType
<1>4. To(0) = {}
  BY <1>1
<1>5. ASSUME NEW i \in 1..Len(s)
      PROVE  Depth(s, i) = IF i \in Marked(s) THEN Depth(s, i - 1) + 1 ELSE Depth(s, i - 1)
  <2>1. CASE i \in Marked(s)
    <3>1. To(i) = To(i - 1) \union {i} /\ i \notin To(i - 1)
      BY <1>1, <2>1
    <3>2. PICK before : before = To(i - 1)
      OBVIOUS
    <3>3. IsFiniteSet(before) /\ i \notin before
      BY <1>3, <3>1, <3>2
    <3> HIDE DEF To
    <3>4. Cardinality(before \union {i}) = Cardinality(before) + 1
      BY <3>3, FS_AddElement
    <3> QED
      BY <2>1, <3>1, <3>2, <3>4 DEF Depth, To
  <2>2. CASE i \notin Marked(s)
    <3>1. To(i) = To(i - 1)
      BY <1>1, <2>2
    <3> QED
      BY <2>2, <3>1 DEF Depth
  <2> QED
    BY <2>1, <2>2
<1> QED
  BY <1>1, <1>3, <1>4, <1>5, FS_EmptySet DEF Depth

LEMMA DepthGrows ==
    ASSUME NEW s, Len(s) \in Nat, NEW i \in 0..Len(s), NEW j \in i..Len(s)
    PROVE  Depth(s, i) <= Depth(s, j)
<1> DEFINE To(k) == {m \in Marked(s) : m <= k}
<1>1. Marked(s) \subseteq 1..Len(s)
  BY DEF Marked
<1>2. IsFiniteSet(1..Len(s))
  BY FS_Interval
<1>3. To(j) \subseteq 1..Len(s) /\ To(i) \subseteq To(j)
  BY <1>1
<1>4. IsFiniteSet(To(j))
  BY <1>2, <1>3, FS_Subset
<1> QED
  BY <1>3, <1>4, FS_Subset DEF Depth

(* Only what is marked up to there matters.                                *)
LEMMA DepthSame ==
    ASSUME NEW s, NEW r, NEW i, \A k : k <= i => (k \in Marked(s) <=> k \in Marked(r))
    PROVE  Depth(s, i) = Depth(r, i)
<1>1. {k \in Marked(s) : k <= i} = {k \in Marked(r) : k <= i}
  OBVIOUS
<1> QED
  BY <1>1 DEF Depth

LEMMA DepthOfChain ==
    ASSUME NEW s, Len(s) \in Nat, NEW i \in 1..Len(s), NEW e, Starts(s, i, e)
    PROVE  Depth(s, i) = Depth(s, e)
<1>1. {k \in Marked(s) : k <= i} = {k \in Marked(s) : k <= e}
  BY DEF Starts, Marked
<1> QED
  BY <1>1 DEF Depth
-----------------------------------------------------------------------------
(* Shape: how the call stack may change.  r is the next stack.             *)

\* r is s with one more activation, or less.
Grown(s, r) == Len(r) = Len(s) + 1 /\ \A i \in 1..Len(s) : r[i] = s[i]

(* A trampoline, or what a proxy calls next, is put on the stack.          *)
LEMMA ShapePush ==
    ASSUME NEW s, NEW r, NEW a \in {"run", "prev"}, NEW b, Len(s) \in Nat,
           Shape(s, a), Grown(s, r), WellFormed(r, Len(r)),
           \/ r[Len(r)].kind = "trampo" /\ b = "push"
           \/ /\ ~r[Len(r)].first /\ r[Len(r)].kind # "trampo" /\ b = "run"
              /\ s[Len(s)].kind = "proxy" /\ r[Len(r)].hub = s[Len(s)].hub
    PROVE  Shape(r, b)
<1> DEFINE n == Len(r)
<1>1. n = Len(s) + 1 /\ Len(s) \in 1..n - 1 /\ \A i \in 1..n - 1 : r[i] = s[i]
  BY DEF Shape, Grown
<1>2. ASSUME NEW i \in 1..n - 1 PROVE WellFormed(r, i) /\ Rooted(r, i)
  <2>1. WellFormed(s, i) /\ Rooted(s, i) /\ s[Len(s)].kind # "trampo" /\ r[i] = s[i]
    BY <1>1 DEF Shape
  <2>2. \A e \in 1..i : Starts(r, i, e) <=> Starts(s, i, e)
    BY <1>1 DEF Starts
  <2>3. WellFormed(r, i)
    BY <1>1, <2>1 DEF WellFormed
  <2>4. Rooted(r, i)
    BY <1>1, <2>1, <2>2 DEF Rooted
  <2> QED
    BY <2>3, <2>4
<1>3. Rooted(r, n)
  <2>1. CASE r[n].kind = "trampo"
    <3>1. r[n].first
      BY <2>1 DEF WellFormed
    <3>2. Starts(r, n, n) /\ \A e \in 1..n : Starts(r, n, e) => e = n
      BY <1>1, <3>1 DEF Starts
    <3> QED
      BY <1>1, <2>1, <3>2 DEF Rooted
  <2>2. CASE ~r[n].first /\ s[Len(s)].kind = "proxy" /\ r[n].hub = s[Len(s)].hub
    <3>1. Rooted(s, Len(s))
      BY <1>1 DEF Shape
    <3>2. \A e \in 1..n : Starts(r, n, e) <=> e \in 1..Len(s) /\ Starts(s, Len(s), e)
      BY <1>1, <2>2 DEF Starts
    <3> QED
      BY <1>1, <2>2, <3>1, <3>2 DEF Rooted
  <2> QED
    BY <2>1, <2>2
<1>4. WellFormed(r, n)
  OBVIOUS
<1> QED
  BY <1>1, <1>2, <1>3, <1>4 DEF Shape

(* Where a chain starts depends on the marks alone.                        *)
LEMMA StartsSame ==
    ASSUME NEW s, NEW r, NEW i \in Nat, \A k \in 1..i : r[k].first <=> s[k].first, NEW e \in 1..i
    PROVE  Starts(r, i, e) <=> Starts(s, i, e)
<1>1. \A k \in e + 1..i : k \in 1..i
  OBVIOUS
<1>2. r[e].first <=> s[e].first
  OBVIOUS
<1>3. (\A k \in e + 1..i : ~r[k].first) <=> (\A k \in e + 1..i : ~s[k].first)
  BY <1>1
<1> QED
  BY <1>2, <1>3 DEF Starts

(* The trampoline on top becomes the original function or a proxy.         *)
LEMMA ShapeTop ==
    ASSUME NEW s, NEW r, NEW a, Len(s) \in Nat, Shape(s, a), Len(r) = Len(s),
           s[Len(s)].kind = "trampo", \A i \in 1..Len(s) - 1 : r[i] = s[i],
           r[Len(s)].kind \in {"orig", "proxy"},
           r[Len(s)].kind = "proxy" <=> r[Len(s)].func # NoFunc,
           r[Len(s)].hub = s[Len(s)].hub, r[Len(s)].ra = s[Len(s)].ra, r[Len(s)].first
    PROVE  Shape(r, "run")
<1> DEFINE n == Len(s)
<1>1. n >= 1 /\ WellFormed(s, n)
  BY DEF Shape
<1>a. r[n].first /\ s[n].first
  <2>1. s[n].kind = "trampo" => s[n].first
    BY <1>1 DEF WellFormed
  <2> QED
    BY <2>1
<1>2. ASSUME NEW i \in 1..n PROVE (r[i].first <=> s[i].first) /\ r[i].hub = s[i].hub
  BY <1>1, <1>a
<1>3. ASSUME NEW i \in 1..n PROVE WellFormed(r, i)
  <2>1. CASE i = n
    BY <1>1, <2>1 DEF WellFormed
  <2>2. CASE i # n
    BY <2>2 DEF Shape, WellFormed
  <2> QED
    BY <2>1, <2>2
<1>4. ASSUME NEW i \in 1..n PROVE Rooted(r, i)
  <2>1. \A e \in 1..i : Starts(r, i, e) <=> Starts(s, i, e)
    <3>1. i \in Nat /\ \A k \in 1..i : k \in 1..n
      OBVIOUS
    <3>2. \A k \in 1..i : r[k].first <=> s[k].first
      BY <1>2, <3>1
    <3> QED
      BY <3>1, <3>2, StartsSame
  <2>2. CASE i = n
    <3>1. \A e \in 1..n : Starts(r, n, e) => e = n
      BY <1>1, <1>2 DEF Starts, WellFormed
    <3> QED
      BY <1>1, <2>2, <3>1 DEF Rooted, Starts
  <2>3. CASE i # n
    <3>1. Rooted(s, i) /\ \A e \in 1..i : r[e] = s[e]
      BY <2>3 DEF Shape
    <3> QED
      BY <2>1, <3>1 DEF Rooted
  <2> QED
    BY <2>2, <2>3
<1>5. \A i \in 1..n : r[i].kind # "trampo"
  BY <1>1 DEF Shape, WellFormed
<1> QED
  BY <1>1, <1>3, <1>4, <1>5 DEF Shape

(* The top of the stack returns.                                           *)
LEMMA ShapePop ==
    ASSUME NEW s, NEW r, NEW a, Len(s) \in Nat, Len(s) > 1, Shape(s, a), Grown(r, s),
           Len(r) \in Nat
    PROVE  Shape(r, "run")
<1> DEFINE n == Len(r)
<1>1. Len(s) = n + 1 /\ n >= 1 /\ \A i \in 1..n : r[i] = s[i]
  BY DEF Grown
<1>2. ASSUME NEW i \in 1..n PROVE WellFormed(r, i) /\ Rooted(r, i) /\ r[i].kind # "trampo"
  <2>1. WellFormed(s, i) /\ Rooted(s, i) /\ r[i] = s[i]
    BY <1>1 DEF Shape
  <2>2. \A e \in 1..i : Starts(r, i, e) <=> Starts(s, i, e)
    BY <1>1 DEF Starts
  <2>3. WellFormed(r, i) /\ r[i].kind # "trampo"
    BY <1>1, <2>1 DEF WellFormed
  <2>4. Rooted(r, i)
    BY <1>1, <2>1, <2>2 DEF Rooted
  <2> QED
    BY <2>3, <2>4
<1> QED
  BY <1>1, <1>2 DEF Shape

(* A proxy is added or deleted: activations learn of it.                   *)
LEMMA ShapeLearn ==
    ASSUME NEW s, NEW r, NEW a, Len(s) \in Nat, Shape(s, a), Len(r) = Len(s),
           \A i \in 1..Len(s) :
              /\ r[i].kind = s[i].kind /\ r[i].hub = s[i].hub /\ r[i].func = s[i].func
              /\ r[i].ra = s[i].ra /\ r[i].first = s[i].first
              /\ s[i].must = {} => r[i].must = {}
    PROVE  Shape(r, a)
<1>1. ASSUME NEW i \in 1..Len(s) PROVE WellFormed(r, i)
  <2>1. WellFormed(s, i)
    BY DEF Shape
  <2> QED
    BY <2>1 DEF WellFormed
<1>2. ASSUME NEW i \in 1..Len(s) PROVE Rooted(r, i)
  <2>1. Rooted(s, i)
    BY DEF Shape
  <2>2. \A e \in 1..i : Starts(r, i, e) <=> Starts(s, i, e)
    BY DEF Starts
  <2> QED
    BY <2>1, <2>2 DEF Rooted
<1> QED
  BY <1>1, <1>2 DEF Shape
-----------------------------------------------------------------------------
(* Framed: the frames stay those of the chains.                            *)

(* The marks and the frames change in nothing that Framed looks at.        *)
LEMMA FramedSame ==
    ASSUME NEW s, NEW r, NEW g, NEW d, Len(s) \in Nat, Len(r) \in Nat, Framed(s, g),
           Marked(r) = Marked(s),
           \A i \in Marked(s) : r[i].hub = s[i].hub /\ r[i].ra = s[i].ra,
           Len(d) = Len(g),
           \A i \in 1..Len(g) : d[i].hub = g[i].hub /\ d[i].ra = g[i].ra
    PROVE  Framed(r, d)
<1>1. Marked(s) \subseteq 1..Len(s) /\ Marked(s) \subseteq 1..Len(r)
  BY DEF Marked
<1>2. \A i : Depth(r, i) = Depth(s, i)
  BY DepthSame
<1>3. Depth(s, Len(s)) = Depth(s, Len(r))
  <2>1. {k \in Marked(s) : k <= Len(s)} = {k \in Marked(s) : k <= Len(r)}
    BY <1>1
  <2> QED
    BY <2>1 DEF Depth
<1>4. ASSUME NEW i \in Marked(s) PROVE Depth(s, i) \in 1..Len(g)
  <2>1. i \in 1..Len(s) /\ i - 1 \in 0..Len(s)
    BY <1>1
  <2>2. Depth(s, i) = Depth(s, i - 1) + 1 /\ Depth(s, i - 1) \in Nat
    BY <1>4, <2>1, DepthCounts
  <2>3. Depth(s, i) <= Depth(s, Len(s)) /\ Depth(s, Len(s)) \in Nat
    BY <2>1, DepthGrows, DepthCounts
  <2> QED
    BY <2>2, <2>3 DEF Framed
<1> QED
  BY <1>2, <1>3, <1>4 DEF Framed

(* A chain is entered, and its frame pushed.                               *)
LEMMA FramedEnter ==
    ASSUME NEW s, NEW r, NEW g, NEW d, Len(s) \in Nat \ {0}, Len(r) = Len(s),
           Framed(s, g), Len(s) \notin Marked(s), Len(s) \in Marked(r),
           \A i \in 1..Len(s) - 1 : r[i] = s[i],
           Grown(g, d), d[Len(d)].hub = r[Len(s)].hub, d[Len(d)].ra = r[Len(s)].ra
    PROVE  Framed(r, d)
<1> DEFINE n == Len(s)
<1>a. \A i : i \in 1..n <=> i \in 1..n - 1 \/ i = n
  OBVIOUS
<1>b. \A i \in 1..n - 1 : i # n /\ (i \in Marked(r) <=> i \in Marked(s))
  BY <1>a DEF Marked
<1>1. Marked(s) \subseteq 1..n /\ Marked(r) = Marked(s) \union {n}
  <2>1. Marked(s) \subseteq 1..n /\ Marked(r) \subseteq 1..n
    BY DEF Marked
  <2> QED
    BY <1>a, <1>b, <2>1
<1>2. \A i \in 0..n - 1 : Depth(r, i) = Depth(s, i)
  BY <1>1, DepthSame
<1>3. Depth(r, n) = Len(g) + 1 /\ Len(g) \in Nat
  <2>1. Depth(s, n) = Depth(s, n - 1) /\ Depth(s, n) \in Nat
    BY DepthCounts
  <2>2. Depth(r, n) = Depth(r, n - 1) + 1
    BY DepthCounts
  <2> QED
    BY <1>2, <2>1, <2>2 DEF Framed
<1>4. ASSUME NEW i \in Marked(s) PROVE Depth(r, i) = Depth(s, i) /\ Depth(s, i) \in 1..Len(g)
  <2>1. i \in 1..n - 1 /\ i - 1 \in 0..n
    BY <1>1
  <2>2. Depth(s, i) = Depth(s, i - 1) + 1 /\ Depth(s, i - 1) \in Nat
    BY <1>4, <2>1, DepthCounts
  <2>3. Depth(s, i) <= Depth(s, n) /\ Depth(s, n) \in Nat
    BY <2>1, DepthGrows, DepthCounts
  <2> QED
    BY <1>2, <2>1, <2>2, <2>3 DEF Framed
<1>5. \A i \in Marked(s) : d[Depth(r, i)].hub = r[i].hub /\ d[Depth(r, i)].ra = r[i].ra
  BY <1>1, <1>4 DEF Framed, Grown
<1> QED
  BY <1>1, <1>3, <1>5 DEF Framed, Grown

(* The entry of a chain returns, and its frame is popped.                  *)
LEMMA FramedLeave ==
    ASSUME NEW s, NEW r, NEW g, NEW d, Len(s) \in Nat \ {0}, Grown(r, s), Len(r) \in Nat,
           Framed(s, g), Len(s) \in Marked(s), Grown(d, g), Len(d) \in Nat
    PROVE  Framed(r, d)
<1> DEFINE n == Len(s)
<1>1. /\ Marked(s) \subseteq 1..n /\ Marked(s) = Marked(r) \union {n}
      /\ Marked(r) \subseteq 1..n - 1 /\ Len(r) = n - 1
  BY DEF Marked, Grown
<1>2. \A i \in 0..n - 1 : Depth(r, i) = Depth(s, i)
  BY <1>1, DepthSame
<1>3. Depth(r, n - 1) = Len(d)
  <2>1. Depth(s, n) = Depth(s, n - 1) + 1 /\ Depth(s, n - 1) \in Nat
    BY DepthCounts
  <2> QED
    BY <1>2, <2>1 DEF Framed, Grown
<1>4. ASSUME NEW i \in Marked(r) PROVE Depth(r, i) = Depth(s, i) /\ Depth(r, i) \in 1..Len(d)
  <2>1. i \in 1..n - 1 /\ i - 1 \in 0..n - 1 /\ i \in Marked(s)
    BY <1>1
  <2>2. Depth(s, i) = Depth(s, i - 1) + 1 /\ Depth(s, i - 1) \in Nat
    BY <2>1, DepthCounts
  <2>3. Depth(s, i) <= Depth(s, n - 1) /\ Depth(s, n - 1) \in Nat
    BY <2>1, DepthGrows, DepthCounts
  <2> QED
    BY <1>2, <1>3, <2>1, <2>2, <2>3
<1> QED
  BY <1>1, <1>3, <1>4 DEF Framed, Grown

(* The last frame is that of the chain on top of the stack.                *)
Topmost(s, g, e) ==
    /\ e \in Marked(s) /\ Len(g) \in Nat \ {0} /\ Depth(s, e) = Len(g)
    /\ g[Len(g)].hub = s[Len(s)].hub /\ g[Len(g)].hub = s[e].hub
    /\ g[Len(g)].ra = s[e].ra
LEMMA TopFrame ==
    ASSUME NEW s, NEW g, NEW a, NEW e, Len(s) \in Nat, Shape(s, a), Framed(s, g),
           Starts(s, Len(s), e), s[e].kind = "proxy"
    PROVE  Topmost(s, g, e)
<1>1. Len(s) \in 1..Len(s) /\ e \in 1..Len(s) /\ Rooted(s, Len(s))
  BY DEF Shape, Starts
<1>2. e \in Marked(s) /\ s[e].hub = s[Len(s)].hub
  BY <1>1 DEF Marked, Starts, Rooted
<1>3. Depth(s, Len(s)) = Depth(s, e)
  BY <1>1, DepthOfChain
<1>4. e - 1 \in 0..Len(s) /\ Depth(s, e) = Depth(s, e - 1) + 1 /\ Depth(s, e - 1) \in Nat
  BY <1>1, <1>2, DepthCounts
<1> QED
  BY <1>2, <1>3, <1>4 DEF Framed, Topmost
-----------------------------------------------------------------------------
(* Chained: the proxies of a chain go down the list.                       *)

(* What two call stacks share: the first m activations, and their frames.  *)
Shares(p, s, r, g, d, a, m) ==
    /\ Len(s) \in Nat /\ Shape(s, a) /\ Framed(s, g) /\ Chained(p, s, g)
    /\ m \in 0..Len(s) /\ Len(r) \in Nat /\ m <= Len(r)
    /\ \A i \in 1..m : r[i] = s[i]
    /\ \A k \in 1..Depth(s, m) : d[k].head = g[k].head

LEMMA ChainedPrefix ==
    ASSUME NEW p, NEW s, NEW r, NEW g, NEW d, NEW a, NEW m, Shares(p, s, r, g, d, a, m),
           NEW i \in 1..m, NEW e \in 1..i, Starts(r, i, e)
    PROVE  /\ InChain(p, r, d, i, e)
           /\ r[i].kind = "proxy" => Descends(p, r, i, e, m)
<1> USE DEF Shares
<1>1. i \in 1..Len(s) /\ r[i] = s[i] /\ r[e] = s[e] /\ e \in 1..Len(s) /\ e \in 0..m
  OBVIOUS
<1>2. ASSUME NEW j \in i..m PROVE Starts(r, j, e) <=> Starts(s, j, e)
  <2>1. j \in Nat /\ e \in 1..j /\ \A k \in 1..j : k \in 1..m
    OBVIOUS
  <2>2. \A k \in 1..j : r[k].first <=> s[k].first
    BY <2>1
  <2> QED
    BY <2>1, <2>2, StartsSame
<1>3. /\ InChain(p, s, g, i, e)
      /\ s[i].kind = "proxy" => Descends(p, s, i, e, Len(s))
  BY <1>1, <1>2 DEF Chained
<1>4. r[i].kind = "proxy" => Listed(p, r, d, i, e)
  <2>1. SUFFICES ASSUME r[i].kind = "proxy" PROVE Listed(p, r, d, i, e)
    OBVIOUS
  <2>2. Starts(s, i, e)
    BY <1>2
  <2>a. Rooted(s, i)
    BY <1>1 DEF Shape
  <2>3. s[e].kind = "proxy" /\ s[e].first
    BY <1>1, <2>1, <2>2, <2>a DEF Rooted, Starts
  <2>4. e \in Marked(s)
    BY <1>1, <2>3 DEF Marked
  <2>5. Depth(s, e) = Depth(s, e - 1) + 1 /\ Depth(s, e - 1) \in Nat
    <3>1. e - 1 \in 0..Len(s)
      BY <1>1
    <3> QED
      BY <1>1, <2>4, <3>1, DepthCounts
  <2>6. Depth(s, e) <= Depth(s, m) /\ Depth(s, m) \in Nat
    BY <1>1, DepthGrows, DepthCounts
  <2>7. d[Depth(s, e)].head = g[Depth(s, e)].head
    BY <2>5, <2>6
  <2>8. Depth(r, e) = Depth(s, e)
    <3>1. \A k : k <= e => (k \in Marked(s) <=> k \in Marked(r))
      BY <1>1 DEF Marked
    <3> QED
      BY <3>1, DepthSame
  <2> QED
    BY <1>1, <1>3, <2>1, <2>7, <2>8 DEF InChain, Listed
<1>5. Ran(r, e, i) = Ran(s, e, i)
  <2>1. \A k \in e..i : k \in 1..m
    OBVIOUS
  <2>2. \A k \in e..i : r[k] = s[k]
    BY <2>1
  <2> QED
    BY <2>2, Zenon DEF Ran
<1>6. InChain(p, r, d, i, e)
  BY <1>1, <1>3, <1>4, <1>5 DEF InChain, Leaves
<1>7. ASSUME r[i].kind = "proxy", NEW j \in i + 1..m, Starts(r, j, e), r[j].kind = "proxy"
      PROVE  Below(p[r[e].hub], r[j].func, r[i].func)
  <2>1. Starts(s, j, e) /\ s[j] = r[j] /\ j \in i + 1..Len(s)
    BY <1>2, <1>7
  <2> QED
    BY <1>1, <1>3, <1>7, <2>1 DEF Descends
<1> QED
  BY <1>6, <1>7 DEF Descends

(* A chain begins, or the activation that would have entered it runs.      *)
LEMMA ChainedTop ==
    ASSUME NEW p, NEW s, NEW r, NEW g, NEW d, NEW a, NEW m, Shares(p, s, r, g, d, a, m),
           Len(r) = m + 1, r[m + 1].first, InChain(p, r, d, m + 1, m + 1)
    PROVE  Chained(p, r, d)
<1> DEFINE n == m + 1
<1>1. SUFFICES ASSUME NEW i \in 1..n, NEW e \in 1..i, Starts(r, i, e)
               PROVE  InChain(p, r, d, i, e)
                        /\ (r[i].kind = "proxy" => Descends(p, r, i, e, n))
  BY DEF Chained
<1>2. m \in Nat
  BY DEF Shares
<1>3. CASE i = n
  <2>1. e = n
    BY <1>1, <1>2, <1>3 DEF Starts
  <2>2. Descends(p, r, n, n, n)
    BY <1>2 DEF Descends
  <2> QED
    BY <1>3, <2>1, <2>2
<1>4. CASE i # n
  <2>1. i \in 1..m
    BY <1>2, <1>4
  <2>2. /\ InChain(p, r, d, i, e)
        /\ r[i].kind = "proxy" => Descends(p, r, i, e, m)
    BY <1>1, <2>1, ChainedPrefix
  <2>3. ASSUME NEW j \in i + 1..n, Starts(r, j, e) PROVE j \in i + 1..m
    BY <1>2, <2>1, <2>3 DEF Starts
  <2> QED
    BY <2>2, <2>3 DEF Descends
<1> QED
  BY <1>3, <1>4

LEMMA IntervalGrows ==
    ASSUME NEW m \in Nat, NEW i \in 1..m
    PROVE  \A j \in i + 1..m + 1 : j \in i + 1..m \/ j = m + 1
OBVIOUS

\* Place m + 1 of r is what follows proxy m of s, found at place c of list l.
Follows(p, s, r, m, l, c) ==
    /\ m \in Nat \ {0} /\ m = Len(s) /\ Len(r) = m + 1 /\ s[m].kind = "proxy"
    /\ ~r[m + 1].first /\ r[m + 1].kind \in {"proxy", "orig"}
    /\ l = p[s[m].hub] /\ Len(l) \in Nat /\ c \in 0..Len(l)
    /\ \A i, j \in 1..Len(l) : l[i].func = l[j].func => i = j
    /\ Cursor(l, s, "prev", c)
    /\ r[m + 1].kind = "proxy" =>
        /\ c # 0 /\ l[c].func = r[m + 1].func
        /\ \A e \in 1..m : Starts(s, m, e) => l[c].func \in s[e].may
    /\ r[m + 1].kind = "orig" =>
        /\ c = 0
        /\ \A e \in 1..m : Starts(s, m, e) =>
            \A f \in s[e].must : \E k \in 1..Len(l) : l[k].func = f

(* A proxy runs what get_prev_func found.                                  *)
LEMMA ChainedNext ==
    ASSUME NEW p, NEW s, NEW r, NEW g, NEW a, NEW m, Shares(p, s, r, g, g, a, m),
           NEW l, NEW c, Follows(p, s, r, m, l, c)
    PROVE  Chained(p, r, g)
<1> USE DEF Follows, Cursor
<1> DEFINE n == m + 1
<1>0. \A i \in 1..m : r[i] = s[i]
  BY DEF Shares
<1>1. SUFFICES ASSUME NEW i \in 1..n, NEW e \in 1..i, Starts(r, i, e)
               PROVE  InChain(p, r, g, i, e)
                        /\ (r[i].kind = "proxy" => Descends(p, r, i, e, n))
  BY DEF Chained
<1>2. ASSUME NEW d \in 1..n, Starts(r, n, d)
      PROVE  /\ d \in 1..m /\ Starts(r, m, d) /\ Starts(s, m, d)
             /\ r[d] = s[d] /\ s[d].hub = s[m].hub /\ p[s[d].hub] = l
             /\ Listed(p, r, g, m, d)
  <2>1. d \in 1..m /\ r[d] = s[d]
    BY <1>0, <1>2 DEF Starts
  <2>2. Starts(r, m, d)
    BY <1>2, <2>1 DEF Starts
  <2>3. Starts(s, m, d)
    BY <1>0, <2>1, <2>2 DEF Starts
  <2>4. Rooted(s, m)
    BY DEF Shares, Shape
  <2>5. s[d].hub = s[m].hub
    BY <2>1, <2>3, <2>4 DEF Rooted
  <2>6. m \in 1..m /\ r[m] = s[m]
    BY <1>0
  <2>7. InChain(p, r, g, m, d)
    BY <2>1, <2>2, <2>6, ChainedPrefix
  <2> QED
    BY <2>1, <2>2, <2>3, <2>5, <2>6, <2>7 DEF InChain
<1>3. CASE i = n
  <2>1. /\ e \in 1..m /\ Starts(s, m, e) /\ r[e] = s[e] /\ p[s[e].hub] = l
        /\ Listed(p, r, g, m, e)
    BY <1>1, <1>2, <1>3
  <2>2. Ran(r, e, n) = Ran(s, e, m) \union {r[n].func}
    <3>1. e..n = e..m \union {n} /\ \A k \in e..m : r[k] = s[k]
      BY <1>0, <2>1
    <3> QED
      BY <3>1 DEF Ran
  <2>3. CASE r[n].kind = "proxy"
    <3>1. r[m] = s[m] /\ l[c].func = r[n].func
      BY <1>0, <2>3
    <3>2. Listed(p, r, g, n, e)
      BY <2>1, <2>3, <3>1 DEF Listed
    <3>3. ASSUME NEW f \in s[e].must, f \notin Ran(r, e, n) PROVE Below(l, f, r[n].func)
      <4>1. Within(l, f, c) /\ f # r[n].func
        BY <2>1, <2>2, <3>3
      <4>2. ASSUME NEW j \in 1..Len(l), NEW k \in 1..Len(l),
                   l[j].func = f, l[k].func = r[n].func
            PROVE  j < k
        <5>1. k = c /\ j <= c /\ j # c
          BY <2>3, <3>1, <4>1, <4>2 DEF Within
        <5> QED
          BY <5>1
      <4> QED
        BY <4>2 DEF Below
    <3>4. Leaves(p, r, n, e)
      BY <2>1, <3>3 DEF Leaves
    <3>5. r[n].func \in r[e].may
      BY <2>1, <2>3
    <3>6. Descends(p, r, n, e, n)
      BY DEF Descends
    <3> QED
      BY <1>3, <2>3, <3>2, <3>4, <3>5, <3>6 DEF InChain
  <2>4. CASE r[n].kind = "orig"
    <3>1. ASSUME NEW f \in s[e].must PROVE f \in Ran(s, e, m)
      <4>1. c = 0 /\ \E k \in 1..Len(l) : l[k].func = f
        BY <2>1, <2>4
      <4>2. ~Within(l, f, c)
        BY <4>1 DEF Within
      <4> QED
        BY <2>1, <4>2
    <3> QED
      BY <1>3, <2>1, <2>2, <2>4, <3>1 DEF InChain
  <2> QED
    BY <2>3, <2>4
<1>4. CASE i # n
  <2>1. i \in 1..m /\ r[i] = s[i] /\ r[e] = s[e]
    BY <1>0, <1>4
  <2>2. /\ InChain(p, r, g, i, e)
        /\ r[i].kind = "proxy" => Descends(p, r, i, e, m)
    BY <1>1, <2>1, ChainedPrefix
  <2>3. ASSUME r[i].kind = "proxy", Starts(r, n, e), r[n].kind = "proxy"
        PROVE  Below(l, r[n].func, r[i].func)
    <3>1. /\ Starts(r, m, e) /\ p[r[e].hub] = l /\ r[m] = s[m] /\ r[e] = s[e]
          /\ Listed(p, r, g, m, e)
      BY <1>0, <1>2, <2>1, <2>3
    <3>2. PICK h \in 1..Len(l) : l[h].func = s[m].func
      BY <3>1 DEF Listed
    <3>3. c < h /\ l[c].func = r[n].func /\ c \in 1..Len(l)
      BY <2>3, <3>2
    <3>4. i = m \/ Below(l, s[m].func, r[i].func)
      BY <2>1, <2>2, <2>3, <3>1 DEF Descends
    <3>5. ASSUME NEW j \in 1..Len(l), NEW k \in 1..Len(l),
                 l[j].func = r[n].func, l[k].func = r[i].func
          PROVE  j < k
      <4>1. j = c
        BY <3>3, <3>5
      <4>2. CASE i = m
        <5>1. l[h].func = l[k].func
          BY <3>1, <3>2, <3>5, <4>2
        <5>2. h = k
          BY <1>0, <3>2, <3>5, <5>1
        <5> QED
          BY <3>3, <4>1, <5>2
      <4>3. CASE Below(l, s[m].func, r[i].func)
        <5>1. h < k
          BY <3>2, <3>5, <4>3 DEF Below
        <5> QED
          BY <3>3, <3>2, <4>1, <5>1
      <4> QED
        BY <3>4, <4>2, <4>3
    <3> QED
      BY <3>5 DEF Below
  <2>4. r[i].kind = "proxy" => Descends(p, r, i, e, n)
    <3>1. \A j \in i + 1..n : j \in i + 1..m \/ j = n
      BY <2>1, IntervalGrows
    <3>2. Starts(r, n, e) => p[r[e].hub] = l
      BY <1>2, <2>1
    <3> QED
      BY <2>2, <2>3, <3>1, <3>2 DEF Descends
  <2> QED
    BY <2>2, <2>4
<1> QED
  BY <1>3, <1>4

(* A return, or a change of what the frames allow.                         *)
LEMMA ChainedCut ==
    ASSUME NEW p, NEW s, NEW r, NEW g, NEW d, NEW a, NEW m, Shares(p, s, r, g, d, a, m),
           Len(r) = m
    PROVE  Chained(p, r, d)
BY ChainedPrefix DEF Chained
-----------------------------------------------------------------------------
(* An edit of a list, from l to q: functions keep their places.            *)
Later(l, q) ==
    /\ Len(l) \in Nat /\ Len(q) \in Nat /\ Len(l) <= Len(q)
    /\ \A k \in 1..Len(l) : q[k].func = l[k].func
    /\ \A k \in Len(l) + 1..Len(q) : \A j \in 1..Len(l) : q[k].func # l[j].func

\* What an edit teaches the activations.
Learnt(s, r) ==
    /\ Len(s) \in Nat /\ Len(r) = Len(s)
    /\ \A i \in 1..Len(s) :
        /\ r[i].kind = s[i].kind /\ r[i].hub = s[i].hub /\ r[i].func = s[i].func
        /\ r[i].ra = s[i].ra /\ r[i].first = s[i].first
        /\ r[i].must \subseteq s[i].must /\ s[i].may \subseteq r[i].may

In(l, f) == \E k \in 1..Len(l) : l[k].func = f

LEMMA BelowLater ==
    ASSUME NEW l, NEW q, NEW f, NEW d, Later(l, q), In(l, f), In(l, d), Below(l, f, d)
    PROVE  Below(q, f, d)
<1>1. \A k \in 1..Len(q) : q[k].func \in {f, d} => k \in 1..Len(l) /\ l[k].func = q[k].func
  BY DEF Later, In
<1> QED
  BY <1>1 DEF Below

LEMMA WithinLater ==
    ASSUME NEW l, NEW q, NEW f, NEW c, Later(l, q), In(l, f), Within(l, f, c)
    PROVE  Within(q, f, c)
<1>1. \A k \in 1..Len(q) : q[k].func = f => k \in 1..Len(l) /\ l[k].func = q[k].func
  BY DEF Later, In
<1> QED
  BY <1>1 DEF Within

(* What must run is in the list.                                           *)
LEMMA MustIn ==
    ASSUME NEW p, NEW s, NEW a, Len(s) \in Nat, Shape(s, a), Known(p, s),
           NEW e \in 1..Len(s), NEW f \in s[e].must
    PROVE  s[e].hub \in Hubs /\ s[e].first /\ In(p[s[e].hub], f)
<1>1. WellFormed(s, e)
  BY DEF Shape
<1>2. s[e].first /\ s[e].hub \in Hubs
  BY <1>1 DEF WellFormed
<1> QED
  BY <1>2 DEF Known, KnownBy, In

LEMMA LearnChain ==
    ASSUME NEW s, NEW r, Learnt(s, r), NEW i \in 1..Len(s), NEW e \in 1..i
    PROVE  /\ Starts(r, i, e) <=> Starts(s, i, e)
           /\ Ran(r, e, i) = Ran(s, e, i)
           /\ Depth(r, e) = Depth(s, e)
           /\ Marked(r) = Marked(s)
<1>1. \A k \in 1..Len(s) : r[k].first = s[k].first /\ r[k].func = s[k].func /\ r[k].kind = s[k].kind
  BY DEF Learnt
<1>2. Marked(r) = Marked(s)
  BY <1>1 DEF Marked, Learnt
<1>3. Depth(r, e) = Depth(s, e)
  BY <1>2, DepthSame
<1>4. ASSUME NEW k \in e..i PROVE k \in 1..Len(s)
  BY DEF Learnt
<1>5. Ran(r, e, i) = Ran(s, e, i)
  BY <1>1, <1>4 DEF Ran
<1>6. e \in 1..Len(s) /\ \A k \in e + 1..i : k \in 1..Len(s)
  BY DEF Learnt
<1>7. Starts(r, i, e) <=> Starts(s, i, e)
  BY <1>1, <1>6 DEF Starts
<1> QED
  BY <1>2, <1>3, <1>5, <1>7

LEMMA ChainedLearn ==
    ASSUME NEW p, NEW q, NEW s, NEW r, NEW g, NEW a, Len(s) \in Nat,
           Shape(s, a), Known(p, s), Chained(p, s, g),
           \A h \in Hubs : Later(p[h], q[h]), Learnt(s, r)
    PROVE  Chained(q, r, g)
<1>1. SUFFICES ASSUME NEW i \in 1..Len(s), NEW e \in 1..i, Starts(s, i, e)
               PROVE  InChain(q, r, g, i, e)
                        /\ (r[i].kind = "proxy" => Descends(q, r, i, e, Len(s)))
  BY LearnChain DEF Chained, Learnt
<1> DEFINE l == p[s[e].hub]
           m == q[s[e].hub]
<1>2. InChain(p, s, g, i, e) /\ (s[i].kind = "proxy" => Descends(p, s, i, e, Len(s)))
  BY <1>1 DEF Chained
<1>3. /\ r[i].kind = s[i].kind /\ r[i].func = s[i].func /\ r[e].hub = s[e].hub
      /\ r[e].must \subseteq s[e].must /\ s[e].may \subseteq r[e].may /\ e \in 1..Len(s)
  BY DEF Learnt
<1>4. Ran(r, e, i) = Ran(s, e, i) /\ Depth(r, e) = Depth(s, e)
  BY LearnChain
<1>5. ASSUME NEW f \in r[e].must PROVE f \in s[e].must /\ In(l, f) /\ Later(l, m)
  BY <1>3, MustIn
<1>6. CASE s[i].kind = "proxy"
  <2>1. s[e].hub \in Hubs
    <3>1. WellFormed(s, i) /\ Rooted(s, i)
      BY DEF Shape
    <3> QED
      BY <1>1, <1>6, <3>1 DEF WellFormed, Rooted
  <2>2. Later(l, m) /\ Len(l) \in Nat
    BY <2>1 DEF Later
  <2>3. Listed(p, s, g, i, e) /\ Leaves(p, s, i, e) /\ s[i].func \in s[e].may
    BY <1>2, <1>6 DEF InChain
  <2>4. In(l, s[i].func)
    BY <2>2, <2>3 DEF Listed, In
  <2>5. Listed(q, r, g, i, e)
    BY <1>3, <1>4, <2>2, <2>3 DEF Listed, Later
  <2>6. Leaves(q, r, i, e)
    <3>1. SUFFICES ASSUME NEW f \in r[e].must, f \notin Ran(s, e, i)
                   PROVE  Below(m, f, s[i].func)
      BY <1>3, <1>4 DEF Leaves
    <3>2. Below(l, f, s[i].func)
      BY <1>5, <2>3, <3>1 DEF Leaves
    <3> QED
      BY <1>5, <2>2, <2>4, <3>2, BelowLater
  <2>7. Descends(q, r, i, e, Len(s))
    <3>1. SUFFICES ASSUME NEW j \in i + 1..Len(s), Starts(r, j, e), r[j].kind = "proxy"
                   PROVE  Below(m, r[j].func, s[i].func)
      BY <1>3 DEF Descends
    <3>2. j \in 1..Len(s) /\ e \in 1..j
      BY <1>3
    <3>3. Starts(s, j, e) /\ s[j].kind = "proxy" /\ s[j].func = r[j].func
      BY <3>1, <3>2, LearnChain DEF Learnt
    <3>4. Below(l, s[j].func, s[i].func)
      BY <1>2, <1>6, <3>3 DEF Descends
    <3>5. In(l, s[j].func)
      <4>1. Listed(p, s, g, j, e)
        BY <3>2, <3>3 DEF Chained, InChain
      <4> QED
        BY <2>2, <4>1 DEF Listed, In
    <3> QED
      BY <2>2, <2>4, <3>3, <3>4, <3>5, BelowLater
  <2> QED
    BY <1>3, <1>6, <2>3, <2>5, <2>6, <2>7 DEF InChain
<1>7. CASE s[i].kind # "proxy"
  BY <1>2, <1>3, <1>4, <1>7 DEF InChain
<1> QED
  BY <1>6, <1>7

LEMMA CursorLearn ==
    ASSUME NEW p, NEW q, NEW s, NEW r, NEW g, NEW a, NEW c, Len(s) \in Nat,
           Shape(s, a), Known(p, s), s[Len(s)].hub \in Hubs,
           \A h \in Hubs : Later(p[h], q[h]), Learnt(s, r),
           Cursor(p[s[Len(s)].hub], s, a, c), c \in Nat
    PROVE  Cursor(q[s[Len(s)].hub], r, a, c)
<1> DEFINE n == Len(s)
           l == p[s[n].hub]
           m == q[s[n].hub]
<1>1. n \in 1..n /\ Len(r) = n /\ Later(l, m) /\ Rooted(s, n)
  BY DEF Shape, Learnt
<1>2. ASSUME NEW f \in r[n].must PROVE f \in s[n].must /\ In(l, f)
  BY <1>1, MustIn DEF Learnt
<1>3. r[n].func = s[n].func /\ s[n].may \subseteq r[n].may
  BY <1>1 DEF Learnt
<1>4. ASSUME a = "walk" PROVE c <= Len(m) /\ \A f \in r[n].must : Within(m, f, c)
  <2>1. c <= Len(l) /\ \A f \in s[n].must : Within(l, f, c)
    BY <1>4 DEF Cursor
  <2>2. c <= Len(m)
    BY <1>1, <2>1 DEF Later
  <2> QED
    BY <1>1, <1>2, <2>1, <2>2, WithinLater
<1>5. ASSUME a = "found"
      PROVE  /\ c \in 1..Len(m) /\ m[c].func \in r[n].may
             /\ \A f \in r[n].must : Within(m, f, c)
  <2>1. \A f \in r[n].must : Within(m, f, c)
    BY <1>1, <1>2, <1>5, WithinLater DEF Cursor
  <2>2. c \in 1..Len(l) /\ l[c].func \in s[n].may
    BY <1>5 DEF Cursor
  <2> QED
    BY <1>1, <1>3, <2>1, <2>2 DEF Later
<1>6. ASSUME a = "prev"
      PROVE  /\ c <= Len(m)
             /\ \A k \in 1..Len(m) : m[k].func = r[n].func => c < k
             /\ \A e \in 1..n : Starts(r, n, e) =>
                    \A f \in r[e].must : f \in Ran(r, e, n) \/ Within(m, f, c)
  <2>1. c <= Len(l) /\ \A k \in 1..Len(l) : l[k].func = s[n].func => c < k
    BY <1>6 DEF Cursor
  <2>2. c <= Len(m) /\ \A k \in 1..Len(m) : m[k].func = r[n].func => c < k
    <3>1. \A k \in 1..Len(m) : k \in 1..Len(l) \/ c < k
      BY <1>1, <2>1 DEF Later
    <3> QED
      BY <1>1, <1>3, <2>1, <3>1 DEF Later
  <2>3. ASSUME NEW e \in 1..n, Starts(r, n, e), NEW f \in r[e].must, f \notin Ran(r, e, n)
        PROVE  Within(m, f, c)
    <3>1. Starts(s, n, e) /\ f \notin Ran(s, e, n) /\ f \in s[e].must /\ s[e].hub = s[n].hub
      <4>1. Starts(s, n, e) /\ f \notin Ran(s, e, n)
        BY <1>1, <2>3, LearnChain
      <4> QED
        BY <1>1, <2>3, <4>1 DEF Rooted, Learnt
    <3>2. In(l, f) /\ Within(l, f, c)
      BY <1>6, <3>1, MustIn DEF Cursor
    <3> QED
      BY <1>1, <3>2, WithinLater
  <2> QED
    BY <2>2, <2>3
<1> QED
  BY <1>1, <1>4, <1>5, <1>6 DEF Cursor
-----------------------------------------------------------------------------
(* A step of a thread changes that thread only.                            *)
Alone(t) ==
    /\ UNCHANGED <<proxies, edits>>
    /\ \A u \in Threads \ {t} :
        calls'[u] = calls[u] /\ frames'[u] = frames[u] /\ at'[u] = at[u] /\ cur'[u] = cur[u]

LEMMA ThreadStep ==
    ASSUME Inv, NEW t \in Threads, Alone(t), TypeOK',
           ThreadInv(proxies, calls'[t], frames'[t], at'[t], cur'[t])
    PROVE  Inv'
<1>1. Lists(proxies')
  BY DEF Inv, Alone
<1>2. \A u \in Threads : ThreadInv(proxies', calls'[u], frames'[u], at'[u], cur'[u])
  BY DEF Inv, Alone
<1> QED
  BY <1>1, <1>2 DEF Inv

\* The state of thread t, with its types.
Typed(t) ==
    /\ calls[t] \in Seq(Activations) /\ Len(calls[t]) \in Nat \ {0}
    /\ \A i \in 1..Len(calls[t]) : calls[t][i] \in Activations
    /\ Top(t) = calls[t][Len(calls[t])] /\ Top(t) \in Activations
    /\ frames[t] \in Seq(Frames) /\ Len(frames[t]) \in Nat
    /\ \A i \in 1..Len(frames[t]) : frames[t][i] \in Frames
    /\ frames[t] # << >> <=> Len(frames[t]) # 0
    /\ at[t] \in Places /\ cur[t] \in Nat
    /\ \A h \in Hubs : proxies[h] \in Seq(Proxies) /\ Len(proxies[h]) \in Nat
    /\ \A h \in Hubs : \A i \in 1..Len(proxies[h]) : proxies[h][i] \in Proxies

LEMMA ThreadTypes ==
    ASSUME Inv, NEW t \in Threads
    PROVE  Typed(t) /\ ThreadInv(proxies, calls[t], frames[t], at[t], cur[t])
<1>1. ThreadInv(proxies, calls[t], frames[t], at[t], cur[t])
  BY DEF Inv
<1>2. /\ calls[t] \in Seq(Activations) /\ frames[t] \in Seq(Frames)
      /\ at[t] \in Places /\ cur[t] \in Nat
      /\ \A h \in Hubs : proxies[h] \in Seq(Proxies)
  BY DEF Inv, TypeOK, Activations, Frames, Places, Proxies
<1>3. Len(calls[t]) \in Nat \ {0}
  BY <1>1, <1>2 DEF ThreadInv, Shape
<1>4. Top(t) = calls[t][Len(calls[t])]
  BY DEF Top, Last
<1> QED
  BY <1>1, <1>2, <1>3, <1>4 DEF Typed

\* The top of stack s is set to x.
Replaced(s, r, x) ==
    Len(r) = Len(s) /\ r[Len(s)] = x /\ \A i \in 1..Len(s) - 1 : r[i] = s[i]

LEMMA StackPush ==
    ASSUME NEW S, NEW s \in Seq(S), NEW x \in S
    PROVE  /\ Append(s, x) \in Seq(S) /\ Grown(s, Append(s, x))
           /\ Append(s, x)[Len(s) + 1] = x
BY DEF Grown

LEMMA StackPop ==
    ASSUME NEW S, NEW s \in Seq(S), s # << >>
    PROVE  /\ Front(s) \in Seq(S) /\ Grown(Front(s), s) /\ Len(Front(s)) \in Nat
           /\ Len(s) \in Nat \ {0}
<1>1. Len(s) \in Nat \ {0} /\ \A i \in 1..Len(s) : s[i] \in S
  OBVIOUS
<1>2. Front(s) = [i \in 1..Len(s) - 1 |-> s[i]]
  BY <1>1 DEF Front
<1>3. /\ [i \in 1..Len(s) - 1 |-> s[i]] \in Seq(S)
      /\ Len([i \in 1..Len(s) - 1 |-> s[i]]) = Len(s) - 1
  BY <1>1
<1>4. Len(s) - 1 \in Nat /\ Len(Front(s)) = Len(s) - 1
  BY <1>1, <1>2, <1>3
<1>5. \A i \in 1..Len(s) - 1 : Front(s)[i] = s[i]
  BY <1>2
<1> QED
  BY <1>1, <1>2, <1>3, <1>4, <1>5 DEF Grown

LEMMA StackTop ==
    ASSUME NEW S, NEW s \in Seq(S), s # << >>, NEW x \in S
    PROVE  /\ Append(Front(s), x) \in Seq(S) /\ Replaced(s, Append(Front(s), x), x)
<1>1. Front(s) \in Seq(S) /\ Len(Front(s)) = Len(s) - 1 /\ Len(s) \in Nat \ {0}
      /\ \A i \in 1..Len(s) - 1 : Front(s)[i] = s[i]
  BY StackPop DEF Grown
<1>2. PICK f \in Seq(S) : f = Front(s)
  BY <1>1
<1> QED
  BY <1>1, <1>2 DEF Replaced

LEMMA KnownKeeps ==
    ASSUME NEW p, NEW s, NEW r, Known(p, s),
           \A e \in 1..Len(r) : r[e].first /\ r[e].hub \in Hubs =>
              /\ e \in 1..Len(s) /\ s[e].first /\ s[e].hub = r[e].hub
              /\ r[e].must \subseteq s[e].must /\ s[e].may \subseteq r[e].may
    PROVE  Known(p, r)
<1>1. SUFFICES ASSUME NEW e \in 1..Len(r), r[e].first, r[e].hub \in Hubs
               PROVE  KnownBy(p[r[e].hub], r[e])
  BY DEF Known
<1>2. /\ e \in 1..Len(s) /\ s[e].first /\ s[e].hub = r[e].hub
      /\ r[e].must \subseteq s[e].must /\ s[e].may \subseteq r[e].may
  BY <1>1
<1>3. KnownBy(p[r[e].hub], s[e])
  BY <1>1, <1>2 DEF Known
<1> QED
  BY <1>2, <1>3 DEF KnownBy

(* What is enabled.                                                        *)
LEMMA EnabledFacts ==
    ASSUME NEW h
    PROVE  \A f : f \in Enabled(h) <=> \E k \in DOMAIN proxies[h] :
                        proxies[h][k].enabled /\ proxies[h][k].func = f
BY DEF Enabled, ToSet
-----------------------------------------------------------------------------
LEMMA InitInv == Init => Inv
<1> SUFFICES ASSUME Init PROVE Inv
  OBVIOUS
<1>1. TypeOK
  <2>1. App \in Activations
    BY DEF App, Activations, Sites
  <2>2. <<App>> \in Seq(Activations)
    BY <2>1
  <2> QED
    BY <2>2 DEF Init, TypeOK, Activations
<1>2. Lists(proxies)
  BY DEF Init, Lists
<1>3. ASSUME NEW t \in Threads
      PROVE  ThreadInv(proxies, calls[t], frames[t], at[t], cur[t])
  <2>1. PICK s : s = <<App>>
    OBVIOUS
  <2>2. calls[t] = s /\ frames[t] = << >> /\ at[t] = "run" /\ Len(s) = 1 /\ s[1] = App
    BY <2>1 DEF Init
  <2>3. Starts(s, 1, 1) /\ \A e \in 1..1 : e = 1
    BY <2>2 DEF Starts, App
  <2>4. Shape(s, "run")
    <3>1. WellFormed(s, 1)
      BY <2>2 DEF WellFormed, App
    <3>2. Rooted(s, 1)
      BY <2>2, <2>3 DEF Rooted, App
    <3>3. s[1].kind = "app"
      BY <2>2 DEF App
    <3> QED
      BY <2>2, <3>1, <3>2, <3>3 DEF Shape
  <2>5. Framed(s, << >>)
    <3>1. Marked(s) = {}
      BY <2>2 DEF Marked, App
    <3>2. {k \in Marked(s) : k <= 1} = {}
      BY <3>1
    <3> QED
      BY <2>2, <3>1, <3>2, FS_EmptySet DEF Framed, Depth
  <2>6. Known(proxies, s)
    BY <2>2 DEF Known, App
  <2>7. Chained(proxies, s, << >>)
    BY <2>2 DEF Chained, InChain, App
  <2>8. Cursor(proxies[s[Len(s)].hub], s, "run", cur[t])
    BY DEF Cursor
  <2>9. Allowed(s, << >>, "run")
    BY DEF Allowed
  <2> QED
    BY <2>2, <2>4, <2>5, <2>6, <2>7, <2>8, <2>9 DEF ThreadInv
<1> QED
  BY <1>1, <1>2, <1>3 DEF Inv

LEMMA StutterInv == ASSUME Inv, UNCHANGED vars PROVE Inv'
BY DEF Inv, TypeOK, vars

(* A hooked function is called.                                            *)
LEMMA CallInv ==
    ASSUME Inv, NEW t \in Threads, NEW h \in Hubs, Call(t, h)
    PROVE  Inv'
<1> DEFINE s == calls[t]
           r == calls'[t]
           n == Len(s)
           x == [kind |-> "trampo", hub |-> h, func |-> NoFunc,
                 ra |-> <<Code(Top(t)), h>>, first |-> TRUE,
                 must |-> Enabled(h), may |-> Enabled(h)]
<1>1. Typed(t) /\ ThreadInv(proxies, s, frames[t], at[t], cur[t])
  BY ThreadTypes
<1>2. /\ calls' = [calls EXCEPT ![t] = Append(s, x)] /\ r = Append(s, x)
      /\ at' = [at EXCEPT ![t] = "push"] /\ at'[t] = "push" /\ at[t] = "run"
      /\ UNCHANGED <<proxies, frames, cur, edits>>
  BY DEF Call, Push, Become, Inv, TypeOK
<1>3. x \in Activations /\ x.ra[2] # "prev"
  <2>1. WellFormed(s, n) /\ s[n].kind # "trampo" /\ Top(t) = s[n] /\ s[n] \in Activations
    BY <1>1, <1>2 DEF Typed, ThreadInv, Shape
  <2>2. Code(Top(t)) \in Hubs \union Funcs \union {"app"}
    BY <2>1 DEF WellFormed, Code, Activations
  <2>3. Enabled(h) \subseteq Funcs
    BY <1>1, EnabledFacts DEF Typed, Proxies
  <2> QED
    BY <2>2, <2>3 DEF Activations, Sites
<1>4. r \in Seq(Activations) /\ Grown(s, r) /\ r[n + 1] = x /\ Len(r) = n + 1 /\ n \in Nat \ {0}
  BY <1>1, <1>2, <1>3, StackPush DEF Typed, Grown
<1>5. Alone(t)
  BY <1>2 DEF Alone, Inv, TypeOK
<1>6. TypeOK'
  BY <1>2, <1>4 DEF Inv, TypeOK, Activations
<1>7. Shape(r, "push")
  <2>1. WellFormed(r, n + 1)
    BY <1>3, <1>4 DEF WellFormed
  <2>2. Shape(s, "run") /\ n \in Nat /\ r[Len(r)].kind = "trampo" /\ WellFormed(r, Len(r))
    BY <1>1, <1>2, <1>4, <2>1 DEF ThreadInv
  <2> QED
    BY <1>4, <2>2, ShapePush
<1>8. Framed(r, frames[t])
  <2>1. Marked(r) = Marked(s)
    BY <1>4 DEF Marked, Grown
  <2>2. \A i \in Marked(s) : r[i] = s[i]
    BY <1>4 DEF Marked, Grown
  <2> QED
    BY <1>1, <1>4, <2>1, <2>2, FramedSame DEF ThreadInv
<1>9. Known(proxies, r)
  <2>1. DOMAIN proxies[h] = 1..Len(proxies[h])
    BY <1>1 DEF Typed
  <2>2. KnownBy(proxies[h], x)
    BY <2>1, EnabledFacts DEF KnownBy
  <2>3. \A e \in 1..Len(r) : e = n + 1 \/ (e \in 1..n /\ r[e] = s[e])
    BY <1>4 DEF Grown
  <2>4. x.hub = h /\ Known(proxies, s)
    BY <1>1 DEF ThreadInv
  <2> HIDE DEF x
  <2> QED
    BY <1>4, <2>2, <2>3, <2>4 DEF Known
<1>10. Chained(proxies, r, frames[t])
  <2>1. Shares(proxies, s, r, frames[t], frames[t], at[t], n)
    BY <1>1, <1>4 DEF ThreadInv, Shares, Grown
  <2>2. InChain(proxies, r, frames[t], n + 1, n + 1) /\ r[n + 1].first
    BY <1>4 DEF InChain
  <2> QED
    BY <1>4, <2>1, <2>2, ChainedTop
<1>11. Cursor(proxies[r[Len(r)].hub], r, "push", cur[t])
  BY DEF Cursor
<1>12. Allowed(r, frames[t], "push")
  BY <1>1 DEF ThreadInv, Allowed
<1>13. ThreadInv(proxies, r, frames'[t], at'[t], cur'[t])
  BY <1>2, <1>7, <1>8, <1>9, <1>10, <1>11, <1>12 DEF ThreadInv
<1> QED
  BY <1>5, <1>6, <1>13, ThreadStep

(* A step of a walk: what the thread executes and its cursor change.       *)
LEMMA WalkInv ==
    ASSUME Inv, NEW t \in Threads, NEW b \in Places, NEW c \in Nat,
           at' = [at EXCEPT ![t] = b], cur' = [cur EXCEPT ![t] = c],
           UNCHANGED <<proxies, frames, calls, edits>>,
           Shape(calls[t], b), Allowed(calls[t], frames[t], b),
           Top(t).hub \in Hubs => Cursor(proxies[Top(t).hub], calls[t], b, c)
    PROVE  Inv'
<1>1. /\ Typed(t) /\ ThreadInv(proxies, calls[t], frames[t], at[t], cur[t])
      /\ at'[t] = b /\ cur'[t] = c
  BY ThreadTypes DEF Inv, TypeOK
<1>2. Alone(t) /\ TypeOK'
  BY DEF Alone, Inv, TypeOK, Places
<1>3. ThreadInv(proxies, calls'[t], frames'[t], at'[t], cur'[t])
  BY <1>1 DEF ThreadInv, Typed
<1> QED
  BY <1>2, <1>3, ThreadStep

(* The trampoline jumps to the original function, before any proxy.        *)
LEMMA RunOrigInv ==
    ASSUME Inv, NEW t \in Threads, RunOrig(t, {}), at[t] \in {"push", "walk"},
           UNCHANGED <<proxies, frames, edits>>
    PROVE  Inv'
<1> DEFINE s == calls[t]
           r == calls'[t]
           n == Len(s)
           x == [Top(t) EXCEPT !.kind = "orig", !.must = {}]
<1>1. Typed(t) /\ ThreadInv(proxies, s, frames[t], at[t], cur[t])
  BY ThreadTypes
<1>2. n \in Nat \ {0} /\ s \in Seq(Activations) /\ s # << >> /\ Top(t) = s[n] /\ s[n] \in Activations
  BY <1>1 DEF Typed
<1>3. /\ x \in Activations /\ x.kind = "orig" /\ x.must = {} /\ x.hub = s[n].hub
      /\ x.func = s[n].func /\ x.ra = s[n].ra /\ x.first = s[n].first /\ x.may = s[n].may
  BY <1>2 DEF Activations
<1>4. /\ calls' = [calls EXCEPT ![t] = Append(Front(s), x)] /\ r = Append(Front(s), x)
      /\ at' = [at EXCEPT ![t] = "run"] /\ at'[t] = "run"
      /\ cur' = [cur EXCEPT ![t] = 0]
      /\ UNCHANGED <<proxies, frames, edits>>
  BY DEF RunOrig, SetTop, Become, Inv, TypeOK
<1> HIDE DEF x
<1>5. r \in Seq(Activations) /\ Len(r) = n /\ r[n] = x /\ \A i \in 1..n - 1 : r[i] = s[i]
  BY <1>2, <1>3, <1>4, StackTop DEF Replaced
<1>6. s[n].kind = "trampo" /\ s[n].first /\ s[n].func = NoFunc
  <2>1. WellFormed(s, n) /\ s[n].kind = "trampo"
    BY <1>1, <1>2 DEF ThreadInv, Shape
  <2> QED
    BY <2>1 DEF WellFormed
<1>7. Alone(t)
  BY <1>4 DEF Alone, Inv, TypeOK
<1>8. TypeOK'
  BY <1>4, <1>5 DEF Inv, TypeOK, Activations
<1>9. Shape(r, "run")
  BY <1>1, <1>2, <1>3, <1>5, <1>6, ShapeTop DEF ThreadInv
<1>10. Framed(r, frames[t])
  <2>1. Marked(r) = Marked(s) /\ n \notin Marked(s)
    BY <1>2, <1>3, <1>5, <1>6 DEF Marked
  <2>2. \A i \in Marked(s) : r[i] = s[i]
    BY <1>2, <1>5, <2>1 DEF Marked
  <2> QED
    BY <1>1, <1>2, <1>5, <2>1, <2>2, FramedSame DEF ThreadInv
<1>11. Known(proxies, r)
  <2>1. \A e \in 1..Len(r) : e = n \/ (e \in 1..n /\ r[e] = s[e])
    BY <1>2, <1>5
  <2>2. \A e \in 1..Len(r) : r[e].first /\ r[e].hub \in Hubs =>
              /\ e \in 1..Len(s) /\ s[e].first /\ s[e].hub = r[e].hub
              /\ r[e].must \subseteq s[e].must /\ s[e].may \subseteq r[e].may
    BY <1>2, <1>3, <1>5, <1>6, <2>1
  <2> QED
    BY <1>1, <2>2, KnownKeeps DEF ThreadInv
<1>12. Chained(proxies, r, frames[t])
  <2>1. Shares(proxies, s, r, frames[t], frames[t], at[t], n - 1)
    BY <1>1, <1>2, <1>5 DEF ThreadInv, Shares
  <2>2. Len(r) = n - 1 + 1 /\ n = n - 1 + 1 /\ r[n].first
    <3>1. Len(r) = n /\ n = n - 1 + 1
      BY <1>2, <1>5
    <3> QED
      BY <1>3, <1>5, <1>6, <3>1
  <2>3. InChain(proxies, r, frames[t], n, n)
    BY <1>3, <1>5 DEF InChain
  <2> QED
    BY <2>1, <2>2, <2>3, ChainedTop
<1>13. Cursor(proxies[r[Len(r)].hub], r, "run", cur'[t])
  BY DEF Cursor
<1>14. Allowed(r, frames[t], "run")
  BY <1>1 DEF ThreadInv, Allowed
<1>15. ThreadInv(proxies, r, frames'[t], at'[t], cur'[t])
  BY <1>4, <1>9, <1>10, <1>11, <1>12, <1>13, <1>14 DEF ThreadInv
<1> QED
  BY <1>7, <1>8, <1>15, ThreadStep

(* The walk of sh_hub_push_stack for the newest enabled proxy.             *)
LEMMA TrampoTop ==
    ASSUME Inv, NEW t \in Threads, at[t] \in {"push", "walk", "found"}
    PROVE  /\ Top(t).hub \in Hubs /\ Top(t).kind = "trampo" /\ Top(t).first
           /\ \A b \in {"push", "walk", "found"} : Shape(calls[t], b)
           /\ Cursor(proxies[Top(t).hub], calls[t], at[t], cur[t])
           /\ KnownBy(proxies[Top(t).hub], Top(t))
<1> DEFINE s == calls[t]
           n == Len(s)
<1>1. /\ Typed(t) /\ ThreadInv(proxies, s, frames[t], at[t], cur[t])
      /\ n \in 1..n /\ Top(t) = s[n]
  BY ThreadTypes DEF Typed
<1>2. WellFormed(s, n) /\ s[n].kind = "trampo"
  BY <1>1 DEF ThreadInv, Shape
<1>3. s[n].hub \in Hubs /\ s[n].first
  BY <1>2 DEF WellFormed
<1>4. \A b \in {"push", "walk", "found"} : Shape(s, b)
  BY <1>1, <1>2 DEF ThreadInv, Shape
<1>5. KnownBy(proxies[s[n].hub], s[n])
  BY <1>1, <1>3 DEF ThreadInv, Known
<1> QED
  BY <1>1, <1>2, <1>3, <1>4, <1>5 DEF ThreadInv

LEMMA PushStartInv == ASSUME Inv, NEW t \in Threads, PushStart(t) PROVE Inv'
<1> DEFINE s == calls[t]
           l == proxies[Top(t).hub]
<1>1. /\ Typed(t) /\ ThreadInv(proxies, s, frames[t], at[t], cur[t])
      /\ Top(t).hub \in Hubs /\ Shape(s, "walk") /\ KnownBy(l, Top(t)) /\ at[t] = "push"
  BY ThreadTypes, TrampoTop DEF PushStart
<1>2. CASE Recursive(t)
  BY <1>1, <1>2, RunOrigInv DEF PushStart
<1>3. CASE ~Recursive(t)
  <2>1. /\ at' = [at EXCEPT ![t] = "walk"] /\ cur' = [cur EXCEPT ![t] = Len(l)]
        /\ UNCHANGED <<proxies, frames, calls, edits>>
    BY <1>3 DEF PushStart, Become
  <2>2. Len(l) \in Nat /\ Top(t) = s[Len(s)]
    BY <1>1 DEF Typed
  <2>3. Cursor(l, s, "walk", Len(l))
    BY <1>1, <2>2 DEF Cursor, Within
  <2>4. Allowed(s, frames[t], "walk")
    <3>1. \A i \in 1..Len(frames[t]) : frames[t][i].hub = s[Len(s)].hub => frames[t][i].reentrant
      BY <1>3, <2>2 DEF Recursive
    <3> QED
      BY <1>1, <3>1 DEF ThreadInv, Allowed
  <2>5. "walk" \in Places
    BY DEF Places
  <2> QED
    BY <1>1, <2>1, <2>2, <2>3, <2>4, <2>5, WalkInv
<1> QED
  BY <1>2, <1>3

LEMMA PushSkipInv == ASSUME Inv, NEW t \in Threads, PushSkip(t) PROVE Inv'
<1> DEFINE s == calls[t]
           l == proxies[Top(t).hub]
           c == cur[t]
<1>1. /\ Typed(t) /\ ThreadInv(proxies, s, frames[t], at[t], c)
      /\ Top(t).hub \in Hubs /\ Shape(s, "walk") /\ KnownBy(l, Top(t)) /\ Cursor(l, s, at[t], c)
      /\ at[t] = "walk" /\ c \in Nat \ {0} /\ ~l[c].enabled /\ Len(l) \in Nat
      /\ Top(t) = s[Len(s)]
  BY ThreadTypes, TrampoTop DEF PushSkip, Typed
<1>2. at' = [at EXCEPT ![t] = "walk"] /\ cur' = [cur EXCEPT ![t] = c - 1]
  BY <1>1 DEF PushSkip, Inv, TypeOK
<1>3. ASSUME NEW f \in Top(t).must PROVE Within(l, f, c - 1)
  <2>1. Within(l, f, c)
    BY <1>1 DEF Cursor
  <2>2. PICK k \in 1..Len(l) : l[k].enabled /\ l[k].func = f
    BY <1>1 DEF KnownBy
  <2>3. \A j \in 1..Len(l) : l[j].func = f => j = k
    BY <1>1, <2>2 DEF Inv, Lists
  <2>4. \A j \in 1..Len(l) : l[j].func = f => j <= c - 1
    <3>1. k <= c /\ k # c
      BY <1>1, <2>1, <2>2 DEF Within
    <3>2. c \in Nat /\ k \in Nat
      BY <1>1
    <3>3. k <= c - 1
      BY <3>1, <3>2
    <3> QED
      BY <2>3, <3>3
  <2> QED
    BY <2>4 DEF Within
<1>4. Cursor(l, s, "walk", c - 1)
  BY <1>1, <1>3 DEF Cursor
<1>5. Allowed(s, frames[t], "walk") /\ "walk" \in Places /\ c - 1 \in Nat
  BY <1>1 DEF ThreadInv, Allowed, Places
<1>6. UNCHANGED <<proxies, frames, calls, edits>>
  BY DEF PushSkip
<1> QED
  BY <1>1, <1>2, <1>4, <1>5, <1>6, WalkInv

LEMMA PushFoundInv == ASSUME Inv, NEW t \in Threads, PushFound(t) PROVE Inv'
<1> DEFINE s == calls[t]
           l == proxies[Top(t).hub]
           c == cur[t]
<1>1. /\ Typed(t) /\ ThreadInv(proxies, s, frames[t], at[t], c)
      /\ Top(t).hub \in Hubs /\ Shape(s, "found") /\ KnownBy(l, Top(t)) /\ Cursor(l, s, at[t], c)
      /\ at[t] = "walk" /\ c \in Nat \ {0} /\ l[c].enabled /\ Len(l) \in Nat
      /\ Top(t) = s[Len(s)] /\ Len(frames[t]) \in Nat
  BY ThreadTypes, TrampoTop DEF PushFound, Typed
<1>2. CASE Len(frames[t]) >= MaxFrames
  BY <1>1, <1>2, RunOrigInv DEF PushFound
<1>3. CASE Len(frames[t]) < MaxFrames
  <2>1. /\ at' = [at EXCEPT ![t] = "found"] /\ cur' = [cur EXCEPT ![t] = c]
        /\ UNCHANGED <<proxies, frames, calls, edits>>
    BY <1>1, <1>3 DEF PushFound, Become, Inv, TypeOK
  <2>2. c <= Len(l) /\ \A f \in s[Len(s)].must : Within(l, f, c)
    BY <1>1 DEF Cursor
  <2>3. c \in 1..Len(l) /\ l[c].enabled
    BY <1>1, <2>2
  <2>4. Cursor(l, s, "found", c)
    <3>1. PICK w, v, b : w = l /\ v = s /\ b = c
      OBVIOUS
    <3>2. /\ KnownBy(w, v[Len(v)]) /\ b \in 1..Len(w) /\ w[b].enabled
          /\ \A f \in v[Len(v)].must : Within(w, f, b)
      BY <1>1, <2>2, <2>3, <3>1
    <3>3. w[b].func \in v[Len(v)].may
      BY <3>2 DEF KnownBy
    <3>4. Cursor(w, v, "found", b)
      BY <3>2, <3>3 DEF Cursor
    <3> QED
      BY <3>1, <3>4
  <2>5. Allowed(s, frames[t], "found") /\ "found" \in Places
    BY <1>1, <1>3 DEF ThreadInv, Allowed, Places
  <2> QED
    BY <1>1, <2>1, <2>4, <2>5, WalkInv
<1> QED
  BY <1>1, <1>2, <1>3

LEMMA PushNoneInv == ASSUME Inv, NEW t \in Threads, PushNone(t) PROVE Inv'
<1> DEFINE s == calls[t]
           l == proxies[Top(t).hub]
<1>1. /\ Typed(t) /\ KnownBy(l, Top(t)) /\ Cursor(l, s, at[t], cur[t])
      /\ at[t] = "walk" /\ cur[t] = 0 /\ Top(t) = s[Len(s)] /\ Top(t).hub \in Hubs
  BY ThreadTypes, TrampoTop DEF PushNone, Typed
<1>2. ASSUME NEW f \in Top(t).must PROVE FALSE
  <2>1. Within(l, f, 0)
    BY <1>1, <1>2 DEF Cursor
  <2>2. PICK k \in 1..Len(l) : l[k].func = f
    BY <1>1, <1>2 DEF KnownBy
  <2> QED
    BY <1>1, <2>1, <2>2 DEF Within, Typed
<1>3. Top(t).must = {}
  BY <1>2
<1>4. RunOrig(t, {})
  BY <1>3 DEF PushNone
<1>5. UNCHANGED <<proxies, frames, edits>>
  BY DEF PushNone
<1> QED
  BY <1>1, <1>4, <1>5, RunOrigInv

(* The first proxy of a chain runs, and its frame is pushed.               *)
LEMMA PushFrameInv == ASSUME Inv, NEW t \in Threads, PushFrame(t) PROVE Inv'
<1> DEFINE s == calls[t]
           r == calls'[t]
           g == frames[t]
           d == frames'[t]
           n == Len(s)
           h == Top(t).hub
           l == proxies[h]
           c == cur[t]
           x == [Top(t) EXCEPT !.kind = "proxy", !.func = l[c].func]
           y == [hub |-> h, head |-> Len(l), ra |-> Top(t).ra, reentrant |-> FALSE]
<1>1. /\ Typed(t) /\ ThreadInv(proxies, s, g, at[t], c) /\ at[t] = "found"
      /\ h \in Hubs /\ Top(t).kind = "trampo" /\ Top(t).first /\ Shape(s, "found")
      /\ Cursor(l, s, "found", c) /\ KnownBy(l, Top(t))
  BY ThreadTypes, TrampoTop DEF PushFrame
<1>2. /\ n \in Nat \ {0} /\ s \in Seq(Activations) /\ s # << >> /\ Top(t) = s[n]
      /\ s[n] \in Activations /\ g \in Seq(Frames) /\ Len(g) \in Nat /\ Len(l) \in Nat
      /\ \A k \in 1..Len(l) : l[k] \in Proxies
  BY <1>1 DEF Typed
<1>3. /\ c \in 1..Len(l) /\ l[c].func \in s[n].may /\ l[c].func \in Funcs
      /\ \A f \in s[n].must : Within(l, f, c)
  BY <1>1, <1>2 DEF Cursor, Proxies
<1>4. /\ x \in Activations /\ x.kind = "proxy" /\ x.must = s[n].must /\ x.hub = h
      /\ x.func = l[c].func /\ x.ra = s[n].ra /\ x.first /\ x.may = s[n].may /\ x.func # NoFunc
  BY <1>1, <1>2, <1>3 DEF Activations
<1>5. y \in Frames /\ y.hub = h /\ y.ra = s[n].ra /\ y.head = Len(l) /\ ~y.reentrant
  BY <1>1, <1>2 DEF Frames, Activations
<1>6. /\ calls' = [calls EXCEPT ![t] = Append(Front(s), x)] /\ r = Append(Front(s), x)
      /\ frames' = [frames EXCEPT ![t] = Append(g, y)] /\ d = Append(g, y)
      /\ at' = [at EXCEPT ![t] = "run"] /\ at'[t] = "run"
      /\ cur' = [cur EXCEPT ![t] = 0]
      /\ UNCHANGED <<proxies, edits>>
  BY DEF PushFrame, SetTop, Become, Inv, TypeOK
<1> HIDE DEF x, y
<1>7. r \in Seq(Activations) /\ Len(r) = n /\ r[n] = x /\ \A i \in 1..n - 1 : r[i] = s[i]
  <2>1. Append(Front(s), x) \in Seq(Activations) /\ Replaced(s, Append(Front(s), x), x)
    BY <1>2, <1>4, StackTop
  <2> QED
    BY <1>6, <2>1 DEF Replaced
<1>8. d \in Seq(Frames) /\ Grown(g, d) /\ d[Len(g) + 1] = y /\ Len(d) = Len(g) + 1
  BY <1>2, <1>5, <1>6, StackPush DEF Grown
<1>9. Alone(t)
  BY <1>6 DEF Alone, Inv, TypeOK
<1>10. TypeOK'
  BY <1>6, <1>7, <1>8 DEF Inv, TypeOK, Activations, Frames
<1>11. Shape(r, "run")
  BY <1>1, <1>2, <1>4, <1>7, ShapeTop
<1>12. Framed(r, d)
  <2>a. s[n].kind = "trampo"
    BY <1>1, <1>2
  <2>b. r[n].kind = "proxy" /\ r[n].first
    BY <1>4, <1>7
  <2>c. n \in 1..Len(r)
    BY <1>2, <1>7
  <2>0. s[n].kind = "trampo" /\ r[n].kind = "proxy" /\ r[n].first /\ n \in 1..Len(r)
    BY <2>a, <2>b, <2>c
  <2>1. n \notin Marked(s) /\ n \in Marked(r)
    BY <2>0 DEF Marked
  <2>2. d[Len(d)].hub = r[n].hub /\ d[Len(d)].ra = r[n].ra
    BY <1>4, <1>5, <1>7, <1>8
  <2>3. Framed(s, g)
    BY <1>1 DEF ThreadInv
  <2> QED
    BY <1>2, <1>7, <1>8, <2>1, <2>2, <2>3, FramedEnter
<1>13. Known(proxies, r)
  <2>1. \A e \in 1..Len(r) : e = n \/ (e \in 1..n /\ r[e] = s[e])
    BY <1>2, <1>7
  <2>2. \A e \in 1..Len(r) : r[e].first /\ r[e].hub \in Hubs =>
              /\ e \in 1..Len(s) /\ s[e].first /\ s[e].hub = r[e].hub
              /\ r[e].must \subseteq s[e].must /\ s[e].may \subseteq r[e].may
    BY <1>1, <1>2, <1>4, <1>7, <2>1
  <2> QED
    BY <1>1, <2>2, KnownKeeps DEF ThreadInv
<1>14. Chained(proxies, r, d)
  <2>1. n - 1 \in 0..n /\ n = n - 1 + 1 /\ Framed(s, g) /\ Chained(proxies, s, g)
    BY <1>1, <1>2 DEF ThreadInv
  <2>2. \A k \in 1..Depth(s, n - 1) : d[k].head = g[k].head
    <3>0. Len(s) \in Nat /\ n \in 0..Len(s) /\ n - 1 \in 0..Len(s) /\ n \in n - 1..Len(s)
      BY <1>2
    <3>1. Depth(s, n - 1) <= Depth(s, n) /\ Depth(s, n) \in Nat /\ Depth(s, n - 1) \in Nat
      BY <3>0, DepthGrows, DepthCounts
    <3>2. Len(g) = Depth(s, n)
      BY <2>1 DEF Framed
    <3>3. \A k \in 1..Depth(s, n - 1) : k \in 1..Len(g)
      BY <3>1, <3>2
    <3>4. \A k \in 1..Len(g) : d[k] = g[k]
      BY <1>8 DEF Grown
    <3> QED
      BY <3>3, <3>4
  <2>3. Shares(proxies, s, r, g, d, "found", n - 1)
    BY <1>1, <1>2, <1>7, <2>1, <2>2 DEF Shares
  <2>4. Depth(r, n) = Len(d)
    BY <1>7, <1>12 DEF Framed
  <2>5. Listed(proxies, r, d, n, n)
    <3>1. d[Depth(r, n)].head = Len(l) /\ proxies[r[n].hub] = l /\ r[n].func = l[c].func
      BY <1>4, <1>5, <1>7, <1>8, <2>4
    <3> HIDE DEF l, r, d, n, c
    <3> QED
      BY <1>2, <1>3, <3>1 DEF Listed
  <2>6. \A i, j \in 1..Len(l) : l[i].func = l[j].func => i = j
    BY <1>1 DEF Inv, Lists
  <2>7. ASSUME NEW f \in s[n].must, f # l[c].func PROVE Below(l, f, l[c].func)
    <3>1. Within(l, f, c)
      BY <1>3
    <3>2. ASSUME NEW i \in 1..Len(l), NEW j \in 1..Len(l), l[i].func = f, l[j].func = l[c].func
          PROVE  i < j
      <4>1. j = c /\ i <= c /\ i # c
        BY <1>3, <2>6, <2>7, <3>1, <3>2 DEF Within
      <4> QED
        BY <4>1
    <3> QED
      BY <3>2 DEF Below
  <2>8. Leaves(proxies, r, n, n)
    <3>0. n..n = {n} /\ r[n].func = l[c].func
      BY <1>2, <1>4, <1>7
    <3>1. Ran(r, n, n) = {l[c].func}
      BY <3>0 DEF Ran
    <3> QED
      BY <1>4, <1>7, <2>7, <3>1 DEF Leaves
  <2>9. InChain(proxies, r, d, n, n) /\ r[n].first
    BY <1>3, <1>4, <1>7, <2>5, <2>8 DEF InChain
  <2> QED
    BY <1>7, <2>1, <2>3, <2>9, ChainedTop
<1>15. Cursor(proxies[r[Len(r)].hub], r, "run", cur'[t])
  BY DEF Cursor
<1>16. Allowed(r, d, "run")
  <2>1. /\ Allowed(s, g, "found")
        /\ \A i \in 1..Len(d) : i = Len(g) + 1 \/ (i \in 1..Len(g) /\ d[i] = g[i])
    BY <1>1, <1>2, <1>8 DEF ThreadInv, Grown
  <2>2. Len(d) <= MaxFrames
    BY <1>2, <1>8, <2>1 DEF Allowed
  <2>3. ASSUME NEW i \in 1..Len(d), NEW j \in 1..Len(d), i < j, d[i].hub = d[j].hub
        PROVE  d[i].reentrant
    <3>1. i \in 1..Len(g) /\ d[i] = g[i]
      BY <1>2, <1>8, <2>1, <2>3
    <3>2. CASE j \in 1..Len(g) /\ d[j] = g[j]
      BY <2>1, <2>3, <3>1, <3>2 DEF Allowed
    <3>3. CASE j = Len(g) + 1
      BY <1>2, <1>5, <1>8, <2>1, <2>3, <3>1, <3>3 DEF Allowed
    <3> QED
      BY <2>1, <3>2, <3>3
  <2> QED
    BY <2>2, <2>3 DEF Allowed
<1>17. ThreadInv(proxies, r, d, at'[t], cur'[t])
  BY <1>6, <1>11, <1>12, <1>13, <1>14, <1>15, <1>16 DEF ThreadInv
<1> QED
  BY <1>9, <1>10, <1>17, ThreadStep
-----------------------------------------------------------------------------
(* The proxy on top of the stack, its chain and the frame of the chain.    *)
LEMMA ProxyTop ==
    ASSUME Inv, NEW t \in Threads, Top(t).kind = "proxy"
    PROVE  \E e \in 1..Len(calls[t]) :
             /\ Starts(calls[t], Len(calls[t]), e) /\ e \in Marked(calls[t])
             /\ calls[t][e].hub = Top(t).hub /\ Top(t).hub \in Hubs
             /\ KnownBy(proxies[Top(t).hub], calls[t][e])
             /\ InChain(proxies, calls[t], frames[t], Len(calls[t]), e)
             /\ Depth(calls[t], e) = Len(frames[t]) /\ Len(frames[t]) \in Nat \ {0}
             /\ frames[t] # << >>
             /\ Frame(t) = frames[t][Len(frames[t])] /\ Frame(t).hub = Top(t).hub
             /\ Frame(t).ra = calls[t][e].ra
<1> DEFINE s == calls[t]
           n == Len(s)
<1>1. /\ Typed(t) /\ ThreadInv(proxies, s, frames[t], at[t], cur[t])
      /\ n \in 1..n /\ n \in Nat /\ Top(t) = s[n]
  BY ThreadTypes DEF Typed
<1>2. Rooted(s, n) /\ WellFormed(s, n)
  BY <1>1 DEF ThreadInv, Shape
<1>3. PICK e \in 1..n : Starts(s, n, e)
  BY <1>2 DEF Rooted
<1>4. s[e].kind = "proxy" /\ s[e].first /\ s[n].hub \in Hubs
  BY <1>1, <1>2, <1>3 DEF Rooted, WellFormed, Starts
<1>5. /\ e \in Marked(s) /\ Len(frames[t]) \in Nat \ {0} /\ Depth(s, e) = Len(frames[t])
      /\ frames[t][Len(frames[t])].hub = s[n].hub /\ s[e].hub = s[n].hub
      /\ frames[t][Len(frames[t])].ra = s[e].ra
  <2>1. /\ Len(s) \in Nat /\ Shape(s, at[t]) /\ Framed(s, frames[t])
        /\ Starts(s, Len(s), e) /\ s[e].kind = "proxy"
    BY <1>1, <1>3, <1>4 DEF ThreadInv
  <2>2. /\ e \in Marked(s) /\ Len(frames[t]) \in Nat \ {0} /\ Depth(s, e) = Len(frames[t])
        /\ frames[t][Len(frames[t])].hub = s[Len(s)].hub
        /\ frames[t][Len(frames[t])].hub = s[e].hub
        /\ frames[t][Len(frames[t])].ra = s[e].ra
    <3>1. PICK w : w = s
      OBVIOUS
    <3>2. PICK g : g = frames[t]
      OBVIOUS
    <3>3. PICK a : /\ Len(w) \in Nat /\ Shape(w, a) /\ Framed(w, g)
                   /\ Starts(w, Len(w), e) /\ w[e].kind = "proxy"
      BY <2>1, <3>1, <3>2
    <3>4. Topmost(w, g, e)
      BY <3>3, TopFrame
    <3>5. /\ e \in Marked(w) /\ Len(g) \in Nat \ {0} /\ Depth(w, e) = Len(g)
          /\ g[Len(g)].hub = w[Len(w)].hub /\ g[Len(g)].hub = w[e].hub
          /\ g[Len(g)].ra = w[e].ra
      BY <3>4, Zenon DEF Topmost
    <3> QED
      BY <3>1, <3>2, <3>5
  <2> QED
    BY <2>2
<1>6. KnownBy(proxies[s[n].hub], s[e])
  BY <1>1, <1>4, <1>5 DEF ThreadInv, Known
<1>7. InChain(proxies, s, frames[t], n, e)
  BY <1>1, <1>3 DEF ThreadInv, Chained
<1>8. Frame(t) = frames[t][Len(frames[t])] /\ frames[t] # << >>
  BY <1>1, <1>5 DEF Frame, Last, Typed
<1> QED
  BY <1>1, <1>3, <1>4, <1>5, <1>6, <1>7, <1>8

LEMMA PrevInv == ASSUME Inv, NEW t \in Threads, Prev(t) PROVE Inv'
<1> DEFINE s == calls[t]
           n == Len(s)
           h == Top(t).hub
           l == proxies[h]
           head == Frame(t).head
           k == Position(h, head, Top(t).func)
<1>1. /\ Typed(t) /\ ThreadInv(proxies, s, frames[t], at[t], cur[t])
      /\ n \in 1..n /\ n \in Nat /\ Top(t) = s[n] /\ at[t] = "run" /\ s[n].kind = "proxy"
  BY ThreadTypes DEF Typed, Prev
<1>2. PICK e \in 1..n :
        /\ Starts(s, n, e) /\ s[e].hub = h /\ h \in Hubs
        /\ InChain(proxies, s, frames[t], n, e)
        /\ Depth(s, e) = Len(frames[t])
        /\ frames[t] # << >>
        /\ Frame(t) = frames[t][Len(frames[t])] /\ Frame(t).hub = h
  BY <1>1, ProxyTop
<1>3. Listed(proxies, s, frames[t], n, e) /\ Leaves(proxies, s, n, e) /\ Len(l) \in Nat
  BY <1>1, <1>2 DEF InChain, Typed
<1>4. \E i \in 1..head : l[i].func = Top(t).func
  BY <1>1, <1>2, <1>3 DEF Listed
<1>5. k \in 1..head /\ l[k].func = s[n].func
  BY <1>1, <1>4 DEF Position
<1>6. k \in 1..Len(l)
  BY <1>2, <1>3, <1>5 DEF Listed
<1>7. \A i, j \in 1..Len(l) : l[i].func = l[j].func => i = j
  BY <1>2 DEF Inv, Lists
<1>8. /\ at' = [at EXCEPT ![t] = "prev"] /\ cur' = [cur EXCEPT ![t] = k - 1]
      /\ UNCHANGED <<proxies, frames, calls, edits>>
  BY <1>2 DEF Prev, Become
<1> HIDE DEF k
<1>9. k - 1 \in Nat /\ k - 1 <= Len(l) /\ \A j \in 1..Len(l) : l[j].func = s[n].func => k - 1 < j
  BY <1>3, <1>5, <1>6, <1>7
<1>10. ASSUME NEW d \in 1..n, Starts(s, n, d), NEW f \in s[d].must, f \notin Ran(s, d, n)
       PROVE  Within(l, f, k - 1)
  <2>1. d = e
    BY <1>1, <1>2, <1>10, StartsOnce
  <2>2. Below(l, f, s[n].func)
    BY <1>2, <1>3, <1>10, <2>1 DEF Leaves
  <2> QED
    BY <1>3, <1>5, <1>6, <2>2 DEF Below, Within
<1>11. Cursor(l, s, "prev", k - 1)
  BY <1>9, <1>10 DEF Cursor
<1>12. Shape(s, "prev") /\ Allowed(s, frames[t], "prev") /\ "prev" \in Places
  BY <1>1 DEF ThreadInv, Shape, Allowed, Places
<1> QED
  BY <1>8, <1>9, <1>11, <1>12, WalkInv

LEMMA PrevSkipInv == ASSUME Inv, NEW t \in Threads, PrevSkip(t) PROVE Inv'
<1> DEFINE s == calls[t]
           n == Len(s)
           h == Top(t).hub
           l == proxies[h]
           c == cur[t]
<1>1. /\ Typed(t) /\ ThreadInv(proxies, s, frames[t], at[t], c)
      /\ n \in 1..n /\ n \in Nat /\ Top(t) = s[n] /\ at[t] = "prev" /\ s[n].kind = "proxy"
      /\ c \in Nat \ {0}
  BY ThreadTypes DEF Typed, PrevSkip, ThreadInv, Shape
<1>2. PICK e \in 1..n :
        /\ Starts(s, n, e) /\ s[e].hub = h /\ h \in Hubs
        /\ KnownBy(l, s[e]) /\ Frame(t).hub = h
  BY <1>1, ProxyTop
<1>3. Cursor(l, s, "prev", c) /\ Len(l) \in Nat /\ ~l[c].enabled
  BY <1>1, <1>2 DEF ThreadInv, Typed, PrevSkip
<1>4. c - 1 \in Nat /\ c - 1 <= Len(l) /\ \A j \in 1..Len(l) : l[j].func = s[n].func => c - 1 < j
  <2>1. c <= Len(l) /\ \A j \in 1..Len(l) : l[j].func = s[n].func => c < j
    BY <1>3 DEF Cursor
  <2>2. \A j \in 1..Len(l) : c < j => c - 1 < j
    BY <1>1, <1>3
  <2> QED
    BY <1>1, <1>3, <2>1, <2>2
<1>5. ASSUME NEW d \in 1..n, Starts(s, n, d), NEW f \in s[d].must, f \notin Ran(s, d, n)
      PROVE  Within(l, f, c - 1)
  <2>1. d = e
    BY <1>1, <1>2, <1>5, StartsOnce
  <2>2. Within(l, f, c)
    BY <1>3, <1>5 DEF Cursor
  <2>3. PICK k \in 1..Len(l) : l[k].enabled /\ l[k].func = f
    BY <1>2, <1>5, <2>1 DEF KnownBy
  <2>4. \A j \in 1..Len(l) : l[j].func = f => j = k
    BY <1>2, <2>3 DEF Inv, Lists
  <2>5. k <= c /\ k # c
    BY <1>3, <2>2, <2>3 DEF Within
  <2>6. \A j \in 1..Len(l) : l[j].func = f => j <= c - 1
    BY <1>1, <2>4, <2>5
  <2> QED
    BY <2>6 DEF Within
<1>6. Cursor(l, s, "prev", c - 1)
  BY <1>4, <1>5 DEF Cursor
<1>7. Shape(s, "prev") /\ Allowed(s, frames[t], "prev") /\ "prev" \in Places
  BY <1>1 DEF ThreadInv, Places
<1>8. /\ at' = [at EXCEPT ![t] = "prev"] /\ cur' = [cur EXCEPT ![t] = c - 1]
      /\ UNCHANGED <<proxies, frames, calls, edits>>
  BY <1>1 DEF PrevSkip, Inv, TypeOK
<1> QED
  BY <1>4, <1>6, <1>7, <1>8, WalkInv

(* A proxy calls what get_prev_func returned: the next proxy or, kind      *)
(* being "orig", the original function.                                    *)
LEMMA RunInv ==
    ASSUME Inv, NEW t \in Threads, NEW kind \in {"proxy", "orig"}, NEW func,
           at[t] = "prev", Run(t, kind, func), UNCHANGED <<proxies, frames, edits>>,
           kind = "proxy" =>
              /\ cur[t] # 0 /\ proxies[Frame(t).hub][cur[t]].enabled
              /\ func = proxies[Frame(t).hub][cur[t]].func,
           kind = "orig" => cur[t] = 0 /\ func = NoFunc
    PROVE  Inv'
<1> DEFINE s == calls[t]
           r == calls'[t]
           g == frames[t]
           n == Len(s)
           h == Top(t).hub
           l == proxies[h]
           c == cur[t]
           x == [kind |-> kind, hub |-> h, func |-> func,
                 ra |-> <<Top(t).func, "prev">>, first |-> FALSE,
                 must |-> {}, may |-> {}]
<1>1. /\ Typed(t) /\ ThreadInv(proxies, s, g, "prev", c)
      /\ n \in Nat \ {0} /\ s \in Seq(Activations) /\ Top(t) = s[n] /\ s[n].kind = "proxy"
      /\ c \in Nat
  BY ThreadTypes DEF Typed, ThreadInv, Shape
<1>2. PICK e \in 1..n :
        /\ Starts(s, n, e) /\ s[e].hub = h /\ h \in Hubs
        /\ KnownBy(l, s[e]) /\ Frame(t).hub = h
  BY <1>1, ProxyTop
<1>3. /\ Cursor(l, s, "prev", c) /\ Len(l) \in Nat /\ \A k \in 1..Len(l) : l[k] \in Proxies
      /\ \A i, j \in 1..Len(l) : l[i].func = l[j].func => i = j
  BY <1>1, <1>2 DEF ThreadInv, Typed, Inv, Lists
<1>4. /\ c \in 0..Len(l)
      /\ kind = "proxy" => /\ c \in 1..Len(l) /\ l[c].enabled /\ func = l[c].func
                           /\ func \in Funcs /\ func # NoFunc
      /\ kind = "orig" => c = 0 /\ func = NoFunc
  <2>1. c \in 0..Len(l)
    BY <1>1, <1>3 DEF Cursor
  <2>2. kind = "proxy" => c \in 1..Len(l) /\ l[c].enabled /\ func = l[c].func
    BY <1>2, <2>1
  <2>3. kind = "proxy" => func \in Funcs /\ func # NoFunc
    BY <1>3, <2>2 DEF Proxies
  <2> QED
    BY <2>1, <2>2, <2>3
<1>5. Top(t).func \in Funcs
  <2>1. WellFormed(s, n) /\ s[n] \in Activations
    BY <1>1 DEF ThreadInv, Shape, Typed
  <2> QED
    BY <1>1, <2>1 DEF WellFormed, Activations
<1>6. /\ x \in Activations /\ x.kind = kind /\ x.hub = h /\ x.func = func
      /\ x.ra[2] = "prev" /\ ~x.first /\ x.must = {}
  BY <1>2, <1>4, <1>5 DEF Activations, Sites
<1>7. /\ calls' = [calls EXCEPT ![t] = Append(s, x)] /\ r = Append(s, x)
      /\ at' = [at EXCEPT ![t] = "run"] /\ at'[t] = "run"
      /\ cur' = [cur EXCEPT ![t] = 0]
      /\ UNCHANGED <<proxies, frames, edits>>
  BY <1>2 DEF Run, Push, Become, Inv, TypeOK
<1> HIDE DEF x
<1>8. /\ r \in Seq(Activations) /\ Grown(s, r) /\ r[n + 1] = x /\ Len(r) = n + 1
      /\ \A i \in 1..n : r[i] = s[i]
  BY <1>1, <1>6, <1>7, StackPush DEF Grown
<1>9. Alone(t)
  BY <1>7 DEF Alone, Inv, TypeOK
<1>10. TypeOK'
  BY <1>7, <1>8 DEF Inv, TypeOK, Activations
<1>11. Shape(r, "run")
  <2>0. /\ n + 1 # 1 /\ r[n + 1].kind = kind /\ r[n + 1].hub \in Hubs
        /\ r[n + 1].func = func /\ r[n + 1].ra[2] = "prev"
        /\ ~r[n + 1].first /\ r[n + 1].must = {}
    BY <1>1, <1>2, <1>6, <1>8
  <2>a. kind = "proxy" <=> func # NoFunc
    BY <1>4
  <2>b. kind \in {"proxy", "orig"}
    OBVIOUS
  <2>1. WellFormed(r, n + 1)
    <3> HIDE DEF r, n
    <3> QED
      BY <2>0, <2>a, <2>b DEF WellFormed
  <2>2. /\ Shape(s, "prev") /\ n \in Nat /\ ~r[n + 1].first /\ r[n + 1].kind # "trampo"
        /\ r[n + 1].hub = s[n].hub
    BY <1>1, <1>6, <1>8 DEF ThreadInv
  <2> QED
    BY <1>1, <1>8, <2>1, <2>2, ShapePush
<1>12. Framed(r, g)
  <2>a. ~r[n + 1].first /\ \A i : i \in 1..n + 1 <=> i \in 1..n \/ i = n + 1
    BY <1>1, <1>6, <1>8
  <2>b. \A i \in 1..n : r[i] = s[i]
    BY <1>8
  <2>1. Marked(r) = Marked(s)
    BY <1>8, <2>a, <2>b DEF Marked
  <2>2. \A i \in Marked(s) : r[i] = s[i]
    BY <1>1, <1>8 DEF Marked
  <2>3. Framed(s, g) /\ Len(s) \in Nat /\ Len(r) \in Nat
    BY <1>1, <1>8 DEF ThreadInv
  <2> HIDE DEF s, r, g
  <2> QED
    BY <2>1, <2>2, <2>3, FramedSame
<1>13. Known(proxies, r)
  <2>1. \A i \in 1..Len(r) : i = n + 1 \/ (i \in 1..n /\ r[i] = s[i])
    BY <1>1, <1>8
  <2> QED
    BY <1>1, <1>6, <1>8, <2>1 DEF Known, ThreadInv
<1>14. Chained(proxies, r, g)
  <2>1. Shares(proxies, s, r, g, g, "prev", n)
    BY <1>1, <1>8 DEF Shares, ThreadInv
  <2>4. \A d \in 1..n : Starts(s, n, d) => d = e
    BY <1>1, <1>2, StartsOnce
  <2>5. ASSUME r[n + 1].kind = "proxy"
        PROVE  /\ c # 0 /\ l[c].func = r[n + 1].func
               /\ \A d \in 1..n : Starts(s, n, d) => l[c].func \in s[d].may
    <3>1. kind = "proxy"
      BY <1>6, <1>8, <2>5
    <3> QED
      BY <1>2, <1>4, <1>6, <1>8, <2>4, <3>1 DEF KnownBy
  <2>6. ASSUME r[n + 1].kind = "orig"
        PROVE  /\ c = 0
               /\ \A d \in 1..n : Starts(s, n, d) =>
                    \A f \in s[d].must : \E k \in 1..Len(l) : l[k].func = f
    <3>1. kind = "orig"
      BY <1>6, <1>8, <2>6
    <3> QED
      BY <1>2, <1>4, <2>4, <3>1 DEF KnownBy
  <2>7. l = proxies[s[n].hub] /\ ~r[n + 1].first /\ r[n + 1].kind \in {"proxy", "orig"}
    BY <1>1, <1>6, <1>8
  <2>8. Follows(proxies, s, r, n, l, c)
    BY <1>1, <1>3, <1>4, <1>8, <2>5, <2>6, <2>7 DEF Follows
  <2> QED
    BY <2>1, <2>8, ChainedNext
<1>15. Cursor(proxies[r[Len(r)].hub], r, "run", cur'[t])
  BY DEF Cursor
<1>16. Allowed(r, g, "run")
  BY <1>1 DEF ThreadInv, Allowed
<1>17. ThreadInv(proxies, r, frames'[t], at'[t], cur'[t])
  BY <1>7, <1>11, <1>12, <1>13, <1>14, <1>15, <1>16 DEF ThreadInv
<1> QED
  BY <1>9, <1>10, <1>17, ThreadStep

LEMMA PrevRunInv == ASSUME Inv, NEW t \in Threads, PrevFound(t) \/ PrevNone(t) PROVE Inv'
<1>1. CASE PrevFound(t)
  <2>1. /\ at[t] = "prev" /\ cur[t] # 0 /\ proxies[Frame(t).hub][cur[t]].enabled
        /\ Run(t, "proxy", proxies[Frame(t).hub][cur[t]].func)
        /\ UNCHANGED <<proxies, frames, edits>>
    BY <1>1 DEF PrevFound
  <2> QED
    BY <2>1, RunInv
<1>2. CASE PrevNone(t)
  <2>1. at[t] = "prev" /\ cur[t] = 0 /\ Run(t, "orig", NoFunc)
        /\ UNCHANGED <<proxies, frames, edits>>
    BY <1>2 DEF PrevNone
  <2> QED
    BY <2>1, RunInv
<1> QED
  BY <1>1, <1>2

(* The function on top returns; the first proxy of a chain pops its frame. *)
LEMMA ReturnInv == ASSUME Inv, NEW t \in Threads, Return(t) PROVE Inv'
<1> DEFINE s == calls[t]
           r == calls'[t]
           g == frames[t]
           d == frames'[t]
           n == Len(s)
<1>1. /\ Typed(t) /\ ThreadInv(proxies, s, g, "run", cur[t]) /\ at[t] = "run"
      /\ n \in Nat /\ n > 1 /\ s \in Seq(Activations) /\ s # << >> /\ Top(t) = s[n]
      /\ g \in Seq(Frames) /\ Len(g) \in Nat
  BY ThreadTypes DEF Typed, Return
<1>2. calls' = [calls EXCEPT ![t] = Front(s)] /\ r = Front(s) /\ UNCHANGED <<proxies, at, cur, edits>>
  BY DEF Return, Inv, TypeOK
<1>3. /\ r \in Seq(Activations) /\ Grown(r, s) /\ Len(r) \in Nat /\ n = Len(r) + 1
      /\ \A i \in 1..Len(r) : r[i] = s[i]
  BY <1>1, <1>2, StackPop DEF Grown
<1>4. WellFormed(s, n) /\ Framed(s, g)
  BY <1>1 DEF ThreadInv, Shape
<1>5. /\ Framed(r, d) /\ d \in Seq(Frames) /\ frames' = [frames EXCEPT ![t] = d]
      /\ Len(d) \in Nat /\ Len(d) <= Len(g) /\ \A i \in 1..Len(d) : d[i] = g[i]
  <2>1. CASE s[n].kind = "proxy" /\ s[n].first
    <3>1. PICK e \in 1..n : Starts(s, n, e) /\ Frame(t).ra = s[e].ra /\ g # << >>
      BY <1>1, <2>1, ProxyTop
    <3>2. e = n
      BY <1>1, <2>1, <3>1 DEF Starts
    <3>3. Last(g).ra = Top(t).ra
      BY <1>1, <3>1, <3>2 DEF Frame
    <3>4. frames' = [frames EXCEPT ![t] = Front(g)] /\ d = Front(g)
      BY <1>1, <2>1, <3>1, <3>3 DEF Return, PopStack, Inv, TypeOK
    <3>5. d \in Seq(Frames) /\ Grown(d, g) /\ Len(d) \in Nat
      BY <1>1, <3>1, <3>4, StackPop
    <3>6. n \in Marked(s)
      BY <1>1, <2>1 DEF Marked
    <3>7. Framed(r, d)
      BY <1>1, <1>3, <1>4, <3>5, <3>6, FramedLeave
    <3>8. Len(d) <= Len(g) /\ \A i \in 1..Len(d) : d[i] = g[i]
      BY <1>1, <3>5 DEF Grown
    <3>9. frames' = [frames EXCEPT ![t] = d]
      BY <3>4
    <3> QED
      BY <3>5, <3>7, <3>8, <3>9
  <2>2. CASE ~(s[n].kind = "proxy" /\ s[n].first)
    <3>1. UNCHANGED frames
      <4>1. CASE s[n].kind = "proxy"
        <5>1. PICK e \in 1..n : Starts(s, n, e) /\ Frame(t).ra = s[e].ra /\ g # << >>
          BY <1>1, <4>1, ProxyTop
        <5>2. WellFormed(s, e)
          BY <1>1 DEF ThreadInv, Shape
        <5>3. Last(g).ra # Top(t).ra
          BY <1>1, <1>4, <2>2, <4>1, <5>1, <5>2 DEF Frame, WellFormed, Starts
        <5> QED
          BY <1>1, <4>1, <5>3 DEF Return, PopStack, Inv, TypeOK
      <4>2. CASE s[n].kind # "proxy"
        BY <1>1, <4>2 DEF Return
      <4> QED
        BY <4>1, <4>2
    <3>2. Marked(r) = Marked(s)
      BY <1>1, <1>3, <2>2 DEF Marked
    <3>3. \A i \in Marked(s) : r[i] = s[i]
      BY <1>3, <3>2 DEF Marked
    <3>4. Framed(r, g)
      BY <1>1, <1>3, <1>4, <3>2, <3>3, FramedSame
    <3> QED
      BY <1>1, <3>1, <3>4 DEF Inv, TypeOK
  <2> QED
    BY <2>1, <2>2
<1>6. Alone(t)
  BY <1>2, <1>5 DEF Alone, Inv, TypeOK
<1>7. TypeOK'
  BY <1>2, <1>3, <1>5 DEF Inv, TypeOK, Activations, Frames
<1>8. Shape(r, "run")
  BY <1>1, <1>3, ShapePop DEF ThreadInv
<1>9. Known(proxies, r)
  <2>1. \A e \in 1..Len(r) : e \in 1..n /\ r[e] = s[e]
    BY <1>3
  <2> QED
    BY <1>1, <2>1 DEF Known, ThreadInv
<1>10. Chained(proxies, r, d)
  <2>1. Depth(s, Len(r)) = Len(d)
    <3>1. \A k : k <= Len(r) => (k \in Marked(s) <=> k \in Marked(r))
      BY <1>3 DEF Marked
    <3> QED
      BY <1>5, <3>1, DepthSame DEF Framed
  <2>2. Shares(proxies, s, r, g, d, "run", Len(r))
    BY <1>1, <1>3, <1>5, <2>1 DEF ThreadInv, Shares
  <2> QED
    BY <2>2, ChainedCut
<1>11. Cursor(proxies[r[Len(r)].hub], r, "run", cur'[t])
  BY DEF Cursor
<1>12. Allowed(r, d, "run")
  <2>1. Allowed(s, g, "run")
    BY <1>1 DEF ThreadInv
  <2>2. \A i \in 1..Len(d) : i \in 1..Len(g) /\ d[i] = g[i]
    BY <1>1, <1>5
  <2>3. Len(d) <= MaxFrames
    BY <1>1, <1>5, <2>1 DEF Allowed
  <2>4. \A i, j \in 1..Len(d) : i < j /\ d[i].hub = d[j].hub => d[i].reentrant
    BY <2>1, <2>2 DEF Allowed
  <2> QED
    BY <2>3, <2>4 DEF Allowed
<1>13. ThreadInv(proxies, r, d, at'[t], cur'[t])
  BY <1>1, <1>2, <1>5, <1>8, <1>9, <1>10, <1>11, <1>12 DEF ThreadInv
<1> QED
  BY <1>6, <1>7, <1>13, ThreadStep

(* A proxy allows or forbids the reentry of its function.                  *)
LEMMA SetReentrantInv ==
    ASSUME Inv, NEW t \in Threads, NEW value \in BOOLEAN, SetReentrant(t, value)
    PROVE  Inv'
<1> DEFINE s == calls[t]
           g == frames[t]
           d == frames'[t]
           m == Len(g)
           y == [Last(g) EXCEPT !.reentrant = value]
<1>1. /\ Typed(t) /\ ThreadInv(proxies, s, g, at[t], cur[t]) /\ g \in Seq(Frames)
      /\ g # << >> /\ m \in Nat \ {0} /\ g[m] \in Frames /\ Last(g) = g[m]
      /\ Len(s) \in Nat
  BY ThreadTypes DEF Typed, SetReentrant, Last
<1>2. y \in Frames /\ y.hub = g[m].hub /\ y.ra = g[m].ra /\ y.head = g[m].head
  BY <1>1 DEF Frames
<1>3. /\ frames' = [frames EXCEPT ![t] = Append(Front(g), y)] /\ d = Append(Front(g), y)
      /\ UNCHANGED <<proxies, calls, at, cur, edits>>
  BY DEF SetReentrant, Inv, TypeOK
<1> HIDE DEF y
<1>4. /\ d \in Seq(Frames) /\ Len(d) = m /\ \A i \in 1..m - 1 : d[i] = g[i]
      /\ \A i \in 1..m : d[i].hub = g[i].hub /\ d[i].ra = g[i].ra /\ d[i].head = g[i].head
  <2>1. Append(Front(g), y) \in Seq(Frames) /\ Replaced(g, Append(Front(g), y), y)
    BY <1>1, <1>2, StackTop
  <2>2. Len(d) = m /\ d[m] = y /\ \A i \in 1..m - 1 : d[i] = g[i]
    BY <1>3, <2>1 DEF Replaced
  <2>3. \A i \in 1..m : i = m \/ d[i] = g[i]
    BY <1>1, <2>2
  <2> QED
    BY <1>2, <1>3, <2>1, <2>2, <2>3
<1>5. Alone(t)
  BY <1>3 DEF Alone, Inv, TypeOK
<1>6. TypeOK'
  BY <1>3, <1>4 DEF Inv, TypeOK, Frames
<1>7. Framed(s, d)
  <2>1. Framed(s, g)
    BY <1>1 DEF ThreadInv
  <2> QED
    BY <1>1, <1>4, <2>1, FramedSame
<1>8. Chained(proxies, s, d)
  <2>1. Shares(proxies, s, s, g, d, at[t], Len(s))
    BY <1>1, <1>4 DEF ThreadInv, Shares, Framed
  <2> QED
    BY <2>1, ChainedCut
<1>9. Allowed(s, d, at[t])
  <2>1. Allowed(s, g, at[t]) /\ at[t] = "run"
    BY <1>1 DEF ThreadInv, SetReentrant
  <2>2. ASSUME NEW i \in 1..m, NEW j \in 1..m, i < j, d[i].hub = d[j].hub
        PROVE  d[i].reentrant
    <3>1. i \in 1..m - 1 /\ g[i].hub = g[j].hub
      BY <1>1, <1>4, <2>2
    <3> QED
      BY <1>4, <2>1, <2>2, <3>1 DEF Allowed
  <2> QED
    BY <1>4, <2>1, <2>2 DEF Allowed
<1>10. ThreadInv(proxies, calls'[t], d, at'[t], cur'[t])
  BY <1>1, <1>3, <1>7, <1>8, <1>9 DEF ThreadInv
<1> QED
  BY <1>5, <1>6, <1>10, ThreadStep
-----------------------------------------------------------------------------
(* An edit of a list leaves every thread's chains as they should be.       *)
LEMMA EditInv ==
    ASSUME Inv, TypeOK', Lists(proxies'), UNCHANGED <<frames, at, cur>>,
           \A k \in Hubs : Later(proxies[k], proxies'[k]),
           \A t \in Threads : Learnt(calls[t], calls'[t]) /\ Known(proxies', calls'[t])
    PROVE  Inv'
<1> SUFFICES ASSUME NEW t \in Threads
             PROVE  ThreadInv(proxies', calls'[t], frames[t], at[t], cur[t])
  BY DEF Inv
<1> DEFINE s == calls[t]
           r == calls'[t]
           n == Len(s)
<1>1. /\ Typed(t) /\ ThreadInv(proxies, s, frames[t], at[t], cur[t])
      /\ n \in Nat \ {0} /\ Len(r) = n /\ r[n].hub = s[n].hub /\ cur[t] \in Nat
  BY ThreadTypes DEF Typed, Learnt
<1>2. Shape(r, at[t])
  <2>1. \A i \in 1..n :
              /\ r[i].kind = s[i].kind /\ r[i].hub = s[i].hub /\ r[i].func = s[i].func
              /\ r[i].ra = s[i].ra /\ r[i].first = s[i].first
              /\ s[i].must = {} => r[i].must = {}
    BY DEF Learnt
  <2> QED
    BY <1>1, <2>1, ShapeLearn DEF ThreadInv
<1>3. Framed(r, frames[t])
  <2>1. 1 \in 1..n
    BY <1>1
  <2>2. Marked(r) = Marked(s)
    BY <1>1, <2>1, LearnChain
  <2>3. \A i \in Marked(s) : r[i].hub = s[i].hub /\ r[i].ra = s[i].ra
    BY DEF Learnt, Marked
  <2> QED
    BY <1>1, <2>2, <2>3, FramedSame DEF ThreadInv
<1>4. Known(proxies', r)
  OBVIOUS
<1>5. Chained(proxies', r, frames[t])
  BY <1>1, ChainedLearn DEF ThreadInv
<1>6. s[n].hub \in Hubs => Cursor(proxies'[s[n].hub], r, at[t], cur[t])
  BY <1>1, CursorLearn DEF ThreadInv
<1>7. Allowed(r, frames[t], at[t])
  BY <1>1 DEF ThreadInv, Allowed
<1> QED
  BY <1>1, <1>2, <1>3, <1>4, <1>5, <1>6, <1>7 DEF ThreadInv

\* What an activation of h becomes, when f is enabled or disabled.
Told(a, f) == [a EXCEPT !.may = @ \union {f}]
Untold(a, f) == [a EXCEPT !.must = @ \ {f}]

LEMMA ToldFacts ==
    ASSUME NEW a \in Activations, NEW f \in Funcs
    PROVE  /\ Told(a, f) \in Activations /\ Untold(a, f) \in Activations
           /\ \A b \in {Told(a, f), Untold(a, f)} :
                /\ b.kind = a.kind /\ b.hub = a.hub /\ b.func = a.func
                /\ b.ra = a.ra /\ b.first = a.first
           /\ Told(a, f).must = a.must /\ Told(a, f).may = a.may \union {f}
           /\ Untold(a, f).must = a.must \ {f} /\ Untold(a, f).may = a.may
BY DEF Told, Untold, Activations

LEMMA AddProxyInv ==
    ASSUME Inv, NEW h \in Hubs, NEW f \in Funcs, AddProxy(h, f)
    PROVE  Inv'
<1> DEFINE l == proxies[h]
           q == proxies'[h]
<1>1. /\ proxies \in [Hubs -> Seq(Proxies)] /\ l \in Seq(Proxies) /\ Len(l) \in Nat
      /\ \A k \in 1..Len(l) : l[k] \in Proxies
      /\ \A i, j \in 1..Len(l) : l[i].func = l[j].func => i = j
  <2>1. proxies \in [Hubs -> Seq(Proxies)]
    BY DEF Inv, TypeOK, Proxies
  <2>2. \A i, j \in 1..Len(l) : l[i].func = l[j].func => i = j
    BY DEF Inv, Lists
  <2>3. l \in Seq(Proxies)
    BY <2>1
  <2> QED
    BY <2>1, <2>2, <2>3
<1>2. /\ q \in Seq(Proxies) /\ Len(q) \in Nat /\ Len(l) <= Len(q) /\ Later(l, q)
      /\ proxies' = [proxies EXCEPT ![h] = q]
      /\ \A i, j \in 1..Len(q) : q[i].func = q[j].func => i = j
      /\ \A k \in 1..Len(l) : l[k].enabled => q[k].enabled
      /\ \A k \in 1..Len(q) : q[k].func = f \/ (k \in 1..Len(l) /\ q[k] = l[k])
  <2>1. CASE \E i \in 1..Len(l) :
               l[i].func = f /\ proxies' = [proxies EXCEPT ![h][i].enabled = TRUE]
    <3>1. PICK i \in 1..Len(l) :
               l[i].func = f /\ proxies' = [proxies EXCEPT ![h][i].enabled = TRUE]
      BY <2>1
    <3>2. q = [l EXCEPT ![i] = [l[i] EXCEPT !.enabled = TRUE]]
      BY <1>1, <3>1
    <3>3. PICK y : y = [l[i] EXCEPT !.enabled = TRUE]
      OBVIOUS
    <3>4. y \in Proxies /\ y.func = l[i].func /\ y.enabled
      BY <1>1, <3>3 DEF Proxies
    <3>5. q \in Seq(Proxies) /\ Len(q) = Len(l) /\ q[i] = y /\ \A k \in 1..Len(l) : k # i => q[k] = l[k]
      <4>1. q = [l EXCEPT ![i] = y]
        BY <3>2, <3>3
      <4> QED
        BY <1>1, <3>4, <4>1
    <3>6. \A k \in 1..Len(l) : q[k].func = l[k].func /\ (l[k].enabled => q[k].enabled)
      BY <3>4, <3>5
    <3>7. Later(l, q)
      BY <1>1, <3>5, <3>6 DEF Later
    <3>8. \A j, k \in 1..Len(q) : q[j].func = q[k].func => j = k
      BY <1>1, <3>5, <3>6
    <3>9. proxies' = [proxies EXCEPT ![h] = q]
      BY <1>1, <3>1, <3>2
    <3>10. \A k \in 1..Len(q) : q[k].func = f \/ (k \in 1..Len(l) /\ q[k] = l[k])
      BY <3>1, <3>4, <3>5
    <3> QED
      BY <1>1, <3>5, <3>6, <3>7, <3>8, <3>9, <3>10
  <2>2. CASE /\ \A i \in 1..Len(l) : l[i].func # f
             /\ proxies' = [proxies EXCEPT ![h] = Append(@, [func |-> f, enabled |-> TRUE])]
    <3>0. [func |-> f, enabled |-> TRUE] \in Proxies /\ [func |-> f, enabled |-> TRUE].func = f
      BY DEF Proxies
    <3>1. PICK y \in Proxies : y = [func |-> f, enabled |-> TRUE] /\ y.func = f
      BY <3>0
    <3>2. proxies' = [proxies EXCEPT ![h] = Append(l, y)] /\ q = Append(l, y)
      BY <1>1, <2>2, <3>1
    <3>3. q \in Seq(Proxies) /\ Grown(l, q) /\ q[Len(l) + 1] = y /\ Len(q) = Len(l) + 1
      BY <1>1, <3>2, StackPush DEF Grown
    <3>4. \A k \in 1..Len(q) : k = Len(l) + 1 \/ (k \in 1..Len(l) /\ q[k] = l[k])
      BY <1>1, <3>3 DEF Grown
    <3>5. Later(l, q)
      BY <1>1, <2>2, <3>1, <3>3, <3>4 DEF Later
    <3>6. \A j, k \in 1..Len(q) : q[j].func = q[k].func => j = k
      BY <1>1, <2>2, <3>1, <3>3, <3>4
    <3>7. \A k \in 1..Len(q) : q[k].func = f \/ (k \in 1..Len(l) /\ q[k] = l[k])
      BY <3>1, <3>3, <3>4
    <3>8. \A k \in 1..Len(l) : l[k].enabled => q[k].enabled
      BY <1>1, <3>3, <3>4
    <3> QED
      BY <1>1, <3>2, <3>3, <3>5, <3>6, <3>7, <3>8
  <2> QED
    BY <2>1, <2>2 DEF AddProxy
<1>3. \A k \in Hubs : k # h => proxies'[k] = proxies[k]
  BY <1>1, <1>2
<1>4. \A k \in Hubs : Later(proxies[k], proxies'[k])
  <2>1. \A k \in Hubs : Len(proxies[k]) \in Nat
    BY <1>1
  <2> QED
    BY <1>2, <1>3, <2>1 DEF Later
<1>5. Lists(proxies')
  BY <1>2, <1>3 DEF Inv, Lists
<1>6. calls' = [t \in Threads |-> [i \in 1..Len(calls[t]) |->
          IF calls[t][i].hub = h /\ calls[t][i].first
          THEN Told(calls[t][i], f) ELSE calls[t][i]]]
  BY DEF AddProxy, Learn, Told
<1>7. ASSUME NEW t \in Threads
      PROVE  /\ calls'[t] \in Seq(Activations) /\ Learnt(calls[t], calls'[t])
             /\ Known(proxies', calls'[t])
  <2> DEFINE s == calls[t]
             r == calls'[t]
  <2>1. Typed(t) /\ Known(proxies, s) /\ Len(s) \in Nat /\ \A i \in 1..Len(s) : s[i] \in Activations
    BY ThreadTypes DEF ThreadInv, Typed
  <2>2. r = [i \in 1..Len(s) |-> IF s[i].hub = h /\ s[i].first THEN Told(s[i], f) ELSE s[i]]
    BY <1>6
  <2>3. \A i \in 1..Len(s) : r[i] \in Activations
    BY <2>1, <2>2, ToldFacts
  <2>4. r \in Seq(Activations) /\ Len(r) = Len(s)
    BY <2>1, <2>2, <2>3
  <2>5. \A i \in 1..Len(s) :
        /\ r[i].kind = s[i].kind /\ r[i].hub = s[i].hub /\ r[i].func = s[i].func
        /\ r[i].ra = s[i].ra /\ r[i].first = s[i].first /\ r[i].must = s[i].must
        /\ s[i].may \subseteq r[i].may /\ (s[i].hub = h /\ s[i].first => f \in r[i].may)
    BY <2>1, <2>2, ToldFacts
  <2>6. Learnt(s, r)
    BY <2>1, <2>4, <2>5 DEF Learnt
  <2>7. ASSUME NEW e \in 1..Len(s), s[e].first, s[e].hub \in Hubs
        PROVE  KnownBy(proxies'[s[e].hub], r[e])
    <3>1. KnownBy(proxies[s[e].hub], s[e])
      BY <2>1, <2>7 DEF Known
    <3>2. CASE s[e].hub = h
      <4>1. ASSUME NEW k \in 1..Len(q), q[k].enabled PROVE q[k].func \in r[e].may
        <5>1. s[e].may \subseteq r[e].may /\ f \in r[e].may
          BY <2>5, <2>7, <3>2
        <5>2. CASE q[k].func = f
          BY <5>1, <5>2
        <5>3. CASE k \in 1..Len(l) /\ q[k] = l[k]
          <6>1. KnownBy(l, s[e])
            BY <3>1, <3>2
          <6>2. l[k].func \in s[e].may
            BY <4>1, <5>3, <6>1 DEF KnownBy
          <6> QED
            BY <5>1, <5>3, <6>2
        <5> QED
          BY <1>2, <5>2, <5>3
      <4>2. ASSUME NEW b \in r[e].must
            PROVE  \E k \in 1..Len(q) : q[k].enabled /\ q[k].func = b
        <5>1. PICK k \in 1..Len(l) : l[k].enabled /\ l[k].func = b
          BY <2>5, <3>1, <3>2, <4>2 DEF KnownBy
        <5>2. k \in 1..Len(q) /\ q[k].enabled /\ q[k].func = b
          BY <1>1, <1>2, <5>1 DEF Later
        <5> QED
          BY <5>2
      <4> QED
        BY <3>2, <4>1, <4>2 DEF KnownBy
    <3>3. CASE s[e].hub # h
      <4>1. PICK w : w = proxies[s[e].hub]
        OBVIOUS
      <4>2. PICK v : v = proxies'[s[e].hub]
        OBVIOUS
      <4>3. v = w
        BY <1>3, <2>7, <3>3, <4>1, <4>2
      <4>4. KnownBy(w, s[e])
        BY <3>1, <4>1
      <4>5. r[e].must = s[e].must /\ s[e].may \subseteq r[e].may
        BY <2>5
      <4>6. KnownBy(v, r[e])
        BY <4>3, <4>4, <4>5 DEF KnownBy
      <4> QED
        BY <4>2, <4>6
    <3> QED
      BY <3>2, <3>3
  <2>8. Known(proxies', r)
    BY <2>4, <2>5, <2>7 DEF Known
  <2> QED
    BY <2>4, <2>6, <2>8
<1>8. TypeOK'
  <2>1. proxies' \in [Hubs -> Seq(Proxies)]
    BY <1>1, <1>2
  <2>2. calls' \in [Threads -> Seq(Activations)]
    BY <1>6, <1>7
  <2>3. edits' \in 0..MaxEdits /\ UNCHANGED <<frames, at, cur>>
    BY DEF AddProxy, Inv, TypeOK
  <2> QED
    BY <2>1, <2>2, <2>3 DEF Inv, TypeOK, Proxies, Activations
<1>9. UNCHANGED <<frames, at, cur>>
  BY DEF AddProxy
<1> QED
  BY <1>4, <1>5, <1>7, <1>8, <1>9, EditInv

LEMMA DelProxyInv ==
    ASSUME Inv, NEW h \in Hubs, NEW f \in Funcs, DelProxy(h, f)
    PROVE  Inv'
<1> DEFINE l == proxies[h]
           q == proxies'[h]
<1>1. /\ proxies \in [Hubs -> Seq(Proxies)] /\ l \in Seq(Proxies) /\ Len(l) \in Nat
      /\ \A k \in 1..Len(l) : l[k] \in Proxies
      /\ \A i, j \in 1..Len(l) : l[i].func = l[j].func => i = j
  <2>1. proxies \in [Hubs -> Seq(Proxies)]
    BY DEF Inv, TypeOK, Proxies
  <2>2. \A i, j \in 1..Len(l) : l[i].func = l[j].func => i = j
    BY DEF Inv, Lists
  <2>3. l \in Seq(Proxies)
    BY <2>1
  <2> QED
    BY <2>1, <2>2, <2>3
<1>2. PICK i \in 1..Len(l) : l[i].func = f /\ proxies' = [proxies EXCEPT ![h][i].enabled = FALSE]
  BY DEF DelProxy
<1>3. PICK y : y = [l[i] EXCEPT !.enabled = FALSE]
  OBVIOUS
<1>4. y \in Proxies /\ y.func = f /\ ~y.enabled
  BY <1>1, <1>2, <1>3 DEF Proxies
<1>5. q = [l EXCEPT ![i] = y] /\ proxies' = [proxies EXCEPT ![h] = q]
  BY <1>1, <1>2, <1>3
<1>6. q \in Seq(Proxies) /\ Len(q) = Len(l) /\ q[i] = y /\ \A k \in 1..Len(l) : k # i => q[k] = l[k]
  BY <1>1, <1>4, <1>5
<1>7. /\ \A k \in 1..Len(l) : q[k].func = l[k].func /\ (q[k].enabled => l[k].enabled)
      /\ \A j, k \in 1..Len(q) : q[j].func = q[k].func => j = k
      /\ Later(l, q)
  <2>1. \A k \in 1..Len(l) : q[k].func = l[k].func /\ (q[k].enabled => l[k].enabled)
    BY <1>2, <1>4, <1>6
  <2>2. Len(l) \in Nat /\ \A k : k \notin Len(l) + 1..Len(l)
    BY <1>1
  <2>3. \A j, k \in 1..Len(q) : q[j].func = q[k].func => j = k
    BY <1>1, <1>6, <2>1
  <2>4. Later(l, q)
    BY <1>6, <2>1, <2>2 DEF Later
  <2> QED
    BY <2>1, <2>3, <2>4
<1>8. \A k \in Hubs : k # h => proxies'[k] = proxies[k]
  BY <1>1, <1>5
<1>9. \A k \in Hubs : Later(proxies[k], proxies'[k])
  <2>1. \A k \in Hubs : Len(proxies[k]) \in Nat
    BY <1>1
  <2>2. ASSUME NEW k \in Hubs, k # h PROVE Later(proxies[k], proxies'[k])
    <3>1. PICK w : w = proxies[k]
      OBVIOUS
    <3>2. Len(w) \in Nat /\ \A j : j \notin Len(w) + 1..Len(w)
      BY <2>1, <3>1
    <3>3. Later(w, w)
      BY <3>2 DEF Later
    <3> QED
      BY <1>8, <2>2, <3>1, <3>3
  <2> QED
    BY <1>7, <2>2
<1>10. Lists(proxies')
  BY <1>7, <1>8 DEF Inv, Lists
<1>11. calls' = [t \in Threads |-> [j \in 1..Len(calls[t]) |->
          IF calls[t][j].hub = h /\ calls[t][j].first
          THEN Untold(calls[t][j], f) ELSE calls[t][j]]]
  BY DEF DelProxy, Learn, Untold
<1>12. ASSUME NEW t \in Threads
       PROVE  /\ calls'[t] \in Seq(Activations) /\ Learnt(calls[t], calls'[t])
              /\ Known(proxies', calls'[t])
  <2> DEFINE s == calls[t]
             r == calls'[t]
  <2>1. Typed(t) /\ Known(proxies, s) /\ Len(s) \in Nat /\ \A j \in 1..Len(s) : s[j] \in Activations
    BY ThreadTypes DEF ThreadInv, Typed
  <2>2. r = [j \in 1..Len(s) |-> IF s[j].hub = h /\ s[j].first THEN Untold(s[j], f) ELSE s[j]]
    BY <1>11
  <2>3. \A j \in 1..Len(s) : r[j] \in Activations
    BY <2>1, <2>2, ToldFacts
  <2>4. r \in Seq(Activations) /\ Len(r) = Len(s)
    <3>1. PICK n : n = Len(s)
      OBVIOUS
    <3>2. PICK u : u = r
      OBVIOUS
    <3>3. n \in Nat /\ DOMAIN u = 1..n /\ u = [j \in 1..n |-> u[j]] /\ \A j \in 1..n : u[j] \in Activations
      BY <2>1, <2>2, <2>3, <3>1, <3>2
    <3>4. u \in [1..n -> Activations]
      BY <3>3
    <3>5. u \in Seq(Activations) /\ Len(u) = n
      BY <3>3, <3>4
    <3> QED
      BY <3>1, <3>2, <3>5
  <2>5. \A j \in 1..Len(s) :
        /\ r[j].kind = s[j].kind /\ r[j].hub = s[j].hub /\ r[j].func = s[j].func
        /\ r[j].ra = s[j].ra /\ r[j].first = s[j].first /\ r[j].may = s[j].may
        /\ r[j].must \subseteq s[j].must /\ (s[j].hub = h /\ s[j].first => f \notin r[j].must)
    BY <2>1, <2>2, ToldFacts
  <2>6. Learnt(s, r)
    BY <2>1, <2>4, <2>5 DEF Learnt
  <2>7. ASSUME NEW e \in 1..Len(s), s[e].first, s[e].hub \in Hubs
        PROVE  KnownBy(proxies'[s[e].hub], r[e])
    <3>1. KnownBy(proxies[s[e].hub], s[e])
      BY <2>1, <2>7 DEF Known
    <3>2. CASE s[e].hub = h
      <4>1. ASSUME NEW k \in 1..Len(q), q[k].enabled PROVE q[k].func \in r[e].may
        BY <1>6, <1>7, <2>5, <3>1, <3>2, <4>1 DEF KnownBy
      <4>2. ASSUME NEW b \in r[e].must
            PROVE  \E k \in 1..Len(q) : q[k].enabled /\ q[k].func = b
        <5>1. PICK k \in 1..Len(l) : l[k].enabled /\ l[k].func = b
          BY <2>5, <3>1, <3>2, <4>2 DEF KnownBy
        <5>2. b # f
          BY <2>5, <2>7, <3>2, <4>2
        <5>3. k \in 1..Len(q) /\ q[k] = l[k]
          BY <1>2, <1>6, <5>1, <5>2
        <5> QED
          BY <5>1, <5>3
      <4> QED
        BY <3>2, <4>1, <4>2 DEF KnownBy
    <3>3. CASE s[e].hub # h
      <4>1. PICK w : w = proxies[s[e].hub]
        OBVIOUS
      <4>2. PICK v : v = proxies'[s[e].hub]
        OBVIOUS
      <4>3. v = w
        BY <1>8, <2>7, <3>3, <4>1, <4>2
      <4>4. KnownBy(w, s[e])
        BY <3>1, <4>1
      <4>5. r[e].must \subseteq s[e].must /\ r[e].may = s[e].may
        BY <2>5
      <4>6. KnownBy(v, r[e])
        BY <4>3, <4>4, <4>5 DEF KnownBy
      <4> QED
        BY <4>2, <4>6
    <3> QED
      BY <3>2, <3>3
  <2>8. Known(proxies', r)
    BY <2>4, <2>5, <2>7 DEF Known
  <2> QED
    BY <2>4, <2>6, <2>8
<1>13. TypeOK'
  <2>1. proxies' \in [Hubs -> Seq(Proxies)]
    BY <1>1, <1>5, <1>6
  <2>2. calls' \in [Threads -> Seq(Activations)]
    BY <1>11, <1>12
  <2>3. edits' \in 0..MaxEdits /\ UNCHANGED <<frames, at, cur>>
    BY DEF DelProxy, Inv, TypeOK
  <2> QED
    BY <2>1, <2>2, <2>3 DEF Inv, TypeOK, Proxies, Activations
<1>14. UNCHANGED <<frames, at, cur>>
  BY DEF DelProxy
<1> QED
  BY <1>9, <1>10, <1>12, <1>13, <1>14, EditInv
-----------------------------------------------------------------------------
LEMMA NextInv == Inv /\ [Next]_vars => Inv'
<1> SUFFICES ASSUME Inv, [Next]_vars PROVE Inv'
  OBVIOUS
<1>1. ASSUME NEW t \in Threads, NEW h \in Hubs, Call(t, h) PROVE Inv'
  BY <1>1, CallInv
<1>2. ASSUME NEW t \in Threads, PushStart(t) PROVE Inv'
  BY <1>2, PushStartInv
<1>3. ASSUME NEW t \in Threads, PushSkip(t) PROVE Inv'
  BY <1>3, PushSkipInv
<1>4. ASSUME NEW t \in Threads, PushFound(t) PROVE Inv'
  BY <1>4, PushFoundInv
<1>5. ASSUME NEW t \in Threads, PushNone(t) PROVE Inv'
  BY <1>5, PushNoneInv
<1>6. ASSUME NEW t \in Threads, PushFrame(t) PROVE Inv'
  BY <1>6, PushFrameInv
<1>7. ASSUME NEW t \in Threads, Prev(t) PROVE Inv'
  BY <1>7, PrevInv
<1>8. ASSUME NEW t \in Threads, PrevSkip(t) PROVE Inv'
  BY <1>8, PrevSkipInv
<1>9. ASSUME NEW t \in Threads, PrevFound(t) \/ PrevNone(t) PROVE Inv'
  BY <1>9, PrevRunInv
<1>10. ASSUME NEW t \in Threads, Return(t) PROVE Inv'
  BY <1>10, ReturnInv
<1>11. ASSUME NEW t \in Threads, NEW value \in BOOLEAN, SetReentrant(t, value) PROVE Inv'
  BY <1>11, SetReentrantInv
<1>12. ASSUME NEW h \in Hubs, NEW f \in Funcs, AddProxy(h, f) PROVE Inv'
  BY <1>12, AddProxyInv
<1>13. ASSUME NEW h \in Hubs, NEW f \in Funcs, DelProxy(h, f) PROVE Inv'
  BY <1>13, DelProxyInv
<1>14. CASE UNCHANGED vars
  BY <1>14, StutterInv
<1> QED
  BY <1>1, <1>2, <1>3, <1>4, <1>5, <1>6, <1>7, <1>8, <1>9, <1>10, <1>11, <1>12, <1>13,
     <1>14 DEF Next

LEMMA SpecInv == Spec => []Inv
BY InitInv, NextInv, PTL DEF Spec

(* Entry finds the entry of a chain.                                       *)
LEMMA EntryStarts ==
    ASSUME Inv, NEW t \in Threads, NEW i \in 1..Len(calls[t])
    PROVE  Entry(t, i) \in 1..i /\ Starts(calls[t], i, Entry(t, i))
<1>1. \E e \in 1..i : Starts(calls[t], i, e)
  BY DEF Inv, ThreadInv, Shape, Rooted
<1>2. \E e \in 1..i : calls[t][e].first /\ \A k \in e + 1..i : ~calls[t][k].first
  BY <1>1 DEF Starts
<1> QED
  BY <1>2 DEF Entry, Starts

(* FramesMatchCalls: whatever hooked functions, proxies and originals call *)
(* and however hooks come and go, the frame a proxy reads is its chain's.  *)
THEOREM FramesCorrect == Spec => []FramesMatchCalls
<1>1. Inv => FramesMatchCalls
  <2> SUFFICES ASSUME Inv PROVE FramesMatchCalls
    OBVIOUS
  <2>1. ASSUME NEW t \in Threads
        PROVE  /\ at[t] # "abort"
               /\ Len(frames[t]) = Level(t, Len(calls[t])) /\ Len(frames[t]) <= MaxFrames
               /\ \A i \in Entered(t) :
                    /\ frames[t][Level(t, i)].hub = calls[t][i].hub
                    /\ frames[t][Level(t, i)].ra = calls[t][i].ra
    <3>1. /\ Shape(calls[t], at[t]) /\ Framed(calls[t], frames[t])
          /\ Allowed(calls[t], frames[t], at[t])
      BY DEF Inv, ThreadInv
    <3>2. Entered(t) = Marked(calls[t]) /\ \A i : Level(t, i) = Depth(calls[t], i)
      BY DEF Entered, Marked, Level, Depth
    <3> QED
      BY <3>1, <3>2 DEF Shape, Framed, Allowed
  <2> QED
    BY <2>1 DEF FramesMatchCalls, Inv
<1> QED
  BY <1>1, SpecInv, PTL

(* NoUnwantedReentry: two frames of one function only where the older one  *)
(* allows it.                                                              *)
THEOREM ReentryCorrect == Spec => []NoUnwantedReentry
<1>1. Inv => NoUnwantedReentry
  BY DEF Inv, ThreadInv, Allowed, NoUnwantedReentry
<1> QED
  BY <1>1, SpecInv, PTL

(* ChainsAreSound: a proxy that runs was enabled since its function was    *)
(* called, and CALL_PREV never comes back to a proxy of the chain.         *)
THEOREM ChainsCorrect == Spec => []ChainsAreSound
<1>1. Inv => OnlyHookedRun
  <2> SUFFICES ASSUME Inv, NEW t \in Threads, NEW i \in 1..Len(calls[t]),
                      calls[t][i].kind = "proxy"
               PROVE  calls[t][i].func \in calls[t][Entry(t, i)].may
    BY DEF OnlyHookedRun
  <2>1. Chained(proxies, calls[t], frames[t])
    BY DEF Inv, ThreadInv
  <2> QED
    BY <2>1, EntryStarts DEF Chained, InChain
<1>2. Inv => ChainsDescend
  <2> SUFFICES ASSUME Inv, NEW t \in Threads, NEW i \in 1..Len(calls[t]),
                      NEW j \in 1..Len(calls[t]), i < j,
                      calls[t][i].kind = "proxy", calls[t][j].kind = "proxy",
                      Entry(t, i) = Entry(t, j), calls[t][i].func = calls[t][j].func
               PROVE  FALSE
    BY DEF ChainsDescend
  <2> DEFINE s == calls[t]
             e == Entry(t, i)
             l == proxies[s[e].hub]
  <2>1. e \in 1..i /\ Starts(s, i, e) /\ Starts(s, j, e) /\ e \in 1..j /\ Len(s) \in Nat
    BY EntryStarts, ThreadTypes DEF Typed
  <2>2. Chained(proxies, s, frames[t])
    BY DEF Inv, ThreadInv
  <2>3. Descends(proxies, s, i, e, Len(s)) /\ Listed(proxies, s, frames[t], i, e)
    BY <2>1, <2>2 DEF Chained, InChain
  <2>4. Below(l, s[j].func, s[i].func)
    BY <2>1, <2>3 DEF Descends
  <2>5. WellFormed(s, i) /\ Rooted(s, i)
    BY DEF Inv, ThreadInv, Shape
  <2>6. s[e].hub \in Hubs
    BY <2>1, <2>5 DEF WellFormed, Rooted
  <2>7. Len(l) \in Nat
    BY <2>6, ThreadTypes DEF Typed
  <2>8. PICK k \in 1..Len(l) : l[k].func = s[i].func
    BY <2>3, <2>7 DEF Listed
  <2> QED
    BY <2>4, <2>7, <2>8 DEF Below
<1>3. Inv => ChainsAreSound
  BY <1>1, <1>2 DEF ChainsAreSound
<1> QED
  BY <1>3, SpecInv, PTL

(* EveryHookRuns: the original function is reached only after every proxy  *)
(* that was enabled all along.                                             *)
THEOREM HooksCorrect == Spec => []EveryHookRuns
<1>1. Inv => EveryHookRuns
  <2> SUFFICES ASSUME Inv, NEW t \in Threads, NEW i \in 1..Len(calls[t]),
                      calls[t][i].kind = "orig"
               PROVE  calls[t][Entry(t, i)].must \subseteq Chain(t, i)
    BY DEF EveryHookRuns
  <2> DEFINE s == calls[t]
             e == Entry(t, i)
  <2>1. e \in 1..i /\ Starts(s, i, e) /\ Chained(proxies, s, frames[t]) /\ e \in 1..Len(s)
    BY EntryStarts, ThreadTypes DEF Inv, ThreadInv, Typed
  <2>2. s[e].must \subseteq Ran(s, e, i)
    BY <2>1 DEF Chained, InChain
  <2>3. s[e].must \subseteq Funcs
    BY <2>1, ThreadTypes DEF Typed, Activations
  <2>4. Chain(t, i) = Ran(s, e, i) \ {NoFunc}
    BY DEF Chain, Ran
  <2> QED
    BY <2>2, <2>3, <2>4
<1> QED
  BY <1>1, SpecInv, PTL
=============================================================================
