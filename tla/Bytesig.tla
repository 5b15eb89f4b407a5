------------------------------ MODULE Bytesig ------------------------------
(***************************************************************************)
(* common/bytesig.cpp and bytesig.h: protected sections.                   *)
(*                                                                         *)
(*     BYTESIG_TRY(SIGSEGV, SIGBUS) { body } BYTESIG_CATCH() { ... }       *)
(*     BYTESIG_EXIT                                                        *)
(*                                                                         *)
(* A table per signal says which threads are in a section and where the    *)
(* handler shall jump to.  Threads claim and release slots of the tables   *)
(* without a lock.  A thread has one slot per signal: a section inside     *)
(* another one finds the thread's slot and uses it, and its end releases   *)
(* it.  A fault is raised by the body of a section, or by any other code.  *)
(***************************************************************************)
EXTENDS Integers, Sequences, SequencesExt

CONSTANTS
    Threads,
    Signums,     \* the signals of a section, in the order of its arguments
    N,           \* BYTESIG_PROTECTED_THREADS_MAX
    MaxSections, \* bound: sections of a thread
    MaxTotal,    \* bound: sections of all threads
    MaxDepth     \* bound: sections inside each other

Theirs == "theirs"
Ours == "ours"
Null == "null"
Nobody == "nobody"
NoBuffer == <<Nobody, 0>>

ASSUME ConstantsAssumption ==
    /\ Signums \in Seq(STRING)
    /\ N \in Nat \ {0}
    /\ MaxSections \in Nat /\ MaxTotal \in Nat /\ MaxDepth \in Nat
    /\ Nobody \notin Threads

VARIABLES
    action,    \* the disposition of a signal: the application's, or ours
    table,     \* bytesig_signal_array: Null, or the previous disposition
    init_lock, \* the lock of bytesig_init
    tids,      \* tids[s][i]: the thread in slot i of the table of s
    jbufs,     \* jbufs[s][i]: the section the handler jumps to
    thread,    \* thread[t]: control point and local variables
    sections,  \* sections[t]: the open sections of t, the innermost last
    begun      \* begun[t]: how many sections t has begun

vars == <<action, table, init_lock, tids, jbufs, thread, sections, begun>>
tablevars == <<action, table, init_lock>>

Sigs == {Signums[k] : k \in DOMAIN Signums}
Slots == 1..N

\* No local variable of bytesig_*() is alive.
Running(leaked) == [pc |-> "run", k |-> 1, j |-> 1, sig |-> Null, prev |-> Null,
                    to |-> "exit", leaked |-> leaked]

Init ==
    /\ action = [s \in Sigs |-> Theirs]
    /\ table = [s \in Sigs |-> Null]
    /\ init_lock = Nobody
    /\ tids = [s \in Sigs |-> [i \in Slots |-> Nobody]]
    /\ jbufs = [s \in Sigs |-> [i \in Slots |-> NoBuffer]]
    /\ thread = [t \in Threads |-> Running(FALSE)]
    /\ sections = [t \in Threads |-> <<>>]
    /\ begun = [t \in Threads |-> 0]

\* The process has not been ended by a fault.
Alive == \A t \in Threads : thread[t].pc \notin {"killed", "wild", "no table"}

At(t, where) == Alive /\ thread[t].pc = where
Goto(t, where) == thread' = [thread EXCEPT ![t].pc = where]
Run(t) == thread' = [thread EXCEPT ![t] = Running(@.leaked)]

InSection(t) == sections[t] # <<>>
Top(t) == Last(sections[t])
Buffer(t, d) == <<t, sections[t][d].n>>
Own(t, s) == {i \in Slots : tids[s][i] = t}
First(S) == CHOOSE i \in S : \A j \in S : i <= j
-----------------------------------------------------------------------------
(* bytesig_init *)

\* shadowhook_init: in this order, and not the next one if one fails.
InitBegin(t) == \E k \in DOMAIN Signums :
    /\ At(t, "run") /\ ~InSection(t)
    /\ table[Signums[k]] = Null /\ \A j \in 1..(k - 1) : table[Signums[j]] # Null
    /\ thread' = [thread EXCEPT ![t].pc = "init", ![t].sig = Signums[k]]
    /\ UNCHANGED <<tablevars, tids, jbufs, sections, begun>>

\* Mutant: the array is not looked at again with the lock held.
InitLock_Mutant(t) ==
    /\ At(t, "init") /\ init_lock = Nobody
    /\ Goto(t, "register") /\ init_lock' = t
    /\ UNCHANGED <<action, table, tids, jbufs, sections, begun>>

InitLock(t) ==
    /\ At(t, "init") /\ init_lock = Nobody
    /\ IF table[thread[t].sig] # Null
       THEN Run(t) /\ UNCHANGED init_lock
       ELSE Goto(t, "register") /\ init_lock' = t
    /\ UNCHANGED <<action, table, tids, jbufs, sections, begun>>

\* No memory, or sigaction fails.
InitFails(t) ==
    /\ At(t, "register")
    /\ Run(t)
    /\ init_lock' = Nobody
    /\ UNCHANGED <<action, table, tids, jbufs, sections, begun>>

Register(t) == LET s == thread[t].sig IN
    /\ At(t, "register")
    /\ action' = [action EXCEPT ![s] = Ours]
    /\ thread' = [thread EXCEPT ![t].pc = "publish", ![t].prev = action[s]]
    /\ UNCHANGED <<table, init_lock, tids, jbufs, sections, begun>>

Publish(t) ==
    /\ At(t, "publish")
    /\ table' = [table EXCEPT ![thread[t].sig] = thread[t].prev]
    /\ init_lock' = Nobody
    /\ Run(t)
    /\ UNCHANGED <<action, tids, jbufs, sections, begun>>
-----------------------------------------------------------------------------
(* BYTESIG_TRY and bytesig_protect *)

Total == FoldFunction(+, 0, begun)

\* "nested": a section inside this one has ended, which releases the slot.
\* "ready" and "clean" are what it found: the signals that have a table, and
\* whether the thread had left a section by a return statement.
Begin(t) ==
    /\ At(t, "run")
    /\ begun[t] < MaxSections /\ Total < MaxTotal /\ Len(sections[t]) < MaxDepth
    /\ begun' = [begun EXCEPT ![t] = @ + 1]
    /\ sections' = [sections EXCEPT ![t] = Append(@,
           [n |-> begun[t] + 1, protected |-> TRUE, nested |-> FALSE,
            ready |-> {s \in Sigs : table[s] # Null}, clean |-> ~thread[t].leaked])]
    /\ thread' = [thread EXCEPT ![t].pc = "protect"]
    /\ UNCHANGED <<tablevars, tids, jbufs>>

Sig(t) == Signums[thread[t].k]
Working(t, where) == At(t, where) /\ thread[t].k <= Len(Signums)

\* No table, or the thread has a slot: on to the next signal.
Repeated(t) ==
    /\ Working(t, "protect")
    /\ table[Sig(t)] = Null \/ Own(t, Sig(t)) # {}
    /\ thread' = [thread EXCEPT ![t].k = @ + 1]
    /\ UNCHANGED <<tablevars, tids, jbufs, sections, begun>>

NextSlot(t) == (thread[t].j % N) + 1

TestSlot(t) ==
    /\ Working(t, "protect")
    /\ table[Sig(t)] # Null /\ Own(t, Sig(t)) = {}
    /\ thread' = IF tids[Sig(t)][thread[t].j] = Nobody
                 THEN [thread EXCEPT ![t].pc = "claim"]
                 ELSE [thread EXCEPT ![t].j = NextSlot(t)]
    /\ UNCHANGED <<tablevars, tids, jbufs, sections, begun>>

\* Mutant: a plain store instead of the compare-and-exchange.
ClaimSlot_Mutant(t) ==
    /\ At(t, "claim")
    /\ tids' = [tids EXCEPT ![Sig(t)][thread[t].j] = t]
    /\ Goto(t, "save")
    /\ UNCHANGED <<tablevars, jbufs, sections, begun>>

\* The compare-and-exchange succeeds ...
ClaimSlot(t) ==
    /\ At(t, "claim")
    /\ tids[Sig(t)][thread[t].j] = Nobody
    /\ tids' = [tids EXCEPT ![Sig(t)][thread[t].j] = t]
    /\ Goto(t, "save")
    /\ UNCHANGED <<tablevars, jbufs, sections, begun>>

\* ... or another thread was faster.
MissSlot(t) ==
    /\ At(t, "claim")
    /\ tids[Sig(t)][thread[t].j] # Nobody
    /\ thread' = [thread EXCEPT ![t].pc = "protect", ![t].j = NextSlot(t)]
    /\ UNCHANGED <<tablevars, tids, jbufs, sections, begun>>

SaveBuffer(t) ==
    /\ At(t, "save")
    /\ jbufs' = [jbufs EXCEPT ![Sig(t)][thread[t].j] = Buffer(t, Len(sections[t]))]
    /\ thread' = [thread EXCEPT ![t].pc = "protect", ![t].k = @ + 1, ![t].j = 1]
    /\ UNCHANGED <<tablevars, tids, sections, begun>>

\* sigsetjmp returns 0, and the body runs.
SetJmp(t) ==
    /\ At(t, "protect") /\ thread[t].k > Len(Signums)
    /\ Run(t)
    /\ UNCHANGED <<tablevars, tids, jbufs, sections, begun>>
-----------------------------------------------------------------------------
(* bytesig_unprotect, BYTESIG_CATCH and BYTESIG_EXIT *)

\* The innermost section is gone; the one around it is marked.
Popped(open) == LET outer == Front(open) IN
    IF outer = <<>> THEN outer ELSE [outer EXCEPT ![Len(outer)].nested = TRUE]

Exit(t) ==
    /\ At(t, "run") /\ InSection(t)
    /\ IF Top(t).protected
       THEN /\ thread' = [thread EXCEPT ![t].pc = "unprotect", ![t].to = "exit"]
            /\ UNCHANGED sections
       ELSE sections' = [sections EXCEPT ![t] = Popped(@)] /\ UNCHANGED thread
    /\ UNCHANGED <<tablevars, tids, jbufs, begun>>

\* A return statement in the body skips BYTESIG_EXIT.
Return(t) ==
    /\ At(t, "run") /\ InSection(t) /\ Top(t).protected
    /\ sections' = [sections EXCEPT ![t] = IF Top(t).nested THEN Popped(@) ELSE Front(@)]
    /\ thread' = [thread EXCEPT ![t].leaked = TRUE]
    /\ UNCHANGED <<tablevars, tids, jbufs, begun>>

NotMine(t) ==
    /\ Working(t, "unprotect")
    /\ table[Sig(t)] = Null \/ Own(t, Sig(t)) = {}
    /\ thread' = [thread EXCEPT ![t].k = @ + 1]
    /\ UNCHANGED <<tablevars, tids, jbufs, sections, begun>>

\* Mutant: the first slot is released, whoever has it.
ClearBuffer_Mutant(t) == LET i == First(Slots) IN
    /\ Working(t, "unprotect")
    /\ table[Sig(t)] # Null
    /\ jbufs' = [jbufs EXCEPT ![Sig(t)][i] = NoBuffer]
    /\ thread' = [thread EXCEPT ![t].pc = "release", ![t].j = i]
    /\ UNCHANGED <<tablevars, tids, sections, begun>>

ClearBuffer(t) == LET i == First(Own(t, Sig(t))) IN
    /\ Working(t, "unprotect")
    /\ table[Sig(t)] # Null /\ Own(t, Sig(t)) # {}
    /\ jbufs' = [jbufs EXCEPT ![Sig(t)][i] = NoBuffer]
    /\ thread' = [thread EXCEPT ![t].pc = "release", ![t].j = i]
    /\ UNCHANGED <<tablevars, tids, sections, begun>>

\* Mutant: the buffer is cleared, but the thread id is not.
Release_Mutant(t) ==
    /\ At(t, "release")
    /\ thread' = [thread EXCEPT ![t].pc = "unprotect", ![t].k = @ + 1, ![t].j = 1]
    /\ UNCHANGED <<tablevars, tids, jbufs, sections, begun>>

Release(t) ==
    /\ At(t, "release")
    /\ tids' = [tids EXCEPT ![Sig(t)][thread[t].j] = Nobody]
    /\ thread' = [thread EXCEPT ![t].pc = "unprotect", ![t].k = @ + 1, ![t].j = 1]
    /\ UNCHANGED <<tablevars, jbufs, sections, begun>>

\* On with the code of BYTESIG_CATCH, or behind BYTESIG_EXIT.
Unprotected(t) ==
    /\ At(t, "unprotect") /\ thread[t].k > Len(Signums)
    /\ thread' = [thread EXCEPT ![t] = Running(FALSE)]
    /\ sections' = [sections EXCEPT ![t] =
           IF thread[t].to = "exit" THEN Popped(@)
           ELSE [@ EXCEPT ![Len(@)].protected = FALSE]]
    /\ UNCHANGED <<tablevars, tids, jbufs, begun>>
-----------------------------------------------------------------------------
(* bytesig_handler *)

\* Before we registered, the handler of the application is called as ever.
Fault(t, s) ==
    /\ At(t, "run") /\ action[s] = Ours
    /\ thread' = [thread EXCEPT ![t].pc = "handler", ![t].sig = s]
    /\ UNCHANGED <<tablevars, tids, jbufs, sections, begun>>

\* The handler is registered before its table is in the array.
HandlerNoTable(t) ==
    /\ At(t, "handler") /\ table[thread[t].sig] = Null
    /\ Goto(t, "no table")
    /\ UNCHANGED <<tablevars, tids, jbufs, sections, begun>>

Target(t) == jbufs[thread[t].sig][First(Own(t, thread[t].sig))]
Jumps(t) ==
    /\ At(t, "handler") /\ table[thread[t].sig] # Null
    /\ Own(t, thread[t].sig) # {}

\* The sections inside the target are gone.  One without BYTESIG_CATCH ends.
HandlerJump(t) == \E d \in DOMAIN sections[t], to \in {"catch", "exit"} :
    /\ Jumps(t) /\ Target(t) = Buffer(t, d)
    /\ sections' = [sections EXCEPT ![t] = SubSeq(@, 1, d)]
    /\ thread' = [thread EXCEPT ![t].pc = "unprotect", ![t].to = to]
    /\ UNCHANGED <<tablevars, tids, jbufs, begun>>

\* The buffer is NULL, or in a stack frame that does not exist any more.
HandlerWild(t) ==
    /\ Jumps(t) /\ \A d \in DOMAIN sections[t] : Target(t) # Buffer(t, d)
    /\ Goto(t, "wild")
    /\ UNCHANGED <<tablevars, tids, jbufs, sections, begun>>

\* The previous handler ends the process, or mends what was wrong.
HandlerPass(t) ==
    /\ At(t, "handler") /\ table[thread[t].sig] # Null
    /\ Own(t, thread[t].sig) = {}
    /\ Run(t) \/ Goto(t, "killed")
    /\ UNCHANGED <<tablevars, tids, jbufs, sections, begun>>
-----------------------------------------------------------------------------
\* The steps a thread takes once it has begun something.
Step(t) ==
    \/ InitLock(t) \/ InitFails(t) \/ Register(t) \/ Publish(t)
    \/ Repeated(t) \/ TestSlot(t) \/ ClaimSlot(t) \/ MissSlot(t)
    \/ SaveBuffer(t) \/ SetJmp(t)
    \/ NotMine(t) \/ ClearBuffer(t) \/ Release(t) \/ Unprotected(t)
    \/ HandlerNoTable(t) \/ HandlerJump(t) \/ HandlerWild(t) \/ HandlerPass(t)

Next == \E t \in Threads :
    \/ InitBegin(t) \/ Begin(t) \/ Exit(t) \/ Return(t) \/ Step(t)
    \/ \E s \in Sigs : Fault(t, s)

Spec == Init /\ [][Next]_vars

\* Threads go on, and a body ends, however often it faults and the previous
\* handler mends it.  Nothing forces a section, a fault or a return.
FairSpec == Spec /\ \A t \in Threads : WF_vars(Step(t)) /\ SF_vars(Exit(t))
-----------------------------------------------------------------------------
Sections == [n : 1..MaxSections, protected : BOOLEAN, nested : BOOLEAN,
             ready : SUBSET Sigs, clean : BOOLEAN]

Points == {"run", "init", "register", "publish", "protect", "claim", "save",
           "unprotect", "release", "handler", "killed", "wild", "no table"}

ThreadStates == [pc : Points, k : 1..(Len(Signums) + 1), j : Slots,
                 sig : Sigs \cup {Null}, prev : {Null, Theirs, Ours},
                 to : {"exit", "catch"}, leaked : BOOLEAN]

\* Types of the tables and of the threads' variables.
TypeOK ==
    /\ action \in [Sigs -> {Theirs, Ours}]
    /\ table \in [Sigs -> {Null, Theirs, Ours}]
    /\ init_lock \in Threads \cup {Nobody}
    /\ tids \in [Sigs -> [Slots -> Threads \cup {Nobody}]]
    /\ jbufs \in [Sigs -> [Slots -> (Threads \X (1..MaxSections)) \cup {NoBuffer}]]
    /\ thread \in [Threads -> ThreadStates]
    /\ sections \in [Threads -> Seq(Sections)]
    /\ begun \in [Threads -> 0..MaxSections]

\* A fault in the body of a section is caught by an open section of the same
\* thread, whatever the other threads claim and release meanwhile -- unless
\* the signal had no table when the section began, a section inside it has
\* ended (and released the thread's slot), or it began after one that was
\* left by a return statement.
FaultsAreCaught == \A t \in Threads : \A s \in Sigs :
    /\ thread[t].pc \in {"run", "handler"} /\ InSection(t)
    /\ Top(t).protected /\ Top(t).clean /\ ~Top(t).nested /\ s \in Top(t).ready
    => \E i \in Slots, d \in DOMAIN sections[t] :
           tids[s][i] = t /\ jbufs[s][i] = Buffer(t, d)

\* The handler jumps to a buffer of an open section, never to one another
\* thread cleared, replaced or freed, unless the thread itself has left a
\* section by a return statement and not ended another one since.
JumpsAreSound == \A t \in Threads : thread[t].pc = "wild" => thread[t].leaked

\* The handler never becomes its own predecessor, which would call itself
\* for ever: bytesig_init registers once per signal.
PreviousIsTheirs == \A s \in Sigs : table[s] # Ours

Searching(t) == thread[t].pc \in {"protect", "claim", "save"}

\* Some thread keeps a slot without a section, or has skipped a signal.
Disorder == \E t \in Threads :
    \/ thread[t].leaked
    \/ \E d \in DOMAIN sections[t] : sections[t][d].ready # Sigs

\* A thread that spins for a slot, the tables being full, gets one when others
\* end their sections: no two threads hold a slot of one signal and wait for
\* one of the other.  Not promised after a section was left by a return
\* statement, or began before every signal had its table.
ProtectEnds == \A t \in Threads :
    Searching(t) ~> (~Searching(t) \/ ~Alive \/ Disorder)

=============================================================================
