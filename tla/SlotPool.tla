------------------------------ MODULE SlotPool ------------------------------
(***************************************************************************)
(* What a trampoline manager promises to sh_hub, sh_enter and sh_exit: a   *)
(* pool of memory slots.  A slot is granted to one owner at a time, and a  *)
(* slot that was released is not granted again until more than Delay       *)
(* seconds have passed, because a thread may still be executing in it.     *)
(***************************************************************************)
EXTENDS Integers

CONSTANTS
    Slots,      \* the slots of the pool
    Delay       \* seconds a released slot is kept out of use

VARIABLES
    clock,      \* wall clock, in seconds
    owners,     \* owners[s]: how many owners slot s has been granted to
    released    \* released[s]: when s was last released, or Never

poolVars == <<clock, owners, released>>

\* No slot has been released yet.
Never == -1

\* Nobody can still be executing in slot s.
Cool(s) == \/ released[s] = Never
           \/ Delay = 0
           \/ clock - released[s] > Delay

Init ==
    /\ clock \in Nat
    /\ owners = [s \in Slots |-> 0]
    /\ released = [s \in Slots |-> Never]

Grant(s) ==
    /\ owners[s] = 0
    /\ Cool(s)
    /\ owners' = [owners EXCEPT ![s] = 1]
    /\ UNCHANGED <<clock, released>>

Release(s) ==
    /\ owners[s] = 1
    /\ owners' = [owners EXCEPT ![s] = 0]
    /\ released' = [released EXCEPT ![s] = clock]
    /\ UNCHANGED clock

Tick ==
    /\ clock' = clock + 1
    /\ UNCHANGED <<owners, released>>

Next == Tick \/ \E s \in Slots : Grant(s) \/ Release(s)

Spec == Init /\ [][Next]_poolVars
=============================================================================
