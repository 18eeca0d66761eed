----------------------------- MODULE ActPromise -----------------------------
(***************************************************************************)
(* What a requester may rely on, without the queue: a persona act is asked *)
(* for, carried out at most once, and settled once.  An act is settled     *)
(* EXPIRED or CANCELLED only if it was never carried out, and DONE only if *)
(* it was.  FAILED is the one answer that may come before the fact: the    *)
(* runner was given up for lost ("outcome unknown") and may yet act.       *)
(***************************************************************************)
EXTENDS Naturals

CONSTANT Acts

VARIABLES fate,    \* "unasked", "open", or the settled outcome
          times    \* how often the act was carried out

Settled == {"DONE", "REFUSED", "FAILED", "EXPIRED", "CANCELLED"}

Init == /\ fate = [a \in Acts |-> "unasked"]
        /\ times = [a \in Acts |-> 0]

Ask(a) == /\ fate[a] = "unasked"
          /\ fate' = [fate EXCEPT ![a] = "open"]
          /\ UNCHANGED times

CarryOut(a) == /\ fate[a] \in {"open", "FAILED"} /\ times[a] = 0
               /\ times' = [times EXCEPT ![a] = 1]
               /\ UNCHANGED fate

\* One statement of a sweep settles several acts alike.
Settle(S, s) ==
    /\ \A a \in S : /\ fate[a] = "open"
                    /\ s \in {"EXPIRED", "CANCELLED"} => times[a] = 0
                    /\ s = "DONE" => times[a] = 1
    /\ fate' = [a \in Acts |-> IF a \in S THEN s ELSE fate[a]]
    /\ UNCHANGED times

Next == \/ \E a \in Acts : Ask(a) \/ CarryOut(a)
        \/ \E S \in SUBSET Acts, s \in Settled : Settle(S, s)

Spec == Init /\ [][Next]_<<fate, times>>
=============================================================================
