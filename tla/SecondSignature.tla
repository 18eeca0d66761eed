-------------------------- MODULE SecondSignature --------------------------
(***************************************************************************)
(* What a second signature promises, without the requests, the routes and  *)
(* the clocks: a ticket is signed once by somebody and used at most once,  *)
(* and the switch goes off only with a ticket asked for while it was on.   *)
(***************************************************************************)
EXTENDS Naturals

CONSTANTS Tickets, Eras

VARIABLES
    ticket,  \* how far each ticket has got
    era,     \* for a ticket about the switch, the era it was asked in
    on,      \* the switch
    now      \* the switch's era: moves with every change of it

vars == <<ticket, era, on, now>>

Init == /\ ticket = [t \in Tickets |-> "none"]
        /\ era = [t \in Tickets |-> 0]
        /\ on = FALSE
        /\ now = 0

Move(t, from, to) == ticket[t] = from /\ ticket' = [ticket EXCEPT ![t] = to]

Ask(t) == /\ Move(t, "none", "asked")
          /\ \E e \in Eras : e <= now /\ era' = [era EXCEPT ![t] = e]
          /\ UNCHANGED <<on, now>>

Sign(t) == Move(t, "asked", "signed") /\ UNCHANGED <<era, on, now>>
Kill(t) == Move(t, "asked", "dead") /\ UNCHANGED <<era, on, now>>
Use(t)  == Move(t, "signed", "used") /\ UNCHANGED <<era, on, now>>

SwitchOff(t) == /\ on /\ era[t] = now
                /\ Move(t, "signed", "used")
                /\ on' = FALSE /\ now' = now + 1
                /\ UNCHANGED era

SwitchOn == ~on /\ on' = TRUE /\ now' = now + 1 /\ UNCHANGED <<ticket, era>>

Next == \/ \E t \in Tickets : Ask(t) \/ Sign(t) \/ Kill(t) \/ Use(t) \/ SwitchOff(t)
        \/ SwitchOn

Spec == Init /\ [][Next]_vars
=============================================================================
