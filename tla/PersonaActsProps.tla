-------------------------- MODULE PersonaActsProps --------------------------
(* What the persona act queue promises. *)
EXTENDS PersonaActs

Working   == {"recheck", "execute", "acting", "requeue", "finish"}
Untouched == {"recheck", "execute", "acting", "requeue"}   \* nothing sent yet

Places == {"idle", "twin", "dead", "sweepPending", "sweepRunning", "sweepAudit", "insert",
           "queuedAudit", "answered", "cancel", "finishAudit", "claim"} \cup Working

RowTypes ==
    /\ st \in [Acts -> {"NONE"} \cup Live \cup Finished]
    /\ key \in [Acts -> Keys \cup {NoKey}]
    /\ age \in [Acts -> 0..TTL]
    /\ hold \in [Acts -> Int]
    /\ run \in [Acts -> 0..(Stale + 1)]

HistTypes ==
    /\ ended \subseteq Acts /\ queued \subseteq Acts /\ cut \subseteq ended
    /\ effect \in [Acts -> Nat]
    /\ lock \in [Personas -> Procs \cup {Poller, NoOne}]
    /\ logged \in [Acts -> Seq(Finished)]
    /\ crashes \in Nat

LocalTypes ==
    /\ pc \in [Procs -> Places]
    /\ job \in [Procs -> Acts \cup {NoAct}]
    /\ ask \in [Procs -> Keys \cup {NoKey}]
    /\ attempt \in [Procs -> {1, 2}]
    /\ out \in [Procs -> Outcome]
    /\ todo \in [Procs -> SUBSET (Acts \X Finished)]

TypeOK == RowTypes /\ HistTypes /\ LocalTypes

\* A double click is one act: whatever submits, sweeps, requeues and late
\* runners interleave, no two live rows answer the same ask.
OneLivePerKey ==
    \A a, b \in Acts : st[a] \in Live /\ st[b] \in Live /\ key[a] = key[b] => a = b

\* An act is carried out at most once, for good: not by a second collector,
\* not after a crash left it RUNNING, not after a busy persona sent it back.
AtMostOnce == \A a \in Acts : effect[a] <= 1

\* What the requester is told of an act that was not run is true: "cancelled
\* before the collector ran it", "did not start this act", and DONE is done.
OutcomeIsTrue ==
    \A a \in Acts : /\ st[a] \in {"PENDING", "EXPIRED", "CANCELLED"} => effect[a] = 0
                    /\ st[a] = "DONE" => effect[a] = 1

\* No two contradicting outcome events on one act: at most one is ever
\* written, and it says what the row says.
AuditAgrees ==
    \A a \in Acts : logged[a] # <<>> => st[a] \in Finished /\ logged[a] = <<st[a]>>

\* Two processes never act as one persona at the same time, even when a
\* runner that outlived STALE_S comes back while its act's twin runs.
OnePersonaOneRunner ==
    \A p, q \in Procs :
        pc[p] = "acting" /\ pc[q] = "acting" /\ PersonaFor(p) = PersonaFor(q) => p = q

\* An act whose session ended while it waited in the queue is never run by a
\* collector, not even after a busy persona sent it back.
NotRunForAnEndedSession ==
    ~Inline => \A a \in cut : effect[a] = 0

\* A finished act is a record and never changes.
FinishedIsFinal ==
    [][\A a \in Acts : st[a] \in Finished => st'[a] = st[a]]_vars

\* With a collector running, no queued act is left without an outcome.
EveryActFinishes == \A a \in Acts : st[a] = "PENDING" ~> st[a] \in Finished

\* "The acts' outcomes are also in the audit log": once nobody is about to
\* write it, a finished act has its outcome event.  A death between the two
\* breaks it; no run checks it.
EveryOutcomeAudited ==
    \A a \in Acts :
        st[a] \in Finished /\ (\A p \in Procs : \A e \in todo[p] : e[1] # a)
            => logged[a] # <<>>

-----------------------------------------------------------------------------
(* The queue implements the promise made without it. *)

Fate == [a \in Acts |-> IF st[a] = "NONE" THEN "unasked"
                        ELSE IF st[a] \in Live THEN "open" ELSE st[a]]

Promise == INSTANCE ActPromise WITH fate <- Fate, times <- effect

\* Every step of the queue, the collectors and the requests is a step the
\* requester was promised, or one the requester cannot see.
KeepsThePromise == Promise!Spec

-----------------------------------------------------------------------------
(* The inductive invariant behind the properties above *)

Held(p, a) == pc[p] \in Working /\ job[p] = a

\* A process that names an act names one that was inserted.
JobInv == \A p \in Procs :
    pc[p] \in Working \cup {"answered", "cancel", "queuedAudit"}
        => job[p] \in Acts /\ st[job[p]] # "NONE"

\* Only a claim makes a holder, of a row nobody holds; a holder that lost its
\* row lost it to the sweep, which says FAILED.
HolderInv ==
    /\ \A p \in Procs, a \in Acts : Held(p, a) => st[a] \in {"RUNNING", "FAILED"}
    /\ \A p, q \in Procs, a \in Acts : Held(p, a) /\ Held(q, a) => p = q

EffectInv ==
    /\ \A a \in Acts : st[a] \in {"NONE", "PENDING", "EXPIRED", "CANCELLED"} => effect[a] = 0
    /\ \A a \in Acts : st[a] = "DONE" => effect[a] = 1
    /\ \A p \in Procs : pc[p] \in Untouched => effect[job[p]] = 0
    /\ \A p \in Procs : pc[p] = "finish" /\ out[p] = "DONE" => effect[job[p]] = 1

\* An event somebody has still to write is owed once, by one process, and
\* agrees with the row.
AuditInv ==
    /\ \A a \in Acts : logged[a] = <<>> \/ (st[a] \in Finished /\ logged[a] = <<st[a]>>)
    /\ \A p \in Procs : \A e \in todo[p] :
          st[e[1]] \in Finished /\ e[2] = st[e[1]] /\ logged[e[1]] = <<>>
    /\ \A p, q \in Procs : \A e \in todo[p], f \in todo[q] : e[1] = f[1] => p = q

LockInv == \A p \in Procs : pc[p] = "acting" => lock[PersonaFor(p)] = p

CutInv == ~Inline => \A a \in cut :
    /\ effect[a] = 0
    /\ \A p \in Procs : Held(p, a) => pc[p] \in {"recheck", "finish"}

Submitting(p) == \/ pc[p] \in {"twin", "dead", "insert"}
                 \/ p \in Clients /\ pc[p] \in {"sweepPending", "sweepRunning", "sweepAudit"}

KeyInv == /\ \A a \in Acts : st[a] # "NONE" => key[a] \in Keys
          /\ \A p \in Procs : Submitting(p) => ask[p] \in Keys

IInv == /\ TypeOK /\ JobInv /\ KeyInv /\ HolderInv /\ EffectInv /\ AtMostOnce
        /\ AuditInv /\ LockInv /\ CutInv /\ OneLivePerKey
=============================================================================
