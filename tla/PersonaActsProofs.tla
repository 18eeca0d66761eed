------------------------- MODULE PersonaActsProofs -------------------------
(***************************************************************************)
(* The safety of the persona act queue, for any number of acts, requests,  *)
(* collectors and deaths: IInv of PersonaActsProps is inductive, and the   *)
(* properties follow from it.  One lemma per kind of step; under each, one *)
(* step per part of IInv the step can disturb.                             *)
(***************************************************************************)
EXTENDS PersonaActsProps, TLAPS

USE DEF Live, Finished, Outcome, Working, Untouched

\* The initial queue is empty and nobody holds anything.
LEMMA InitIInv == Init => IInv
BY NullAssumption, ClockAssumption, ProcessAssumption
   DEF Init, IInv, TypeOK, RowTypes, HistTypes, LocalTypes, Places, JobInv, KeyInv, HolderInv, EffectInv, AtMostOnce, AuditInv,
       LockInv, CutInv, OneLivePerKey, Held, Submitting

\* A process that moves without holding an act, and writes no row, event,
\* effect or lock, disturbs nothing: the reads, the returns, the loop heads.
LEMMA QuietMove ==
    ASSUME IInv, TypeOK', NEW p \in Procs, NEW l, l \notin Working,
           pc' = [pc EXCEPT ![p] = l],
           \A q \in Procs : q # p => job'[q] = job[q] /\ ask'[q] = ask[q],
           (\/ l \in {"twin", "dead", "insert"}
            \/ p \in Clients /\ l \in {"sweepPending", "sweepRunning", "sweepAudit"})
                => ask'[p] \in Keys,
           l \in {"answered", "cancel", "queuedAudit"}
                => job'[p] \in Acts /\ st[job'[p]] # "NONE",
           out' = [out EXCEPT ![p] = out'[p]],
           UNCHANGED <<st, key, effect, logged, todo, cut, ended, lock>>
    PROVE  IInv'
<1>0. \A q \in Procs : pc'[q] = IF q = p THEN l ELSE pc[q]
  BY DEF IInv, TypeOK, RowTypes, HistTypes, LocalTypes
<1>1. JobInv'
  BY <1>0 DEF IInv, JobInv
<1>2. KeyInv'
  <2>1. ASSUME NEW q \in Procs, q # p, Submitting(q)' PROVE ask'[q] \in Keys
    BY <1>0, <2>1 DEF IInv, KeyInv, Submitting
  <2>2. ASSUME Submitting(p)' PROVE ask'[p] \in Keys
    BY <1>0, <2>2 DEF Submitting
  <2>3. QED
    BY <2>1, <2>2 DEF IInv, KeyInv
<1>3. HolderInv'
  BY <1>0 DEF IInv, HolderInv, Held
<1>4. EffectInv' /\ AtMostOnce'
  BY <1>0 DEF IInv, TypeOK, RowTypes, HistTypes, LocalTypes, EffectInv, AtMostOnce
<1>5. AuditInv'
  BY DEF IInv, AuditInv
<1>6. LockInv'
  BY <1>0 DEF IInv, LockInv, PersonaFor
<1>7. CutInv'
  BY <1>0 DEF IInv, CutInv, Held
<1>8. OneLivePerKey'
  BY DEF IInv, OneLivePerKey
<1>9. QED
  BY <1>1, <1>2, <1>3, <1>4, <1>5, <1>6, <1>7, <1>8 DEF IInv

\* Rows that an UPDATE settles: open ones, none of them held by another
\* process unless the outcome is FAILED, and none settled against its effect.
LEMMA SettleRows ==
    ASSUME IInv, TypeOK', NEW p \in Procs, NEW l, l \notin Working,
           l \notin {"answered", "cancel", "queuedAudit"},
           NEW S \in SUBSET Acts, NEW s \in Finished,
           st' = [a \in Acts |-> IF a \in S THEN s ELSE st[a]],
           \A q \in Procs : q # p => todo'[q] = todo[q],
           todo'[p] \subseteq todo[p] \cup (S \X {s}),
           pc' = [pc EXCEPT ![p] = l],
           p \in Clients /\ l \in {"sweepRunning", "sweepAudit"} => ask[p] \in Keys,
           l \notin {"twin", "dead", "insert", "sweepPending"},
           \A a \in S : st[a] \in Live,
           s \in {"EXPIRED", "CANCELLED"} => \A a \in S : st[a] = "PENDING",
           s = "DONE" => \A a \in S : effect[a] = 1,
           s # "FAILED" => \A a \in S : \A q \in Procs : q # p => ~Held(q, a),
           UNCHANGED <<key, job, ask, out, effect, logged, cut, ended, lock>>
    PROVE  IInv'
<1>0. /\ \A q \in Procs : pc'[q] = IF q = p THEN l ELSE pc[q]
      /\ \A a \in Acts : st'[a] = IF a \in S THEN s ELSE st[a]
  BY DEF IInv, TypeOK, RowTypes, LocalTypes
<1>1. JobInv'
  BY <1>0 DEF IInv, JobInv
<1>2. KeyInv'
  BY <1>0 DEF IInv, KeyInv, Submitting
<1>3. HolderInv'
  BY <1>0 DEF IInv, HolderInv, Held
<1>4. EffectInv'
  BY <1>0 DEF IInv, EffectInv
<1>5. AtMostOnce'
  BY DEF IInv, AtMostOnce
<1>6. AuditInv'
  <2>1. \A a \in S : logged[a] = <<>>
    BY DEF IInv, AuditInv
  <2>2. \A q \in Procs : \A e \in todo[q] : e[1] \in Acts /\ e[1] \notin S
    <3>1. \A q \in Procs : todo[q] \subseteq Acts \X Finished
      BY DEF IInv, TypeOK, RowTypes, HistTypes, LocalTypes
    <3>2. \A q \in Procs : \A e \in todo[q] : st[e[1]] \in Finished
      BY DEF IInv, AuditInv
    <3>3. QED
      BY <3>1, <3>2
  <2>0. \A q \in Procs : \A e \in todo'[q] : e \in todo[q] \/ (q = p /\ e[1] \in S /\ e[2] = s)
    OBVIOUS
  <2>3. \A a \in Acts : logged'[a] = <<>> \/ (st'[a] \in Finished /\ logged'[a] = <<st'[a]>>)
    BY <1>0, <2>1 DEF IInv, AuditInv
  <2>4. \A q \in Procs : \A e \in todo'[q] :
          st'[e[1]] \in Finished /\ e[2] = st'[e[1]] /\ logged'[e[1]] = <<>>
    BY <1>0, <2>0, <2>1, <2>2 DEF IInv, AuditInv
  <2>5. \A q, r \in Procs : \A e \in todo'[q], f \in todo'[r] : e[1] = f[1] => q = r
    BY <1>0, <2>0, <2>2 DEF IInv, AuditInv
  <2>6. QED
    BY <2>3, <2>4, <2>5 DEF AuditInv
<1>7. LockInv'
  BY <1>0 DEF IInv, LockInv, PersonaFor
<1>8. CutInv'
  BY <1>0 DEF IInv, CutInv, Held
<1>9. OneLivePerKey'
  BY <1>0 DEF IInv, OneLivePerKey
<1>10. QED
  BY <1>1, <1>2, <1>3, <1>4, <1>5, <1>6, <1>7, <1>8, <1>9 DEF IInv

\* Every step of Next keeps every variable in its type.
LEMMA TypeStep == TypeOK /\ JobInv /\ [Next]_vars => TypeOK'
<1> SUFFICES ASSUME TypeOK, JobInv, [Next]_vars PROVE TypeOK'
  OBVIOUS
<1> USE ClockAssumption, NullAssumption
<1>1. ASSUME NEW c \in Procs, NEW k \in Keys, Ask(c, k) PROVE TypeOK'
  <2>1. RowTypes'
    BY <1>1 DEF TypeOK, RowTypes, LocalTypes, Ask, Goto, rowVars, histVars
  <2>2. HistTypes'
    BY <1>1 DEF TypeOK, HistTypes, LocalTypes, Ask, Goto, rowVars, histVars
  <2>3. LocalTypes'
    BY <1>1 DEF TypeOK, LocalTypes, Places, Ask, Goto, rowVars, histVars
  <2>4. QED
    BY <2>1, <2>2, <2>3 DEF TypeOK
<1>2. ASSUME NEW c \in Procs, ReadTwin(c) PROVE TypeOK'
  <2>1. RowTypes'
    BY <1>2 DEF TypeOK, RowTypes, LocalTypes, ReadTwin, Goto, rowVars, histVars
  <2>2. HistTypes'
    BY <1>2 DEF TypeOK, HistTypes, LocalTypes, ReadTwin, Goto, rowVars, histVars
  <2>3. LocalTypes'
    BY <1>2 DEF TypeOK, LocalTypes, Places, ReadTwin, Goto, rowVars, histVars
  <2>4. QED
    BY <2>1, <2>2, <2>3 DEF TypeOK
<1>3. ASSUME NEW c \in Procs, ReadDeadTwin(c) PROVE TypeOK'
  <2>1. RowTypes'
    BY <1>3 DEF TypeOK, RowTypes, LocalTypes, ReadDeadTwin, Goto, rowVars, histVars
  <2>2. HistTypes'
    BY <1>3 DEF TypeOK, HistTypes, LocalTypes, ReadDeadTwin, Goto, rowVars, histVars
  <2>3. LocalTypes'
    BY <1>3 DEF TypeOK, LocalTypes, Places, ReadDeadTwin, Goto, rowVars, histVars
  <2>4. QED
    BY <2>1, <2>2, <2>3 DEF TypeOK
<1>4. ASSUME NEW c \in Procs, Insert(c) PROVE TypeOK'
  <2>1. RowTypes'
    BY <1>4 DEF TypeOK, RowTypes, LocalTypes, Insert, Goto, Leave, rowVars, histVars
  <2>2. HistTypes'
    BY <1>4 DEF TypeOK, HistTypes, LocalTypes, Insert, Goto, Leave, rowVars, histVars
  <2>3. LocalTypes'
    BY <1>4 DEF TypeOK, LocalTypes, Places, Insert, Goto, Leave, rowVars, histVars
  <2>4. QED
    BY <2>1, <2>2, <2>3 DEF TypeOK
<1>5. ASSUME NEW c \in Procs, AuditQueued(c) PROVE TypeOK'
  <2>1. RowTypes'
    BY <1>5 DEF TypeOK, RowTypes, LocalTypes, AuditQueued, JobInv, Goto, rowVars
  <2>2. HistTypes'
    BY <1>5 DEF TypeOK, HistTypes, LocalTypes, AuditQueued, JobInv, Goto, rowVars
  <2>3. LocalTypes'
    BY <1>5 DEF TypeOK, LocalTypes, Places, AuditQueued, JobInv, Goto, rowVars
  <2>4. QED
    BY <2>1, <2>2, <2>3 DEF TypeOK
<1>6. ASSUME NEW c \in Procs, Return(c) PROVE TypeOK'
  <2>1. RowTypes'
    BY <1>6 DEF TypeOK, RowTypes, LocalTypes, Return, Goto, Leave, rowVars, histVars
  <2>2. HistTypes'
    BY <1>6 DEF TypeOK, HistTypes, LocalTypes, Return, Goto, Leave, rowVars, histVars
  <2>3. LocalTypes'
    BY <1>6 DEF TypeOK, LocalTypes, Places, Return, Goto, Leave, rowVars, histVars
  <2>4. QED
    BY <2>1, <2>2, <2>3 DEF TypeOK
<1>7. ASSUME NEW c \in Procs, NEW a \in Acts, ReadForCancel(c, a) PROVE TypeOK'
  <2>1. RowTypes'
    BY <1>7 DEF TypeOK, RowTypes, LocalTypes, ReadForCancel, Goto, rowVars, histVars
  <2>2. HistTypes'
    BY <1>7 DEF TypeOK, HistTypes, LocalTypes, ReadForCancel, Goto, rowVars, histVars
  <2>3. LocalTypes'
    BY <1>7 DEF TypeOK, LocalTypes, Places, ReadForCancel, Goto, rowVars, histVars
  <2>4. QED
    BY <2>1, <2>2, <2>3 DEF TypeOK
<1>8. ASSUME NEW c \in Procs, Cancel(c) PROVE TypeOK'
  <2>1. RowTypes'
    BY <1>8 DEF TypeOK, RowTypes, LocalTypes, Cancel, JobInv, SetStatus, Goto, Leave, rowVars, histVars
  <2>2. HistTypes'
    BY <1>8 DEF TypeOK, HistTypes, LocalTypes, Cancel, JobInv, SetStatus, Goto, Leave, rowVars, histVars
  <2>3. LocalTypes'
    BY <1>8 DEF TypeOK, LocalTypes, Places, Cancel, JobInv, SetStatus, Goto, Leave, rowVars, histVars
  <2>4. QED
    BY <2>1, <2>2, <2>3 DEF TypeOK
<1>9. ASSUME NEW c \in Procs, SweepPending(c) PROVE TypeOK'
  <2>1. RowTypes'
    BY <1>9 DEF TypeOK, RowTypes, LocalTypes, SweepPending, SetStatus, Goto, histVars
  <2>2. HistTypes'
    BY <1>9 DEF TypeOK, HistTypes, LocalTypes, SweepPending, SetStatus, Goto, histVars
  <2>3. LocalTypes'
    BY <1>9 DEF TypeOK, LocalTypes, Places, SweepPending, SetStatus, Goto, histVars
  <2>4. QED
    BY <2>1, <2>2, <2>3 DEF TypeOK
<1>10. ASSUME NEW c \in Procs, SweepRunning(c) PROVE TypeOK'
  <2>1. RowTypes'
    BY <1>10 DEF TypeOK, RowTypes, LocalTypes, SweepRunning, OutcomeUnknown, SetStatus, Goto, histVars
  <2>2. HistTypes'
    BY <1>10 DEF TypeOK, HistTypes, LocalTypes, SweepRunning, OutcomeUnknown, SetStatus, Goto, histVars
  <2>3. LocalTypes'
    BY <1>10 DEF TypeOK, LocalTypes, Places, SweepRunning, OutcomeUnknown, SetStatus, Goto, histVars
  <2>4. QED
    BY <2>1, <2>2, <2>3 DEF TypeOK
<1>11. ASSUME NEW c \in Procs, WriteEvent(c) PROVE TypeOK'
  <2>1. RowTypes'
    BY <1>11 DEF TypeOK, RowTypes, LocalTypes, WriteEvent, rowVars
  <2>2. HistTypes'
    BY <1>11 DEF TypeOK, HistTypes, LocalTypes, WriteEvent, rowVars
  <2>3. LocalTypes'
    BY <1>11 DEF TypeOK, LocalTypes, Places, WriteEvent, rowVars
  <2>4. QED
    BY <2>1, <2>2, <2>3 DEF TypeOK
<1>12. ASSUME NEW c \in Procs, SweepDone(c) PROVE TypeOK'
  <2>1. RowTypes'
    BY <1>12 DEF TypeOK, RowTypes, LocalTypes, SweepDone, AfterSweep, Goto, rowVars, histVars
  <2>2. HistTypes'
    BY <1>12 DEF TypeOK, HistTypes, LocalTypes, SweepDone, AfterSweep, Goto, rowVars, histVars
  <2>3. LocalTypes'
    BY <1>12 DEF TypeOK, LocalTypes, Places, SweepDone, AfterSweep, Goto, rowVars, histVars
  <2>4. QED
    BY <2>1, <2>2, <2>3 DEF TypeOK
<1>13. ASSUME NEW c \in Procs, ActDone(c) PROVE TypeOK'
  <2>1. RowTypes'
    BY <1>13 DEF TypeOK, RowTypes, LocalTypes, ActDone, AfterAct, Goto, Leave, rowVars, histVars
  <2>2. HistTypes'
    BY <1>13 DEF TypeOK, HistTypes, LocalTypes, ActDone, AfterAct, Goto, Leave, rowVars, histVars
  <2>3. LocalTypes'
    BY <1>13 DEF TypeOK, LocalTypes, Places, ActDone, AfterAct, Goto, Leave, rowVars, histVars
  <2>4. QED
    BY <2>1, <2>2, <2>3 DEF TypeOK
<1>14. ASSUME NEW c \in Procs, BeginDrain(c) PROVE TypeOK'
  <2>1. RowTypes'
    BY <1>14 DEF TypeOK, RowTypes, LocalTypes, BeginDrain, Goto, rowVars, histVars
  <2>2. HistTypes'
    BY <1>14 DEF TypeOK, HistTypes, LocalTypes, BeginDrain, Goto, rowVars, histVars
  <2>3. LocalTypes'
    BY <1>14 DEF TypeOK, LocalTypes, Places, BeginDrain, Goto, rowVars, histVars
  <2>4. QED
    BY <2>1, <2>2, <2>3 DEF TypeOK
<1>15. ASSUME NEW c \in Procs, EndDrain(c) PROVE TypeOK'
  <2>1. RowTypes'
    BY <1>15 DEF TypeOK, RowTypes, LocalTypes, EndDrain, Goto, rowVars, histVars
  <2>2. HistTypes'
    BY <1>15 DEF TypeOK, HistTypes, LocalTypes, EndDrain, Goto, rowVars, histVars
  <2>3. LocalTypes'
    BY <1>15 DEF TypeOK, LocalTypes, Places, EndDrain, Goto, rowVars, histVars
  <2>4. QED
    BY <2>1, <2>2, <2>3 DEF TypeOK
<1>16. ASSUME NEW c \in Procs, ClaimNext(c) PROVE TypeOK'
  <2>1. RowTypes'
    BY <1>16 DEF TypeOK, RowTypes, LocalTypes, ClaimNext, Claim, Goto, histVars
  <2>2. HistTypes'
    BY <1>16 DEF TypeOK, HistTypes, LocalTypes, ClaimNext, Claim, Goto, histVars
  <2>3. LocalTypes'
    BY <1>16 DEF TypeOK, LocalTypes, Places, ClaimNext, Claim, Goto, histVars
  <2>4. QED
    BY <2>1, <2>2, <2>3 DEF TypeOK
<1>17. ASSUME NEW c \in Procs, ClaimOwn(c) PROVE TypeOK'
  <2>1. RowTypes'
    BY <1>17 DEF TypeOK, RowTypes, LocalTypes, ClaimOwn, JobInv, Claim, Goto, histVars
  <2>2. HistTypes'
    BY <1>17 DEF TypeOK, HistTypes, LocalTypes, ClaimOwn, JobInv, Claim, Goto, histVars
  <2>3. LocalTypes'
    BY <1>17 DEF TypeOK, LocalTypes, Places, ClaimOwn, JobInv, Claim, Goto, histVars
  <2>4. QED
    BY <2>1, <2>2, <2>3 DEF TypeOK
<1>18. ASSUME NEW c \in Procs, Recheck(c) PROVE TypeOK'
  <2>1. RowTypes'
    BY <1>18 DEF TypeOK, RowTypes, LocalTypes, Recheck, Decide, Goto, rowVars, histVars
  <2>2. HistTypes'
    BY <1>18 DEF TypeOK, HistTypes, LocalTypes, Recheck, Decide, Goto, rowVars, histVars
  <2>3. LocalTypes'
    BY <1>18 DEF TypeOK, LocalTypes, Places, Recheck, Decide, Goto, rowVars, histVars
  <2>4. QED
    BY <2>1, <2>2, <2>3 DEF TypeOK
<1>19. ASSUME NEW c \in Procs, TakePersona(c) PROVE TypeOK'
  <2>1. RowTypes'
    BY <1>19 DEF TypeOK, RowTypes, LocalTypes, TakePersona, Goto, rowVars, histVars
  <2>2. HistTypes'
    BY <1>19 DEF TypeOK, HistTypes, LocalTypes, TakePersona, Goto, rowVars, histVars
  <2>3. LocalTypes'
    BY <1>19 DEF TypeOK, LocalTypes, Places, TakePersona, Goto, rowVars, histVars
  <2>4. QED
    BY <2>1, <2>2, <2>3 DEF TypeOK
<1>20. ASSUME NEW c \in Procs, PersonaBusy(c) PROVE TypeOK'
  <2>1. RowTypes'
    BY <1>20 DEF TypeOK, RowTypes, LocalTypes, PersonaBusy, Decide, Goto, rowVars, histVars
  <2>2. HistTypes'
    BY <1>20 DEF TypeOK, HistTypes, LocalTypes, PersonaBusy, Decide, Goto, rowVars, histVars
  <2>3. LocalTypes'
    BY <1>20 DEF TypeOK, LocalTypes, Places, PersonaBusy, Decide, Goto, rowVars, histVars
  <2>4. QED
    BY <2>1, <2>2, <2>3 DEF TypeOK
<1>21. ASSUME NEW c \in Procs, Execute(c) PROVE TypeOK'
  <2>1. RowTypes'
    BY <1>21 DEF TypeOK, RowTypes, LocalTypes, Execute, Decide, Goto, rowVars
  <2>2. HistTypes'
    <3>1. /\ effect' = [effect EXCEPT ![job[c]] = @ + 1]
          /\ lock' = [lock EXCEPT ![PersonaFor(c)] = NoOne]
          /\ UNCHANGED <<logged, queued, cut, ended, crashes>>
      BY <1>21 DEF Execute
    <3>2. effect' \in [Acts -> Nat]
      <4>1. job[c] \in Acts
        BY <1>21 DEF Execute, JobInv
      <4>2. effect \in [Acts -> Nat] /\ effect[job[c]] + 1 \in Nat
        BY <4>1 DEF TypeOK, HistTypes
      <4>3. QED
        BY <3>1, <4>2
    <3>3. lock' \in [Personas -> Procs \cup {Poller, NoOne}]
      BY <3>1 DEF TypeOK, HistTypes
    <3>4. QED
      BY <3>1, <3>2, <3>3 DEF TypeOK, HistTypes
  <2>3. LocalTypes'
    BY <1>21 DEF TypeOK, LocalTypes, Places, Execute, Decide, Goto, rowVars
  <2>4. QED
    BY <2>1, <2>2, <2>3 DEF TypeOK
<1>22. ASSUME NEW c \in Procs, GateRefuses(c) PROVE TypeOK'
  <2>1. RowTypes'
    BY <1>22 DEF TypeOK, RowTypes, LocalTypes, GateRefuses, Decide, Goto, rowVars, histVars
  <2>2. HistTypes'
    BY <1>22 DEF TypeOK, HistTypes, LocalTypes, GateRefuses, Decide, Goto, rowVars, histVars
  <2>3. LocalTypes'
    BY <1>22 DEF TypeOK, LocalTypes, Places, GateRefuses, Decide, Goto, rowVars, histVars
  <2>4. QED
    BY <2>1, <2>2, <2>3 DEF TypeOK
<1>23. ASSUME NEW c \in Procs, Requeue(c) PROVE TypeOK'
  <2>1. RowTypes'
    BY <1>23 DEF TypeOK, RowTypes, LocalTypes, Requeue, JobInv, Goto, Leave, rowVars
  <2>2. HistTypes'
    BY <1>23 DEF TypeOK, HistTypes, LocalTypes, Requeue, JobInv, Goto, Leave, rowVars
  <2>3. LocalTypes'
    BY <1>23 DEF TypeOK, LocalTypes, Places, Requeue, JobInv, Goto, Leave, rowVars
  <2>4. QED
    BY <2>1, <2>2, <2>3 DEF TypeOK
<1>24. ASSUME NEW c \in Procs, Finish(c) PROVE TypeOK'
  <2>1. RowTypes'
    BY <1>24 DEF TypeOK, RowTypes, LocalTypes, Finish, JobInv, AfterAct, SetStatus, Goto, Leave, rowVars, histVars
  <2>2. HistTypes'
    BY <1>24 DEF TypeOK, HistTypes, LocalTypes, Finish, JobInv, AfterAct, SetStatus, Goto, Leave, rowVars, histVars
  <2>3. LocalTypes'
    BY <1>24 DEF TypeOK, LocalTypes, Places, Finish, JobInv, AfterAct, SetStatus, Goto, Leave, rowVars, histVars
  <2>4. QED
    BY <2>1, <2>2, <2>3 DEF TypeOK
<1>25. ASSUME NEW a \in Acts, EndSession(a) PROVE TypeOK'
  <2>1. RowTypes'
    BY <1>25 DEF TypeOK, RowTypes, LocalTypes, EndSession, rowVars, procVars
  <2>2. HistTypes'
    BY <1>25 DEF TypeOK, HistTypes, LocalTypes, EndSession, rowVars, procVars
  <2>3. LocalTypes'
    BY <1>25 DEF TypeOK, LocalTypes, Places, EndSession, rowVars, procVars
  <2>4. QED
    BY <2>1, <2>2, <2>3 DEF TypeOK
<1>26. ASSUME NEW x \in Personas, PollTakes(x) \/ PollReleases(x) PROVE TypeOK'
  <2>1. RowTypes'
    BY <1>26 DEF TypeOK, RowTypes, LocalTypes, PollTakes, PollReleases, rowVars, procVars, histVars
  <2>2. HistTypes'
    BY <1>26 DEF TypeOK, HistTypes, LocalTypes, PollTakes, PollReleases, rowVars, procVars, histVars
  <2>3. LocalTypes'
    BY <1>26 DEF TypeOK, LocalTypes, Places, PollTakes, PollReleases, rowVars, procVars, histVars
  <2>4. QED
    BY <2>1, <2>2, <2>3 DEF TypeOK
<1>27. ASSUME NEW c \in Procs, Crash(c) PROVE TypeOK'
  <2>1. RowTypes'
    BY <1>27 DEF TypeOK, RowTypes, LocalTypes, Crash, Goto, Leave, rowVars, histVars
  <2>2. HistTypes'
    BY <1>27 DEF TypeOK, HistTypes, LocalTypes, Crash, Goto, Leave, rowVars, histVars
  <2>3. LocalTypes'
    BY <1>27 DEF TypeOK, LocalTypes, Places, Crash, Goto, Leave, rowVars, histVars
  <2>4. QED
    BY <2>1, <2>2, <2>3 DEF TypeOK
<1>28. ASSUME Tick PROVE TypeOK'
  <2>1. RowTypes'
    BY <1>28 DEF TypeOK, RowTypes, LocalTypes, Tick, histVars, procVars
  <2>2. HistTypes'
    BY <1>28 DEF TypeOK, HistTypes, LocalTypes, Tick, histVars, procVars
  <2>3. LocalTypes'
    BY <1>28 DEF TypeOK, LocalTypes, Places, Tick, histVars, procVars
  <2>4. QED
    BY <2>1, <2>2, <2>3 DEF TypeOK
<1>29. ASSUME UNCHANGED vars PROVE TypeOK'
  BY <1>29 DEF TypeOK, RowTypes, HistTypes, LocalTypes, vars
<1>30. QED
  BY <1>1, <1>2, <1>3, <1>4, <1>5, <1>6, <1>7, <1>8, <1>9, <1>10, <1>11, <1>12, <1>13, <1>14, <1>15, <1>16, <1>17, <1>18, <1>19, <1>20, <1>21, <1>22, <1>23, <1>24, <1>25, <1>26, <1>27, <1>28, <1>29
     DEF Next, ClientStep, CollectorStep, Submit, CancelStep, Sweep, RunClaimed, Procs

\* A request asks, reads, inserts, answers and cancels.
LEMMA RequestSteps ==
    ASSUME IInv, TypeOK', NEW c \in Clients, Submit(c) \/ CancelStep(c)
    PROVE  IInv'
<1>0. c \in Procs /\ KeyInv /\ JobInv
  BY DEF Procs, IInv
<1>1. ASSUME NEW k \in Keys, Ask(c, k) PROVE IInv'
  <2>1. ask'[c] \in Keys
    BY <1>0, <1>1 DEF Ask, IInv, TypeOK, LocalTypes
  <2>2. QED
    BY <1>0, <1>1, <2>1, QuietMove DEF Ask, Goto, rowVars, histVars, IInv, TypeOK, LocalTypes
<1>2. ASSUME ReadTwin(c) PROVE IInv'
  <2>1. ask[c] \in Keys
    BY <1>0, <1>2 DEF ReadTwin, KeyInv, Submitting
  <2>2. CASE ~ \E a \in Acts : key[a] = ask[c] /\ LiveRow(a)
    <3>1. pc' = [pc EXCEPT ![c] = "dead"] /\ UNCHANGED job
      BY <1>2, <2>2 DEF ReadTwin, Goto
    <3>2. QED
      BY <1>0, <1>2, <2>1, <3>1, QuietMove
         DEF ReadTwin, rowVars, histVars, IInv, TypeOK, LocalTypes
  <2>3. CASE \E a \in Acts : key[a] = ask[c] /\ LiveRow(a)
    <3>1. PICK a \in Acts : LiveRow(a) /\ job' = [job EXCEPT ![c] = a] /\ Goto(c, "answered")
      BY <1>2, <2>3 DEF ReadTwin
    <3>2. job'[c] \in Acts /\ st[job'[c]] # "NONE"
      BY <1>0, <3>1 DEF LiveRow, IInv, TypeOK, LocalTypes
    <3>3. QED
      BY <1>0, <1>2, <3>1, <3>2, <2>1, QuietMove
         DEF ReadTwin, Goto, rowVars, histVars, IInv, TypeOK, LocalTypes
  <2>4. QED
    BY <2>2, <2>3
<1>3. ASSUME ReadDeadTwin(c) PROVE IInv'
  <2>1. ask[c] \in Keys
    BY <1>0, <1>3 DEF ReadDeadTwin, KeyInv, Submitting
  <2>2. PICK l \in {"sweepPending", "insert"} : pc' = [pc EXCEPT ![c] = l]
    BY <1>3 DEF ReadDeadTwin, Goto
  <2>3. QED
    BY <1>0, <1>3, <2>1, <2>2, QuietMove
       DEF ReadDeadTwin, rowVars, histVars, IInv, TypeOK, LocalTypes
<1>4. ASSUME Insert(c), \E a \in Acts : HoldsIndex(a, ask[c]) PROVE IInv'
  <2>1. ask[c] \in Keys
    BY <1>0, <1>4 DEF Insert, KeyInv, Submitting
  <2>2. CASE attempt[c] = 1
    BY <1>0, <1>4, <2>1, <2>2, QuietMove
       DEF Insert, Goto, rowVars, histVars, IInv, TypeOK, LocalTypes
  <2>3. CASE attempt[c] # 1
    BY <1>0, <1>4, <2>3, QuietMove
       DEF Insert, Leave, Goto, Submitting, rowVars, histVars, IInv, TypeOK, LocalTypes
  <2>4. QED
    BY <2>2, <2>3
<1>5. ASSUME Insert(c), ~ \E a \in Acts : HoldsIndex(a, ask[c]) PROVE IInv'
  <2>1. PICK a \in Acts : /\ st[a] = "NONE"
                          /\ st' = [st EXCEPT ![a] = "PENDING"]
                          /\ key' = [key EXCEPT ![a] = ask[c]]
                          /\ job' = [job EXCEPT ![c] = a]
                          /\ pc' = [pc EXCEPT ![c] = "queuedAudit"]
    BY <1>5 DEF Insert, Goto
  <2>2. UNCHANGED <<ask, out, effect, logged, cut, ended, lock, todo>>
    BY <1>5 DEF Insert, histVars
  <2>3. ask[c] \in Keys /\ \A b \in Acts : HoldsIndex(b, ask[c]) => FALSE
    BY <1>0, <1>5 DEF Insert, KeyInv, Submitting
  <2>4. /\ \A q \in Procs : pc'[q] = IF q = c THEN "queuedAudit" ELSE pc[q]
        /\ \A q \in Procs : job'[q] = IF q = c THEN a ELSE job[q]
        /\ \A b \in Acts : st'[b] = IF b = a THEN "PENDING" ELSE st[b]
        /\ \A b \in Acts : key'[b] = IF b = a THEN ask[c] ELSE key[b]
    BY <2>1 DEF IInv, TypeOK, LocalTypes, RowTypes
  <2>5. JobInv'
    BY <2>4 DEF IInv, JobInv
  <2>6. KeyInv'
    BY <2>2, <2>3, <2>4 DEF IInv, KeyInv, Submitting
  <2>7. HolderInv'
    BY <2>1, <2>4 DEF IInv, HolderInv, Held
  <2>8. EffectInv' /\ AtMostOnce'
    BY <1>0, <2>1, <2>2, <2>4 DEF IInv, EffectInv, AtMostOnce, JobInv
  <2>9. AuditInv'
    <3>1. \A q \in Procs : \A e \in todo[q] : e[1] # a
      BY <2>1 DEF IInv, AuditInv
    <3>2. QED
      BY <2>1, <2>2, <2>4, <3>1 DEF IInv, AuditInv
  <2>10. LockInv'
    <3>1. \A q \in Procs : pc[q] = "acting" => job[q] # a
      BY <1>0, <2>1 DEF JobInv
    <3>2. QED
      BY <1>0, <2>2, <2>4, <3>1 DEF IInv, LockInv, JobInv, PersonaFor
  <2>11. CutInv'
    BY <2>2, <2>4 DEF IInv, CutInv, Held
  <2>12. OneLivePerKey'
    BY <2>3, <2>4 DEF IInv, OneLivePerKey, HoldsIndex
  <2>13. QED
    BY <2>5, <2>6, <2>7, <2>8, <2>9, <2>10, <2>11, <2>12 DEF IInv
<1>6. ASSUME AuditQueued(c) PROVE IInv'
  BY <1>0, <1>6, QuietMove
     DEF AuditQueued, Goto, Submitting, JobInv, rowVars, IInv, TypeOK, LocalTypes
<1>7. ASSUME Return(c) PROVE IInv'
  BY <1>0, <1>7, QuietMove
     DEF Return, Leave, Goto, Submitting, rowVars, histVars, IInv, TypeOK, LocalTypes
<1>8. ASSUME NEW a \in Acts, ReadForCancel(c, a) PROVE IInv'
  BY <1>0, <1>8, QuietMove
     DEF ReadForCancel, Goto, Submitting, rowVars, histVars, IInv, TypeOK, LocalTypes
<1>9. ASSUME Cancel(c), ~MayCancel(job[c]) PROVE IInv'
  BY <1>0, <1>9, QuietMove
     DEF Cancel, Leave, Goto, Submitting, rowVars, histVars, IInv, TypeOK, LocalTypes
<1>10. ASSUME Cancel(c), MayCancel(job[c]) PROVE IInv'
  <2>1. job[c] \in Acts /\ st[job[c]] = "PENDING"
    BY <1>0, <1>10 DEF Cancel, MayCancel, JobInv
  <2>2. \A q \in Procs : ~Held(q, job[c])
    BY <2>1 DEF IInv, HolderInv
  <2>3. /\ \A q \in Procs : q # c => todo'[q] = todo[q]
        /\ todo'[c] \subseteq todo[c] \cup ({job[c]} \X {"CANCELLED"})
    BY <1>10 DEF Cancel, IInv, TypeOK, LocalTypes
  <2>4. /\ st' = [a \in Acts |-> IF a \in {job[c]} THEN "CANCELLED" ELSE st[a]]
        /\ pc' = [pc EXCEPT ![c] = "finishAudit"]
        /\ UNCHANGED <<key, job, ask, out, effect, logged, cut, ended, lock>>
    BY <1>10 DEF Cancel, SetStatus, Goto, histVars
  <2>5. PICK S \in SUBSET Acts : S = {job[c]}
    BY <2>1
  <2>6. /\ st' = [a \in Acts |-> IF a \in S THEN "CANCELLED" ELSE st[a]]
        /\ todo'[c] \subseteq todo[c] \cup (S \X {"CANCELLED"})
        /\ \A a \in S : st[a] = "PENDING"
        /\ \A a \in S : \A q \in Procs : q # c => ~Held(q, a)
    BY <2>1, <2>2, <2>3, <2>4, <2>5
  <2>7. QED
    BY <1>0, <2>3, <2>4, <2>6, SettleRows
<1>11. QED
  BY <1>1, <1>2, <1>3, <1>4, <1>5, <1>6, <1>7, <1>8, <1>9, <1>10 DEF Submit, CancelStep

\* A request or a collector sweeps, and any process writes an event it owes.
LEMMA SweepSteps ==
    ASSUME IInv, TypeOK', NEW p \in Procs, Sweep(p) \/ WriteEvent(p) \/ ActDone(p)
    PROVE  IInv'
<1>0. KeyInv /\ pc \in [Procs -> Places]
  BY DEF IInv, TypeOK, LocalTypes
<1>1. ASSUME SweepPending(p) PROVE IInv'
  <2>1. PICK S \in SUBSET Acts : S = {a \in Acts : st[a] = "PENDING" /\ Expired(a)}
    OBVIOUS
  <2>2. /\ st' = [a \in Acts |-> IF a \in S THEN "EXPIRED" ELSE st[a]]
        /\ pc' = [pc EXCEPT ![p] = "sweepRunning"]
        /\ todo' = [todo EXCEPT ![p] = S \X {"EXPIRED"}]
        /\ UNCHANGED <<key, job, ask, out, effect, logged, cut, ended, lock>>
    BY <1>1, <2>1 DEF SweepPending, SetStatus, Goto, histVars
  <2>3. /\ \A q \in Procs : q # p => todo'[q] = todo[q]
        /\ todo'[p] \subseteq todo[p] \cup (S \X {"EXPIRED"})
    BY <2>2 DEF IInv, TypeOK, LocalTypes
  <2>4. p \in Clients => ask[p] \in Keys
    BY <1>0, <1>1 DEF SweepPending, KeyInv, Submitting
  <2>5. \A a \in S : st[a] = "PENDING" /\ \A q \in Procs : ~Held(q, a)
    BY <2>1 DEF IInv, HolderInv
  <2>6. QED
    BY <2>2, <2>3, <2>4, <2>5, SettleRows
<1>2. ASSUME SweepRunning(p) PROVE IInv'
  <2>1. PICK S \in SUBSET Acts : S = {a \in Acts : st[a] = "RUNNING" /\ Lost(a)}
    OBVIOUS
  <2>2. /\ st' = [a \in Acts |-> IF a \in S THEN "FAILED" ELSE st[a]]
        /\ pc' = [pc EXCEPT ![p] = "sweepAudit"]
        /\ todo' = [todo EXCEPT ![p] = @ \cup (S \X {"FAILED"})]
        /\ UNCHANGED <<key, job, ask, out, effect, logged, cut, ended, lock>>
    BY <1>2, <2>1 DEF SweepRunning, OutcomeUnknown, SetStatus, Goto, histVars
  <2>3. /\ \A q \in Procs : q # p => todo'[q] = todo[q]
        /\ todo'[p] \subseteq todo[p] \cup (S \X {"FAILED"})
    BY <2>2 DEF IInv, TypeOK, LocalTypes
  <2>4. p \in Clients => ask[p] \in Keys
    BY <1>0, <1>2 DEF SweepRunning, KeyInv, Submitting
  <2>5. \A a \in S : st[a] = "RUNNING"
    BY <2>1
  <2>6. QED
    BY <2>2, <2>3, <2>4, <2>5, SettleRows
<1>3. ASSUME SweepDone(p) PROVE IInv'
  <2>1. PICK l \in {"insert", "claim"} :
          pc' = [pc EXCEPT ![p] = l] /\ (l = "insert" => p \in Clients)
    BY <1>3 DEF SweepDone, AfterSweep, Goto
  <2>2. p \in Clients => ask[p] \in Keys
    BY <1>0, <1>3 DEF SweepDone, KeyInv, Submitting
  <2>3. QED
    BY <1>3, <2>1, <2>2, QuietMove DEF SweepDone, rowVars, histVars, IInv, TypeOK, LocalTypes
<1>4. ASSUME ActDone(p) PROVE IInv'
  <2>1. PICK l \in {"idle", "claim"} : pc' = [pc EXCEPT ![p] = l]
    BY <1>4 DEF ActDone, AfterAct, Leave, Goto
  <2>2. /\ \A q \in Procs : q # p => job'[q] = job[q] /\ ask'[q] = ask[q]
        /\ out' = [out EXCEPT ![p] = out'[p]]
    BY <1>4 DEF ActDone, Leave, IInv, TypeOK, LocalTypes
  <2>3. UNCHANGED <<st, key, effect, logged, todo, cut, ended, lock>>
    BY <1>4 DEF ActDone, rowVars, histVars
  <2>4. QED
    BY <2>1, <2>2, <2>3, QuietMove
<1>5. ASSUME WriteEvent(p) PROVE IInv'
  <2>1. UNCHANGED <<rowVars, ended, lock, effect, queued, cut, pc, job, ask, out>>
    BY <1>5 DEF WriteEvent
  <2>2. JobInv' /\ KeyInv' /\ HolderInv' /\ EffectInv' /\ AtMostOnce'
    BY <2>1 DEF IInv, JobInv, KeyInv, Submitting, HolderInv, Held, EffectInv, AtMostOnce, rowVars
  <2>3. LockInv' /\ CutInv' /\ OneLivePerKey'
    BY <2>1 DEF IInv, LockInv, PersonaFor, CutInv, Held, OneLivePerKey, rowVars
  <2>4. AuditInv'
    <3>1. PICK e \in todo[p] : /\ logged' = [logged EXCEPT ![e[1]] = Append(@, e[2])]
                               /\ todo' = [todo EXCEPT ![p] = @ \ {e}]
      BY <1>5 DEF WriteEvent
    <3>2. /\ e[1] \in Acts /\ e[2] \in Finished
          /\ \A q \in Procs : todo[q] \subseteq Acts \X Finished
      BY DEF IInv, TypeOK, LocalTypes
    <3>3. st[e[1]] \in Finished /\ e[2] = st[e[1]] /\ logged[e[1]] = <<>>
      BY DEF IInv, AuditInv
    <3>4. logged'[e[1]] = <<st[e[1]]>>
      BY <3>1, <3>2, <3>3 DEF IInv, TypeOK, HistTypes
    <3>5. \A a \in Acts : a # e[1] => logged'[a] = logged[a]
      BY <3>1 DEF IInv, TypeOK, HistTypes
    <3>6. \A q \in Procs : \A f \in todo'[q] : f \in todo[q] /\ f[1] # e[1]
      <4>1. ASSUME NEW q \in Procs, NEW f \in todo'[q] PROVE f \in todo[q] /\ (q = p => f # e)
        BY <3>1 DEF IInv, TypeOK, LocalTypes
      <4>2. ASSUME NEW q \in Procs, NEW f \in todo'[q], f[1] = e[1] PROVE FALSE
        <5>1. f \in todo[q] /\ f \in Acts \X Finished /\ e \in Acts \X Finished
          BY <3>2, <4>1
        <5>2. q = p
          BY <4>2, <5>1 DEF IInv, AuditInv
        <5>3. f[2] = e[2]
          BY <4>2, <5>1 DEF IInv, AuditInv
        <5>4. f = e
          BY <4>2, <5>1, <5>3
        <5>5. QED
          BY <4>1, <5>2, <5>4
      <4>3. QED
        BY <4>1, <4>2
    <3>7. \A a \in Acts : logged'[a] = <<>> \/ (st'[a] \in Finished /\ logged'[a] = <<st'[a]>>)
      BY <2>1, <3>3, <3>4, <3>5 DEF IInv, AuditInv, rowVars
    <3>8. \A q \in Procs : \A f \in todo'[q] :
            st'[f[1]] \in Finished /\ f[2] = st'[f[1]] /\ logged'[f[1]] = <<>>
      <4>1. ASSUME NEW q \in Procs, NEW f \in todo'[q] PROVE f \in todo[q] /\ f[1] \in Acts
        BY <3>2, <3>6
      <4>2. QED
        BY <2>1, <3>5, <3>6, <4>1 DEF IInv, AuditInv, rowVars
    <3>9. \A q, r \in Procs : \A f \in todo'[q], g \in todo'[r] : f[1] = g[1] => q = r
      BY <3>6 DEF IInv, AuditInv
    <3>10. QED
      BY <3>7, <3>8, <3>9 DEF AuditInv
  <2>5. QED
    BY <2>2, <2>3, <2>4 DEF IInv
<1>6. QED
  BY <1>1, <1>2, <1>3, <1>4, <1>5 DEF Sweep

\* A claim: the one step that makes a holder, of a row nobody holds.
LEMMA ClaimSteps ==
    ASSUME IInv, TypeOK', NEW p \in Procs, NEW a \in Acts, NEW l \in {"recheck", "execute"},
           Claimable(a), l = "recheck" \/ Inline, Claim(p, a, l)
    PROVE  IInv'
<1>1. /\ st[a] = "PENDING"
      /\ \A q \in Procs : pc'[q] = IF q = p THEN l ELSE pc[q]
      /\ \A q \in Procs : job'[q] = IF q = p THEN a ELSE job[q]
      /\ \A b \in Acts : st'[b] = IF b = a THEN "RUNNING" ELSE st[b]
  BY DEF Claimable, Claim, Goto, IInv, TypeOK, LocalTypes, RowTypes
<1>2. UNCHANGED <<key, ask, out, effect, logged, cut, ended, lock, todo>>
  BY DEF Claim, histVars
<1>3. effect[a] = 0 /\ \A q \in Procs : ~Held(q, a)
  BY <1>1 DEF IInv, EffectInv, HolderInv
<1>4. JobInv' /\ KeyInv'
  BY <1>1, <1>2 DEF IInv, JobInv, KeyInv, Submitting
<1>5. HolderInv'
  BY <1>1, <1>3 DEF IInv, HolderInv, Held
<1>6. EffectInv' /\ AtMostOnce'
  BY <1>1, <1>2, <1>3 DEF IInv, EffectInv, AtMostOnce
<1>7. AuditInv'
  <2>1. \A q \in Procs : \A e \in todo[q] : e[1] # a
    BY <1>1 DEF IInv, AuditInv
  <2>2. \A q \in Procs : \A e \in todo[q] : e[1] \in Acts
    BY DEF IInv, TypeOK, LocalTypes
  <2>3. QED
    BY <1>1, <1>2, <2>1, <2>2 DEF IInv, AuditInv
<1>8. LockInv'
  BY <1>1, <1>2 DEF IInv, LockInv, PersonaFor
<1>9. CutInv'
  BY <1>1, <1>2, <1>3 DEF IInv, CutInv, Held
<1>10. OneLivePerKey'
  BY <1>1, <1>2 DEF IInv, OneLivePerKey
<1>11. QED
  BY <1>4, <1>5, <1>6, <1>7, <1>8, <1>9, <1>10 DEF IInv

\* A holder moves on with its act, and no row, event or lock changes.
LEMMA HolderMoves ==
    ASSUME IInv, TypeOK', NEW p \in Procs, NEW l \in {"execute", "requeue", "finish"},
           pc[p] \in {"recheck", "execute", "acting"},
           pc' = [pc EXCEPT ![p] = l],
           l = "execute" => job[p] \notin cut \/ Inline,
           l = "requeue" => pc[p] = "execute",
           \A q \in Procs : q # p => out'[q] = out[q],
           l = "finish" => out'[p] # "DONE",
           UNCHANGED <<st, key, job, ask, effect, logged, todo, cut, ended>>,
           \A x \in Personas : lock'[x] = lock[x] \/ (lock[x] = p /\ pc[p] = "acting")
    PROVE  IInv'
<1>1. \A q \in Procs : pc'[q] = IF q = p THEN l ELSE pc[q]
  BY DEF IInv, TypeOK, LocalTypes
<1>2. JobInv' /\ KeyInv'
  BY <1>1 DEF IInv, JobInv, KeyInv, Submitting
<1>3. HolderInv'
  BY <1>1 DEF IInv, HolderInv, Held
<1>4. EffectInv' /\ AtMostOnce'
  BY <1>1 DEF IInv, EffectInv, AtMostOnce
<1>5. AuditInv'
  BY DEF IInv, AuditInv
<1>6. LockInv'
  <2>1. ASSUME NEW q \in Procs, pc[q] = "acting" PROVE PersonaFor(q) \in Personas
    BY <2>1, PersonaAssumption DEF IInv, JobInv, KeyInv, PersonaFor
  <2>2. QED
    BY <1>1, <2>1 DEF IInv, LockInv, PersonaFor
<1>7. CutInv'
  BY <1>1 DEF IInv, CutInv, Held, JobInv
<1>8. OneLivePerKey'
  BY DEF IInv, OneLivePerKey
<1>9. QED
  BY <1>2, <1>3, <1>4, <1>5, <1>6, <1>7, <1>8 DEF IInv

\* What a collector, or an inline request, does with the act it claimed.
LEMMA RunSteps ==
    ASSUME IInv, TypeOK', NEW p \in Procs,
           Recheck(p) \/ RunClaimed(p) \/ (p \in Collectors /\ Requeue(p))
    PROVE  IInv'
<1>0. /\ pc \in [Procs -> Places] /\ out \in [Procs -> Outcome]
      /\ job \in [Procs -> Acts \cup {NoAct}] /\ ask \in [Procs -> Keys \cup {NoKey}]
  BY DEF IInv, TypeOK, LocalTypes
<1>1. ASSUME Recheck(p) PROVE IInv'
  <2>1. UNCHANGED <<st, key, job, ask, effect, logged, todo, cut, ended, lock>>
    BY <1>1 DEF Recheck, rowVars, histVars
  <2>2. CASE \E s \in {"REFUSED", "FAILED"} : Decide(p, s)
    <3>1. /\ pc' = [pc EXCEPT ![p] = "finish"] /\ out'[p] # "DONE"
          /\ \A q \in Procs : q # p => out'[q] = out[q]
      BY <1>0, <2>2 DEF Decide, Goto
    <3>2. QED
      BY <1>1, <2>1, <3>1, HolderMoves DEF Recheck
  <2>3. CASE SessionLive(job[p]) /\ Goto(p, "execute") /\ UNCHANGED out
    <3>1. job[p] \notin cut
      BY <2>3 DEF SessionLive, IInv, TypeOK, HistTypes
    <3>2. QED
      BY <1>1, <2>1, <2>3, <3>1, HolderMoves DEF Recheck, Goto
  <2>4. QED
    BY <1>1, <2>2, <2>3 DEF Recheck
<1>2. ASSUME PersonaBusy(p) PROVE IInv'
  <2>1. UNCHANGED <<st, key, job, ask, effect, logged, todo, cut, ended, lock>>
    BY <1>2 DEF PersonaBusy, rowVars, histVars
  <2>2. PICK l \in {"requeue", "finish"} :
          /\ pc' = [pc EXCEPT ![p] = l]
          /\ \A q \in Procs : q # p => out'[q] = out[q]
          /\ l = "finish" => out'[p] # "DONE"
    BY <1>0, <1>2 DEF PersonaBusy, Decide, Goto
  <2>3. QED
    BY <1>2, <2>1, <2>2, HolderMoves DEF PersonaBusy
<1>3. ASSUME GateRefuses(p) PROVE IInv'
  <2>1. UNCHANGED <<st, key, job, ask, effect, logged, todo, cut, ended>>
    BY <1>3 DEF GateRefuses, rowVars, histVars
  <2>2. /\ pc' = [pc EXCEPT ![p] = "finish"] /\ out'[p] # "DONE"
        /\ \A q \in Procs : q # p => out'[q] = out[q]
    BY <1>0, <1>3 DEF GateRefuses, Decide, Goto
  <2>3. \A x \in Personas : lock'[x] = lock[x] \/ (lock[x] = p /\ pc[p] = "acting")
    BY <1>3 DEF GateRefuses, IInv, LockInv, TypeOK, HistTypes
  <2>4. QED
    BY <1>3, <2>1, <2>2, <2>3, HolderMoves DEF GateRefuses
<1>4. ASSUME TakePersona(p) PROVE IInv'
  <2>1. UNCHANGED <<st, key, job, ask, out, effect, logged, todo, cut, ended>>
    BY <1>4 DEF TakePersona, rowVars, histVars
  <2>2. \A q \in Procs : pc'[q] = IF q = p THEN "acting" ELSE pc[q]
    BY <1>0, <1>4 DEF TakePersona, Goto
  <2>3. ASSUME NEW q \in Procs, pc[q] \in {"execute", "acting"} PROVE PersonaFor(q) \in Personas
    BY <2>3, PersonaAssumption DEF IInv, JobInv, KeyInv, PersonaFor
  <2>4. \A x \in Personas : lock'[x] = IF x = PersonaFor(p) THEN p ELSE lock[x]
    BY <1>4 DEF TakePersona, IInv, TypeOK, HistTypes
  <2>5. LockInv'
    <3>1. \A q \in Procs : pc[q] = "acting" => PersonaFor(q) # PersonaFor(p)
      BY <1>4, ProcessAssumption DEF TakePersona, PersonaFree, IInv, LockInv, Procs
    <3>2. pc[p] = "execute" /\ PersonaFor(p) \in Personas
      BY <1>4, <2>3 DEF TakePersona
    <3>3. QED
      BY <2>1, <2>2, <2>3, <2>4, <3>1, <3>2 DEF IInv, LockInv, PersonaFor
  <2>6. pc[p] = "execute"
    BY <1>4 DEF TakePersona
  <2>7. JobInv' /\ KeyInv' /\ HolderInv'
    BY <2>1, <2>2, <2>6 DEF IInv, JobInv, KeyInv, Submitting, HolderInv, Held
  <2>8. EffectInv' /\ AtMostOnce' /\ AuditInv'
    BY <2>1, <2>2, <2>6 DEF IInv, EffectInv, AtMostOnce, AuditInv
  <2>9. CutInv' /\ OneLivePerKey'
    BY <2>1, <2>2, <2>6 DEF IInv, CutInv, Held, OneLivePerKey
  <2>10. QED
    BY <2>5, <2>7, <2>8, <2>9 DEF IInv
<1>5. ASSUME Execute(p) PROVE IInv'
  <2>1. UNCHANGED <<st, key, job, ask, logged, todo, cut, ended>>
    BY <1>5 DEF Execute, rowVars
  <2>2. /\ pc[p] = "acting"
        /\ \A q \in Procs : pc'[q] = IF q = p THEN "finish" ELSE pc[q]
    BY <1>0, <1>5 DEF Execute, Decide, Goto
  <2>3. job[p] \in Acts /\ Held(p, job[p]) /\ effect[job[p]] = 0
    BY <2>2 DEF IInv, JobInv, Held, EffectInv
  <2>4. \A a \in Acts : effect'[a] = IF a = job[p] THEN 1 ELSE effect[a]
    BY <1>5, <2>3 DEF Execute, IInv, TypeOK, HistTypes
  <2>5. \A q \in Procs : q # p => out'[q] = out[q]
    BY <1>0, <1>5 DEF Execute, Decide
  <2>6. JobInv' /\ KeyInv' /\ HolderInv'
    BY <2>1, <2>2 DEF IInv, JobInv, KeyInv, Submitting, HolderInv, Held
  <2>7. \A q \in Procs : q # p /\ pc[q] \in Working => job[q] # job[p]
    BY <2>3 DEF IInv, HolderInv, Held
  <2>8. st[job[p]] \in {"RUNNING", "FAILED"}
    BY <2>3 DEF IInv, HolderInv
  <2>9. EffectInv'
    <3>1. \A a \in Acts : /\ st[a] \in {"NONE", "PENDING", "EXPIRED", "CANCELLED"} => effect'[a] = 0
                          /\ st[a] = "DONE" => effect'[a] = 1
      BY <2>4, <2>8 DEF IInv, EffectInv
    <3>2. \A q \in Procs : pc'[q] \in Untouched => effect'[job[q]] = 0
      BY <2>2, <2>4, <2>7 DEF IInv, EffectInv, JobInv
    <3>3. \A q \in Procs : pc'[q] = "finish" /\ out'[q] = "DONE" => effect'[job[q]] = 1
      BY <2>2, <2>3, <2>4, <2>5, <2>7 DEF IInv, EffectInv, JobInv
    <3>4. QED
      BY <2>1, <3>1, <3>2, <3>3 DEF EffectInv
  <2>10. AtMostOnce' /\ AuditInv' /\ OneLivePerKey'
    BY <2>1, <2>4 DEF IInv, AtMostOnce, AuditInv, OneLivePerKey
  <2>11. LockInv'
    <3>1. \A q \in Procs : q # p /\ pc[q] = "acting" => PersonaFor(q) # PersonaFor(p)
      BY <2>2 DEF IInv, LockInv
    <3>2. ASSUME NEW q \in Procs, pc[q] = "acting" PROVE PersonaFor(q) \in Personas
      BY <3>2, PersonaAssumption DEF IInv, JobInv, KeyInv, PersonaFor
    <3>3. \A x \in Personas : x # PersonaFor(p) => lock'[x] = lock[x]
      BY <1>5 DEF Execute, IInv, TypeOK, HistTypes
    <3>4. QED
      BY <2>1, <2>2, <3>1, <3>2, <3>3 DEF IInv, LockInv, PersonaFor
  <2>12. CutInv'
    <3>1. cut \subseteq Acts /\ (~Inline => job[p] \notin cut)
      BY <2>2, <2>3 DEF IInv, CutInv, TypeOK, HistTypes
    <3>2. QED
      BY <2>1, <2>2, <2>4, <3>1 DEF IInv, CutInv, Held
  <2>13. QED
    BY <2>6, <2>9, <2>10, <2>11, <2>12 DEF IInv
<1>6. ASSUME Finish(p), ~StillRunning(job[p]) PROVE IInv'
  <2>1. PICK l \in {"idle", "claim"} : pc' = [pc EXCEPT ![p] = l]
    BY <1>6 DEF Finish, AfterAct, Leave, Goto
  <2>2. /\ \A q \in Procs : q # p => job'[q] = job[q] /\ ask'[q] = ask[q]
        /\ out' = [out EXCEPT ![p] = out'[p]]
        /\ UNCHANGED <<st, key, effect, logged, todo, cut, ended, lock>>
    BY <1>0, <1>6 DEF Finish, Leave, rowVars, histVars
  <2>3. QED
    BY <2>1, <2>2, QuietMove
<1>7. ASSUME Finish(p), StillRunning(job[p]) PROVE IInv'
  <2>1. job[p] \in Acts /\ Held(p, job[p]) /\ st[job[p]] = "RUNNING" /\ pc[p] = "finish"
    BY <1>7 DEF Finish, StillRunning, IInv, JobInv, Held
  <2>2. PICK S \in SUBSET Acts : S = {job[p]}
    BY <2>1
  <2>3. PICK s \in Outcome : s = out[p]
    BY <1>0
  <2>4. /\ st' = [a \in Acts |-> IF a \in S THEN s ELSE st[a]]
        /\ pc' = [pc EXCEPT ![p] = "finishAudit"]
        /\ UNCHANGED <<key, job, ask, out, effect, logged, cut, ended, lock>>
    BY <1>7, <2>2, <2>3 DEF Finish, SetStatus, Goto, histVars
  <2>5. /\ \A q \in Procs : q # p => todo'[q] = todo[q]
        /\ todo'[p] \subseteq todo[p] \cup (S \X {s})
    BY <1>7, <2>2, <2>3 DEF Finish, IInv, TypeOK, LocalTypes
  <2>6. \A a \in S : st[a] = "RUNNING" /\ \A q \in Procs : q # p => ~Held(q, a)
    BY <2>1, <2>2 DEF IInv, HolderInv
  <2>7. s = "DONE" => \A a \in S : effect[a] = 1
    BY <2>1, <2>2, <2>3 DEF IInv, EffectInv
  <2>8. s \in Finished /\ s \notin {"EXPIRED", "CANCELLED"}
    OBVIOUS
  <2>9. \A a \in S : st[a] \in Live
    BY <2>6
  <2>10. QED
    BY <2>4, <2>5, <2>6, <2>7, <2>8, <2>9, SettleRows
<1>8. ASSUME p \in Collectors, Requeue(p), ~StillRunning(job[p]) PROVE IInv'
  <2>1. /\ pc' = [pc EXCEPT ![p] = "claim"]
        /\ \A q \in Procs : q # p => job'[q] = job[q] /\ ask'[q] = ask[q]
        /\ out' = [out EXCEPT ![p] = out'[p]]
        /\ UNCHANGED <<st, key, effect, logged, todo, cut, ended, lock>>
    BY <1>0, <1>8 DEF Requeue, Leave, Goto, rowVars, histVars
  <2>2. QED
    BY <2>1, QuietMove
<1>9. ASSUME p \in Collectors, Requeue(p), StillRunning(job[p]) PROVE IInv'
  <2>1. job[p] \in Acts /\ Held(p, job[p]) /\ st[job[p]] = "RUNNING" /\ effect[job[p]] = 0
    BY <1>9 DEF Requeue, StillRunning, IInv, JobInv, Held, EffectInv
  <2>2. /\ \A q \in Procs : pc'[q] = IF q = p THEN "claim" ELSE pc[q]
        /\ \A q \in Procs : q # p => job'[q] = job[q] /\ ask'[q] = ask[q] /\ out'[q] = out[q]
        /\ \A a \in Acts : st'[a] = IF a = job[p] THEN "PENDING" ELSE st[a]
        /\ UNCHANGED <<key, effect, logged, todo, ended, lock>>
        /\ cut' \subseteq cut \cup {job[p]}
    BY <1>0, <1>9 DEF Requeue, Leave, Goto, IInv, TypeOK, RowTypes
  <2>3. \A q \in Procs : q # p => ~Held(q, job[p])
    BY <2>1 DEF IInv, HolderInv
  <2>4. JobInv' /\ HolderInv'
    BY <2>1, <2>2, <2>3 DEF IInv, JobInv, HolderInv, Held
  <2>5. KeyInv'
    BY <1>9, <2>1, <2>2, ProcessAssumption DEF IInv, KeyInv, Submitting
  <2>6. EffectInv' /\ AtMostOnce'
    BY <2>1, <2>2 DEF IInv, EffectInv, AtMostOnce
  <2>7. AuditInv'
    <3>1. \A q \in Procs : \A e \in todo[q] : e[1] \in Acts /\ e[1] # job[p]
      <4>1. ASSUME NEW q \in Procs, NEW e \in todo[q] PROVE e[1] \in Acts
        BY <4>1 DEF IInv, TypeOK, LocalTypes
      <4>2. ASSUME NEW q \in Procs, NEW e \in todo[q] PROVE e[1] # job[p]
        <5>1. st[e[1]] \in Finished
          BY <4>2 DEF IInv, AuditInv
        <5>2. QED
          BY <5>1, <2>1
      <4>3. QED
        BY <4>1, <4>2
    <3>2. logged[job[p]] = <<>>
      BY <2>1 DEF IInv, AuditInv
    <3>3. QED
      BY <2>2, <3>1, <3>2 DEF IInv, AuditInv
  <2>8. LockInv'
    BY <2>2 DEF IInv, LockInv, PersonaFor
  <2>9. CutInv'
    BY <2>1, <2>2, <2>3 DEF IInv, CutInv, Held
  <2>10. OneLivePerKey'
    BY <2>1, <2>2 DEF IInv, OneLivePerKey
  <2>11. QED
    BY <2>4, <2>5, <2>6, <2>7, <2>8, <2>9, <2>10 DEF IInv
<1>10. QED
  BY <1>1, <1>2, <1>3, <1>4, <1>5, <1>6, <1>7, <1>8, <1>9 DEF RunClaimed

\* What happens to the queue from outside: a session ends, a poll takes or
\* gives back a persona, time passes, a process dies.
LEMMA WorldSteps ==
    ASSUME IInv, TypeOK',
           \/ \E a \in Acts : EndSession(a)
           \/ \E x \in Personas : PollTakes(x) \/ PollReleases(x)
           \/ \E p \in Procs : Crash(p)
           \/ Tick
    PROVE  IInv'
<1>1. ASSUME NEW a \in Acts, EndSession(a) PROVE IInv'
  <2>1. UNCHANGED <<st, key, pc, job, ask, out, todo, effect, lock, logged>>
    BY <1>1 DEF EndSession, rowVars, procVars
  <2>2. JobInv' /\ KeyInv' /\ HolderInv' /\ EffectInv' /\ AtMostOnce' /\ AuditInv'
    BY <2>1 DEF IInv, JobInv, KeyInv, Submitting, HolderInv, Held, EffectInv, AtMostOnce, AuditInv
  <2>3. LockInv' /\ OneLivePerKey'
    BY <2>1 DEF IInv, LockInv, PersonaFor, OneLivePerKey
  <2>4. cut' \subseteq cut \cup {b \in {a} : st[a] = "PENDING"}
    BY <1>1 DEF EndSession
  <2>5. CutInv'
    BY <2>1, <2>4 DEF IInv, CutInv, Held, HolderInv, EffectInv
  <2>6. QED
    BY <2>2, <2>3, <2>5 DEF IInv
<1>2. ASSUME NEW x \in Personas, PollTakes(x) \/ PollReleases(x) PROVE IInv'
  <2>1. UNCHANGED <<st, key, pc, job, ask, out, todo, effect, logged, cut>>
    BY <1>2 DEF PollTakes, PollReleases, rowVars, procVars, histVars
  <2>2. JobInv' /\ KeyInv' /\ HolderInv' /\ EffectInv' /\ AtMostOnce' /\ AuditInv'
    BY <2>1 DEF IInv, JobInv, KeyInv, Submitting, HolderInv, Held, EffectInv, AtMostOnce, AuditInv
  <2>3. CutInv' /\ OneLivePerKey'
    BY <2>1 DEF IInv, CutInv, Held, OneLivePerKey
  <2>4. LockInv'
    <3>1. \A y \in Personas : lock'[y] = lock[y] \/ lock[y] \in {NoOne, Poller}
      BY <1>2 DEF PollTakes, PollReleases, PersonaFree, IInv, TypeOK, HistTypes
    <3>2. ASSUME NEW q \in Procs, pc[q] = "acting"
          PROVE  lock[PersonaFor(q)] = q /\ PersonaFor(q) \in Personas
      BY <3>2, PersonaAssumption DEF IInv, LockInv, JobInv, KeyInv, PersonaFor
    <3>3. \A q \in Procs : q \notin {NoOne, Poller}
      BY ProcessAssumption DEF Procs
    <3>4. QED
      BY <2>1, <3>1, <3>2, <3>3 DEF LockInv, PersonaFor
  <2>5. QED
    BY <2>2, <2>3, <2>4 DEF IInv
<1>3. ASSUME NEW p \in Procs, Crash(p) PROVE IInv'
  <2>1. /\ UNCHANGED <<st, key, effect, logged, cut, ended>>
        /\ \A q \in Procs : pc'[q] = IF q = p THEN "idle" ELSE pc[q]
        /\ \A q \in Procs : q # p => job'[q] = job[q] /\ ask'[q] = ask[q] /\ out'[q] = out[q]
        /\ \A q \in Procs : todo'[q] = IF q = p THEN {} ELSE todo[q]
        /\ \A x \in Personas : lock'[x] = IF lock[x] = p THEN NoOne ELSE lock[x]
    BY <1>3 DEF Crash, Leave, Goto, rowVars, histVars, IInv, TypeOK, LocalTypes
  <2>2. JobInv' /\ HolderInv'
    BY <2>1 DEF IInv, JobInv, HolderInv, Held
  <2>3. KeyInv'
    <3>1. ~Submitting(p)'
      BY <2>1 DEF Submitting
    <3>2. QED
      BY <2>1, <3>1 DEF IInv, KeyInv, Submitting
  <2>4. EffectInv' /\ AtMostOnce'
    BY <2>1 DEF IInv, EffectInv, AtMostOnce
  <2>5. AuditInv'
    BY <2>1 DEF IInv, AuditInv
  <2>6. LockInv'
    <3>1. ASSUME NEW q \in Procs, pc[q] = "acting" PROVE PersonaFor(q) \in Personas
      BY <3>1, PersonaAssumption DEF IInv, JobInv, KeyInv, PersonaFor
    <3>2. QED
      BY <2>1, <3>1 DEF IInv, LockInv, PersonaFor
  <2>7. CutInv' /\ OneLivePerKey'
    BY <2>1 DEF IInv, CutInv, Held, OneLivePerKey
  <2>8. QED
    BY <2>2, <2>3, <2>4, <2>5, <2>6, <2>7 DEF IInv
<1>4. ASSUME Tick PROVE IInv'
  <2>1. UNCHANGED <<st, key, pc, job, ask, out, todo, effect, logged, lock, cut>>
    BY <1>4 DEF Tick, procVars, histVars
  <2>2. JobInv' /\ KeyInv' /\ HolderInv' /\ EffectInv' /\ AtMostOnce' /\ AuditInv'
    BY <2>1 DEF IInv, JobInv, KeyInv, Submitting, HolderInv, Held, EffectInv, AtMostOnce, AuditInv
  <2>3. LockInv' /\ CutInv' /\ OneLivePerKey'
    BY <2>1 DEF IInv, LockInv, PersonaFor, CutInv, Held, OneLivePerKey
  <2>4. QED
    BY <2>2, <2>3 DEF IInv
<1>5. QED
  BY <1>1, <1>2, <1>3, <1>4

\* IInv is inductive.
LEMMA StepIInv == IInv /\ [Next]_vars => IInv'
<1> SUFFICES ASSUME IInv, [Next]_vars PROVE IInv'
  OBVIOUS
<1>1. TypeOK'
  BY TypeStep DEF IInv
<1>2. ASSUME NEW c \in Clients, ClientStep(c) PROVE IInv'
  <2>1. c \in Procs
    BY DEF Procs
  <2>2. CASE ClaimOwn(c)
    <3>1. job[c] \in Acts
      BY <2>1, <2>2 DEF ClaimOwn, IInv, JobInv
    <3>2. QED
      BY <1>1, <2>1, <2>2, <3>1, ClaimSteps DEF ClaimOwn
  <2>3. QED
    BY <1>1, <1>2, <2>1, <2>2, RequestSteps, SweepSteps, RunSteps DEF ClientStep
<1>3. ASSUME NEW r \in Collectors, CollectorStep(r) PROVE IInv'
  <2>1. r \in Procs /\ r \notin Clients
    BY ProcessAssumption DEF Procs
  <2>2. CASE ClaimNext(r)
    <3>1. PICK a \in Acts : Claimable(a) /\ Claim(r, a, "recheck")
      BY <2>2 DEF ClaimNext
    <3>2. QED
      BY <1>1, <2>1, <3>1, ClaimSteps
  <2>3. CASE BeginDrain(r)
    BY <1>1, <2>1, <2>3, QuietMove
       DEF BeginDrain, Goto, rowVars, histVars, IInv, TypeOK, LocalTypes
  <2>4. CASE EndDrain(r)
    BY <1>1, <2>1, <2>4, QuietMove
       DEF EndDrain, Goto, rowVars, histVars, IInv, TypeOK, LocalTypes
  <2>5. QED
    BY <1>1, <1>3, <2>1, <2>2, <2>3, <2>4, SweepSteps, RunSteps DEF CollectorStep
<1>4. ASSUME UNCHANGED vars PROVE IInv'
  BY <1>1, <1>4 DEF vars, IInv, JobInv, KeyInv, Submitting, HolderInv, Held, EffectInv,
     AtMostOnce, AuditInv, LockInv, PersonaFor, CutInv, OneLivePerKey
<1>5. QED
  BY <1>1, <1>2, <1>3, <1>4, WorldSteps DEF Next

-----------------------------------------------------------------------------
\* Every reachable state of the queue satisfies the inductive invariant.
THEOREM Inductive == Spec => []IInv
BY InitIInv, StepIInv, PTL DEF Spec

\* Every variable stays within its type.
THEOREM TypeCorrect == Spec => []TypeOK
<1>1. IInv => TypeOK
  BY DEF IInv
<1>2. QED
  BY Inductive, <1>1, PTL

\* A double click is one act, for any number of requests and collectors.
THEOREM OneLivePerKeyHolds == Spec => []OneLivePerKey
<1>1. IInv => OneLivePerKey
  BY DEF IInv
<1>2. QED
  BY Inductive, <1>1, PTL

\* No act is carried out twice, whatever dies, lags or comes back late.
THEOREM AtMostOnceHolds == Spec => []AtMostOnce
<1>1. IInv => AtMostOnce
  BY DEF IInv
<1>2. QED
  BY Inductive, <1>1, PTL

\* CANCELLED and EXPIRED acts were never carried out; DONE acts were.
THEOREM OutcomeIsTrueHolds == Spec => []OutcomeIsTrue
<1>1. IInv => OutcomeIsTrue
  BY DEF IInv, EffectInv, OutcomeIsTrue
<1>2. QED
  BY Inductive, <1>1, PTL

\* An act has at most one outcome event, and it says what the row says.
THEOREM AuditAgreesHolds == Spec => []AuditAgrees
<1>1. IInv => AuditAgrees
  BY DEF IInv, AuditInv, AuditAgrees
<1>2. QED
  BY Inductive, <1>1, PTL

\* No two processes act as one persona at once.
THEOREM OnePersonaOneRunnerHolds == Spec => []OnePersonaOneRunner
<1>1. IInv => OnePersonaOneRunner
  BY DEF IInv, LockInv, OnePersonaOneRunner
<1>2. QED
  BY Inductive, <1>1, PTL

\* A session that ended while its act waited is never acted for.
THEOREM NotRunForAnEndedSessionHolds == Spec => []NotRunForAnEndedSession
<1>1. IInv => NotRunForAnEndedSession
  BY DEF IInv, CutInv, NotRunForAnEndedSession
<1>2. QED
  BY Inductive, <1>1, PTL

-----------------------------------------------------------------------------
\* All that a step can do to the rows and to the platform.
LEMMA WhatAStepDoes ==
    ASSUME IInv, [Next]_vars
    PROVE  \/ UNCHANGED <<st, effect>>
           \/ \E a \in Acts : /\ st[a] = "NONE"
                              /\ st' = [st EXCEPT ![a] = "PENDING"] /\ UNCHANGED effect
           \/ \E a \in Acts, s \in Live : /\ st[a] \in Live
                                          /\ st' = [st EXCEPT ![a] = s] /\ UNCHANGED effect
           \/ \E S \in SUBSET Acts, s \in Finished :
                 /\ \A a \in S : /\ st[a] \in Live
                                 /\ s \in {"EXPIRED", "CANCELLED"} => effect[a] = 0
                                 /\ s = "DONE" => effect[a] = 1
                 /\ st' = [a \in Acts |-> IF a \in S THEN s ELSE st[a]]
                 /\ UNCHANGED effect
           \/ \E a \in Acts : /\ st[a] \in {"RUNNING", "FAILED"} /\ effect[a] = 0
                              /\ effect' = [effect EXCEPT ![a] = 1] /\ UNCHANGED st
<1> DEFINE Settles == \E S \in SUBSET Acts, s \in Finished :
                        /\ \A a \in S : /\ st[a] \in Live
                                        /\ s \in {"EXPIRED", "CANCELLED"} => effect[a] = 0
                                        /\ s = "DONE" => effect[a] = 1
                        /\ st' = [a \in Acts |-> IF a \in S THEN s ELSE st[a]]
                        /\ UNCHANGED effect
<1>1. ASSUME NEW c \in Clients, Submit(c) \/ CancelStep(c), ~Insert(c), ~Cancel(c)
      PROVE  UNCHANGED <<st, effect>>
  BY <1>1 DEF Submit, CancelStep, Ask, ReadTwin, ReadDeadTwin, AuditQueued, Return,
     ReadForCancel, rowVars, histVars
<1>2. ASSUME NEW c \in Clients, Insert(c)
      PROVE  \/ UNCHANGED <<st, effect>>
             \/ \E a \in Acts : /\ st[a] = "NONE"
                                /\ st' = [st EXCEPT ![a] = "PENDING"] /\ UNCHANGED effect
  BY <1>2 DEF Insert, rowVars, histVars
<1>3. ASSUME NEW c \in Clients, Cancel(c) PROVE UNCHANGED <<st, effect>> \/ Settles
  <2>1. CASE ~MayCancel(job[c])
    BY <1>3, <2>1 DEF Cancel, rowVars, histVars
  <2>2. CASE MayCancel(job[c])
    <3>1. job[c] \in Acts /\ st[job[c]] = "PENDING" /\ effect[job[c]] = 0
      BY <1>3, <2>2 DEF Cancel, MayCancel, IInv, JobInv, EffectInv, Procs
    <3>2. /\ st' = [a \in Acts |-> IF a \in {job[c]} THEN "CANCELLED" ELSE st[a]]
          /\ UNCHANGED effect
      BY <1>3, <2>2 DEF Cancel, SetStatus, histVars
    <3>3. {job[c]} \in SUBSET Acts /\ "CANCELLED" \in Finished
      BY <3>1
    <3>4. \A a \in {job[c]} : st[a] \in Live /\ effect[a] = 0
      BY <3>1
    <3>5. QED
      BY <3>2, <3>3, <3>4
  <2>3. QED
    BY <2>1, <2>2
<1>4. ASSUME NEW p \in Procs, SweepPending(p) PROVE Settles
  <2>1. PICK S \in SUBSET Acts : S = {a \in Acts : st[a] = "PENDING" /\ Expired(a)}
    OBVIOUS
  <2>2. /\ st' = [a \in Acts |-> IF a \in S THEN "EXPIRED" ELSE st[a]]
        /\ UNCHANGED effect
    BY <1>4, <2>1 DEF SweepPending, SetStatus, histVars
  <2>3. \A a \in S : st[a] \in Live /\ effect[a] = 0
    BY <2>1 DEF IInv, EffectInv
  <2>4. "EXPIRED" \in Finished
    OBVIOUS
  <2>5. QED
    BY <2>2, <2>3, <2>4
<1>5. ASSUME NEW p \in Procs, SweepRunning(p) PROVE Settles
  <2>1. PICK S \in SUBSET Acts : S = {a \in Acts : st[a] = "RUNNING" /\ Lost(a)}
    OBVIOUS
  <2>2. /\ st' = [a \in Acts |-> IF a \in S THEN "FAILED" ELSE st[a]]
        /\ UNCHANGED effect
    BY <1>5, <2>1 DEF SweepRunning, OutcomeUnknown, SetStatus, histVars
  <2>3. "FAILED" \in Finished /\ \A a \in S : st[a] \in Live
    BY <2>1
  <2>4. QED
    BY <2>2, <2>3
<1>6. ASSUME NEW p \in Procs, SweepDone(p) \/ WriteEvent(p) \/ ActDone(p)
      PROVE  UNCHANGED <<st, effect>>
  BY <1>6 DEF SweepDone, WriteEvent, ActDone, rowVars, histVars
<1>7. ASSUME NEW p \in Procs, NEW a \in Acts, NEW l, Claimable(a), Claim(p, a, l)
      PROVE  /\ st[a] \in Live
             /\ st' = [st EXCEPT ![a] = "RUNNING"] /\ UNCHANGED effect
  BY <1>7 DEF Claimable, Claim, histVars
<1>8. ASSUME NEW p \in Procs,
             TakePersona(p) \/ PersonaBusy(p) \/ GateRefuses(p) \/ Recheck(p)
      PROVE  UNCHANGED <<st, effect>>
  BY <1>8 DEF TakePersona, PersonaBusy, GateRefuses, Recheck, rowVars, histVars
<1>9. ASSUME NEW p \in Procs, Execute(p)
      PROVE  \E a \in Acts : /\ st[a] \in {"RUNNING", "FAILED"} /\ effect[a] = 0
                             /\ effect' = [effect EXCEPT ![a] = 1] /\ UNCHANGED st
  <2>1. job[p] \in Acts /\ Held(p, job[p]) /\ effect[job[p]] = 0
    BY <1>9 DEF Execute, IInv, JobInv, Held, EffectInv
  <2>2. st[job[p]] \in {"RUNNING", "FAILED"}
    BY <2>1 DEF IInv, HolderInv
  <2>3. effect' = [effect EXCEPT ![job[p]] = 1] /\ UNCHANGED st
    BY <1>9, <2>1 DEF Execute, rowVars
  <2>4. QED
    BY <2>1, <2>2, <2>3
<1>10. ASSUME NEW p \in Procs, Finish(p) PROVE UNCHANGED <<st, effect>> \/ Settles
  <2>1. CASE ~StillRunning(job[p])
    BY <1>10, <2>1 DEF Finish, rowVars, histVars
  <2>2. CASE StillRunning(job[p])
    <3>1. job[p] \in Acts /\ st[job[p]] = "RUNNING" /\ pc[p] = "finish" /\ out[p] \in Outcome
      BY <1>10, <2>2 DEF Finish, StillRunning, IInv, JobInv, TypeOK, LocalTypes
    <3>2. out[p] = "DONE" => effect[job[p]] = 1
      BY <3>1 DEF IInv, EffectInv
    <3>3. /\ st' = [a \in Acts |-> IF a \in {job[p]} THEN out[p] ELSE st[a]]
          /\ UNCHANGED effect
      BY <1>10, <2>2 DEF Finish, SetStatus, histVars
    <3>4. {job[p]} \in SUBSET Acts /\ out[p] \in Finished /\ out[p] \notin {"EXPIRED", "CANCELLED"}
      BY <3>1
    <3>5. \A a \in {job[p]} : st[a] \in Live /\ (out[p] = "DONE" => effect[a] = 1)
      BY <3>1, <3>2
    <3>6. QED
      BY <3>3, <3>4, <3>5
  <2>3. QED
    BY <2>1, <2>2
<1>11. ASSUME NEW p \in Procs, Requeue(p)
       PROVE  \/ UNCHANGED <<st, effect>>
              \/ \E a \in Acts : /\ st[a] \in Live
                                 /\ st' = [st EXCEPT ![a] = "PENDING"] /\ UNCHANGED effect
  <2>1. job[p] \in Acts
    BY <1>11 DEF Requeue, IInv, JobInv
  <2>2. QED
    BY <1>11, <2>1 DEF Requeue, StillRunning, rowVars
<1>12. ASSUME \/ \E a \in Acts : EndSession(a)
              \/ \E x \in Personas : PollTakes(x) \/ PollReleases(x)
              \/ \E p \in Procs : Crash(p)
              \/ Tick
              \/ UNCHANGED vars
       PROVE  UNCHANGED <<st, effect>>
  BY <1>12 DEF EndSession, PollTakes, PollReleases, Crash, Tick, vars, rowVars, histVars
<1>13. ASSUME NEW c \in Clients, ClaimOwn(c)
       PROVE  \E a \in Acts : /\ st[a] \in Live
                              /\ st' = [st EXCEPT ![a] = "RUNNING"] /\ UNCHANGED effect
  <2>1. job[c] \in Acts /\ c \in Procs
    BY <1>13 DEF ClaimOwn, IInv, JobInv, Procs
  <2>2. QED
    BY <1>7, <1>13, <2>1 DEF ClaimOwn
<1>14. ASSUME NEW r \in Collectors, ClaimNext(r)
       PROVE  \E a \in Acts : /\ st[a] \in Live
                              /\ st' = [st EXCEPT ![a] = "RUNNING"] /\ UNCHANGED effect
  <2>1. PICK a \in Acts : Claimable(a) /\ Claim(r, a, "recheck")
    BY <1>14 DEF ClaimNext
  <2>2. QED
    BY <1>7, <2>1 DEF Procs
<1>15. ASSUME NEW r \in Collectors, BeginDrain(r) \/ EndDrain(r) PROVE UNCHANGED <<st, effect>>
  BY <1>15 DEF BeginDrain, EndDrain, rowVars, histVars
<1>16. ASSUME NEW p \in Procs, Sweep(p) \/ RunClaimed(p) \/ WriteEvent(p) \/ ActDone(p)
       PROVE  \/ UNCHANGED <<st, effect>>
              \/ Settles
              \/ \E a \in Acts : /\ st[a] \in {"RUNNING", "FAILED"} /\ effect[a] = 0
                                 /\ effect' = [effect EXCEPT ![a] = 1] /\ UNCHANGED st
  BY <1>4, <1>5, <1>6, <1>8, <1>9, <1>10, <1>16 DEF Sweep, RunClaimed
<1>17. ASSUME NEW c \in Clients, ClientStep(c)
       PROVE  \/ UNCHANGED <<st, effect>>
              \/ Settles
              \/ \E a \in Acts : /\ st[a] = "NONE"
                                 /\ st' = [st EXCEPT ![a] = "PENDING"] /\ UNCHANGED effect
              \/ \E a \in Acts, s \in Live : /\ st[a] \in Live
                                             /\ st' = [st EXCEPT ![a] = s] /\ UNCHANGED effect
              \/ \E a \in Acts : /\ st[a] \in {"RUNNING", "FAILED"} /\ effect[a] = 0
                                 /\ effect' = [effect EXCEPT ![a] = 1] /\ UNCHANGED st
  <2>1. c \in Procs
    BY DEF Procs
  <2> HIDE DEF Settles
  <2>2. QED
    BY <1>1, <1>2, <1>3, <1>13, <1>16, <1>17, <2>1 DEF ClientStep
<1>18. ASSUME NEW r \in Collectors, CollectorStep(r)
       PROVE  \/ UNCHANGED <<st, effect>>
              \/ Settles
              \/ \E a \in Acts, s \in Live : /\ st[a] \in Live
                                             /\ st' = [st EXCEPT ![a] = s] /\ UNCHANGED effect
              \/ \E a \in Acts : /\ st[a] \in {"RUNNING", "FAILED"} /\ effect[a] = 0
                                 /\ effect' = [effect EXCEPT ![a] = 1] /\ UNCHANGED st
  <2>1. r \in Procs
    BY DEF Procs
  <2> HIDE DEF Settles
  <2>2. QED
    BY <1>8, <1>11, <1>14, <1>15, <1>16, <1>18, <2>1 DEF CollectorStep
<1>19. QED
  <2> HIDE DEF Settles
  <2>1. \/ UNCHANGED <<st, effect>>
        \/ Settles
        \/ \E a \in Acts : /\ st[a] = "NONE"
                           /\ st' = [st EXCEPT ![a] = "PENDING"] /\ UNCHANGED effect
        \/ \E a \in Acts, s \in Live : /\ st[a] \in Live
                                       /\ st' = [st EXCEPT ![a] = s] /\ UNCHANGED effect
        \/ \E a \in Acts : /\ st[a] \in {"RUNNING", "FAILED"} /\ effect[a] = 0
                           /\ effect' = [effect EXCEPT ![a] = 1] /\ UNCHANGED st
    BY <1>12, <1>17, <1>18 DEF Next
  <2>2. QED
    BY <2>1 DEF Settles

\* A finished act is a record: no request, sweep, late runner or requeue
\* changes its status again.
THEOREM FinishedIsFinalHolds == Spec => FinishedIsFinal
<1>1. IInv /\ [Next]_vars => (\A a \in Acts : st[a] \in Finished => st'[a] = st[a])
  BY WhatAStepDoes DEF IInv, TypeOK, RowTypes
<1>2. QED
  BY Inductive, <1>1, PTL DEF Spec, FinishedIsFinal

\* The queue, its collectors and its requests keep the promise of ActPromise:
\* carried out at most once, settled once, and settled truly.
THEOREM PromiseKept == Spec => KeepsThePromise
<1>1. Init => Promise!Init
  BY DEF Init, Promise!Init, Fate
<1>2. IInv /\ [Next]_vars => [Promise!Next]_<<Fate, effect>>
  <2> SUFFICES ASSUME IInv, [Next]_vars PROVE [Promise!Next]_<<Fate, effect>>
    OBVIOUS
  <2>0. /\ st \in [Acts -> {"NONE"} \cup Live \cup Finished]
        /\ Fate = [a \in Acts |-> IF st[a] = "NONE" THEN "unasked"
                                  ELSE IF st[a] \in Live THEN "open" ELSE st[a]]
        /\ Fate' = [a \in Acts |-> IF st'[a] = "NONE" THEN "unasked"
                                   ELSE IF st'[a] \in Live THEN "open" ELSE st'[a]]
    BY DEF IInv, TypeOK, RowTypes, Fate
  <2>1. CASE UNCHANGED <<st, effect>>
    BY <2>0, <2>1
  <2>2. ASSUME NEW a \in Acts, st[a] = "NONE", st' = [st EXCEPT ![a] = "PENDING"],
               UNCHANGED effect
        PROVE  Promise!Ask(a)
    BY <2>0, <2>2 DEF Promise!Ask
  <2>3. ASSUME NEW a \in Acts, NEW s \in Live, st[a] \in Live,
               st' = [st EXCEPT ![a] = s], UNCHANGED effect
        PROVE  UNCHANGED <<Fate, effect>>
    BY <2>0, <2>3
  <2>4. ASSUME NEW S \in SUBSET Acts, NEW s \in Finished,
               \A a \in S : /\ st[a] \in Live
                            /\ s \in {"EXPIRED", "CANCELLED"} => effect[a] = 0
                            /\ s = "DONE" => effect[a] = 1,
               st' = [a \in Acts |-> IF a \in S THEN s ELSE st[a]],
               UNCHANGED effect
        PROVE  Promise!Settle(S, s)
    <3>1. Fate' = [a \in Acts |-> IF a \in S THEN s ELSE Fate[a]]
      BY <2>0, <2>4
    <3>2. \A a \in S : Fate[a] = "open"
      BY <2>0, <2>4
    <3>3. QED
      BY <2>4, <3>1, <3>2 DEF Promise!Settle
  <2>5. ASSUME NEW a \in Acts, st[a] \in {"RUNNING", "FAILED"}, effect[a] = 0,
               effect' = [effect EXCEPT ![a] = 1], UNCHANGED st
        PROVE  Promise!CarryOut(a)
    BY <2>0, <2>5 DEF Promise!CarryOut
  <2>6. QED
    BY <2>1, <2>2, <2>3, <2>4, <2>5, WhatAStepDoes DEF Promise!Next, Promise!Settled
<1>3. QED
  BY Inductive, <1>1, <1>2, PTL DEF Spec, KeepsThePromise, Promise!Spec
=============================================================================
