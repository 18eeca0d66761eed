--------------------------- MODULE ProposalsProofs ---------------------------
(***************************************************************************)
(* What triage and the selector index keep for any requests, selectors,    *)
(* entities, texts and pastes: IInv of ProposalsProps is inductive, and    *)
(* its promises, but ElementKeepsItsRecord, which the code breaks, follow. *)
(***************************************************************************)
EXTENDS ProposalsProps, TLAPS

-----------------------------------------------------------------------------
(* Row locks *)

\* A row is free when no transaction has it: what FOR UPDATE waits for.
LEMMA FreeIs == ASSUME LockTypes, NEW r
                PROVE Free(r) <=> \A c \in Calls : ~Holds(c, r)
<1>1. \A l \in locks : l[1] \in Calls /\ l = <<l[1], l[2]>>
  BY DEF LockTypes
<1>2. ASSUME NEW l \in locks, l[2] = r PROVE \E c \in Calls : Holds(c, r)
  BY <1>1, <1>2 DEF Holds
<1>3. ASSUME NEW c \in Calls, Holds(c, r) PROVE <<c, r>> \in Row(r)
  BY <1>3 DEF Holds, Row
<1>4. QED
  BY <1>2, <1>3 DEF Free, Row

\* And after any step.
LEMMA FreeThen == ASSUME LockTypes', NEW r
                  PROVE Free(r)' <=> \A c \in Calls : ~Holds(c, r)'
<1>1. \A l \in locks' : l[1] \in Calls /\ l = <<l[1], l[2]>>
  BY DEF LockTypes
<1>2. ASSUME NEW l \in locks', l[2] = r PROVE \E c \in Calls : Holds(c, r)'
  BY <1>1, <1>2 DEF Holds
<1>3. ASSUME NEW c \in Calls, Holds(c, r)' PROVE <<c, r>> \in Row(r)'
  BY <1>3 DEF Holds, Row
<1>4. QED
  BY <1>2, <1>3 DEF Free, Row

\* A statement that locks a row leaves every other lock as it was.
LEMMA Locking == ASSUME NEW c, NEW r, locks' = locks \cup {<<c, r>>}
                 PROVE \A d, s : Holds(d, s)' <=> Holds(d, s) \/ (d = c /\ s = r)
  BY DEF Holds

\* So does one that locks many.
LEMMA LockingMany == ASSUME NEW c, NEW R, locks' = locks \cup {<<c, r>> : r \in R}
                     PROVE \A d, s : Holds(d, s)' <=> Holds(d, s) \/ (d = c /\ s \in R)
  BY DEF Holds

\* A commit or rollback lets its transaction's rows go, and no other's.
LEMMA Ending == ASSUME NEW c, locks' = {l \in locks : l[1] # c}
                PROVE \A d, s : Holds(d, s)' <=> Holds(d, s) /\ d # c
  BY DEF Holds

\* A statement that locks nothing leaves the locks.
LEMMA Staying == ASSUME locks' = locks PROVE \A d, s : Holds(d, s)' <=> Holds(d, s)
  BY DEF Holds

-----------------------------------------------------------------------------
(* What a step that asks nothing leaves as it was *)

\* Reviewers and editors ask nothing, and touch no paste in progress.
LEMMA DeskStays ==
    ASSUME IInv, UNCHANGED <<documents, pastes, paste, todo, fresh, met>>,
           \A p \in Proposed : state'[p] = "none" <=> state[p] = "none",
           \A d \in Calls : /\ act'[d] = "capture" <=> act[d] = "capture"
                            /\ pc'[d] = "land" => pc[d] = "land" /\ word'[d] = word[d]
    PROVE  Pasting' /\ Fresh' /\ AskedOnce'
<1>1. Pasting'
  BY DEF IInv, Pasting
<1>2. \A d \in Calls : \A q \in Proposed :
         q[2] \in fresh'[d] /\ state'[q] # "none" => {q[1], paste'[d]} \in met'
  BY DEF IInv, Fresh
<1>3. \A d \in Calls : pc'[d] = "land" => documents'[word'[d]] = 0 \/ met' # {}
  BY DEF IInv, Fresh
<1>4. Fresh'
  BY <1>2, <1>3 DEF Fresh
<1>5. AskedOnce'
  BY DEF IInv, AskedOnce
<1>6. QED
  BY <1>1, <1>4, <1>5

-----------------------------------------------------------------------------
-----------------------------------------------------------------------------
(* Pastes *)

\* A paste begins beside those in progress.
LEMMA BeginCaptureInv == ASSUME IInv, NEW c \in Calls, NEW t \in Texts, BeginCapture(c, t)
                         PROVE  IInv'
<1>1. /\ pastes + 1 \in 1..MaxPastes /\ pastes \in Nat /\ HitsOf[t] \in SUBSET Values
      /\ pc[c] = "idle" /\ act[c] = "none" /\ paste[c] = 0
  BY TriageAssumption DEF BeginCapture, IInv, TypeOK, DeskTypes, Pasting, Job
<1>2. \A d \in Calls : /\ paste'[d] = IF d = c THEN pastes + 1 ELSE paste[d]
                       /\ act'[d] = IF d = c THEN "capture" ELSE act[d]
                       /\ todo'[d] = IF d = c THEN HitsOf[t] ELSE todo[d]
                       /\ fresh'[d] = IF d = c THEN {} ELSE fresh[d]
                       /\ paste[d] \in Nat /\ paste[d] <= pastes
  BY TriageAssumption DEF BeginCapture, Begin, Set, IInv, TypeOK, DeskTypes, CallTypes, Pasting
<1>3. met' = met \cup {{paste[d], pastes + 1} : d \in {d \in Calls : paste[d] # 0}}
  BY DEF BeginCapture
<1>4. \A d \in Calls : paste[d] # 0 => {paste[d], pastes + 1} \in met'
  BY <1>3
<1>5. \A p \in Proposed : state'[p] = state[p] /\ p[1] \in Nat
  BY DEF BeginCapture, queue, Proposed
<1>6. QueueTypes'
  BY <1>1, <1>2, <1>3, <1>4, <1>5 DEF IInv, TypeOK, QueueTypes, CallTypes, Job, BeginCapture, Set,
     Goto, Begin, graph, index, queue, ghosts
<1>7. GraphTypes'
  BY <1>1, <1>2, <1>3, <1>4, <1>5 DEF IInv, TypeOK, GraphTypes, CallTypes, Job, BeginCapture, Set,
     Goto, Begin, graph, index, queue, ghosts
<1>8. IndexTypes'
  BY <1>1, <1>2, <1>3, <1>4, <1>5 DEF IInv, TypeOK, IndexTypes, CallTypes, Job, BeginCapture, Set,
     Goto, Begin, graph, index, queue, ghosts
<1>9. LockTypes'
  BY <1>1, <1>2, <1>3, <1>4, <1>5 DEF IInv, TypeOK, LockTypes, CallTypes, Job, BeginCapture, Set,
     Goto, Begin, graph, index, queue, ghosts
<1>10. CallTypes'
  BY <1>1, <1>2, <1>3, <1>4, <1>5 DEF IInv, TypeOK, CallTypes, Job, Proposed, BeginCapture, Set,
     Goto, Begin, graph, index, queue, ghosts
<1>11. DeskTypes'
  <2>1. met' \subseteq SUBSET (1..MaxPastes)
    <3>1. \A d \in Calls : paste[d] # 0 => {paste[d], pastes + 1} \in SUBSET (1..MaxPastes)
      BY <1>1, <1>2 DEF IInv, TypeOK, DeskTypes
    <3>2. \A m \in met' : m \in met \/ \E d \in Calls : paste[d] # 0 /\ m = {paste[d], pastes + 1}
      BY <1>3
    <3>3. \A m \in met : m \in SUBSET (1..MaxPastes)
      BY DEF IInv, TypeOK, DeskTypes
    <3>4. \A m \in met' : m \in SUBSET (1..MaxPastes)
      BY <3>1, <3>2, <3>3
    <3>5. QED
      BY <3>4
  <2>2. /\ documents' \in [Texts -> Nat] /\ pastes' \in 0..MaxPastes /\ paste' \in [Calls -> 0..MaxPastes]
        /\ todo' \in [Calls -> SUBSET Values] /\ fresh' \in [Calls -> SUBSET Values]
    BY <1>1 DEF BeginCapture, Set, IInv, TypeOK, DeskTypes
  <2>3. QED
    BY <2>1, <2>2 DEF DeskTypes
<1>12. \A d, r : Holds(d, r)' <=> Holds(d, r)
  BY Staying DEF BeginCapture, graph, index, queue, ghosts
<1>13. \A r : /\ Free(r) <=> \A d \in Calls : ~Holds(d, r)
              /\ Free(r)' <=> \A d \in Calls : ~Holds(d, r)'
  BY <1>9, FreeIs, FreeThen DEF IInv, TypeOK
<1>14. Job'
  BY <1>1, <1>2, <1>3, <1>4, <1>5 DEF IInv, TypeOK, CallTypes, Job, QueueTypes, Proposed,
     BeginCapture, Set, Goto, Begin, graph, index, queue, ghosts
<1>15. Alone'
  BY <1>1, <1>2, <1>3, <1>4, <1>5, <1>12, <1>13 DEF IInv, TypeOK, CallTypes, Job, Alone,
     BeginCapture, Set, Goto, Begin, graph, index, queue, ghosts
<1>16. LocksAt'
  BY <1>1, <1>2, <1>3, <1>4, <1>5, <1>12, <1>13, RowAssumption DEF IInv, TypeOK, CallTypes, Job,
     LocksAt, Alone, Opening, Editing, Writing, BeginCapture, Set, Goto, Begin, graph, index, queue,
     ghosts
<1>17. Born'
  BY <1>1, <1>2, <1>3, <1>4, <1>5, TriageAssumption DEF IInv, TypeOK, CallTypes, Job, GraphTypes,
     Born, Opening, Editing, BeginCapture, Set, Goto, Begin, graph, index, queue, ghosts
<1>18. Paired'
  BY <1>1, <1>2, <1>3, <1>4, <1>5, TriageAssumption DEF IInv, TypeOK, CallTypes, Job, QueueTypes,
     GraphTypes, Paired, Born, Opening, BeginCapture, Set, Goto, Begin, graph, index, queue, ghosts
<1>19. Pasting'
  <2>1. \A d \in Calls : (paste'[d] # 0 <=> act'[d] = "capture") /\ paste'[d] <= pastes'
    BY <1>1, <1>2 DEF BeginCapture, IInv, Pasting
  <2>2. \A d \in Calls : paste'[d] = 0 => todo'[d] = {} /\ fresh'[d] = {}
    BY <1>1, <1>2 DEF IInv, Pasting
  <2>3. \A d, e \in Calls : d # e /\ paste'[d] # 0 /\ paste'[e] # 0 =>
           paste'[d] # paste'[e] /\ {paste'[d], paste'[e]} \in met'
    <3>1. ASSUME NEW d \in Calls, paste[d] # 0
          PROVE paste[d] # pastes + 1 /\ {paste[d], pastes + 1} \in met' /\ {pastes + 1, paste[d]} \in met'
      <4>1. {pastes + 1, paste[d]} = {paste[d], pastes + 1}
        OBVIOUS
      <4>2. QED
        BY <1>1, <1>2, <1>4, <3>1, <4>1
    <3>2. ASSUME NEW d \in Calls, NEW e \in Calls, d # e, paste[d] # 0, paste[e] # 0
          PROVE paste[d] # paste[e] /\ {paste[d], paste[e]} \in met'
      BY <1>3, <3>2 DEF IInv, Pasting
    <3>3. SUFFICES ASSUME NEW d \in Calls, NEW e \in Calls, d # e, paste'[d] # 0, paste'[e] # 0
                   PROVE paste'[d] # paste'[e] /\ {paste'[d], paste'[e]} \in met'
      OBVIOUS
    <3>4. CASE d = c
      BY <1>2, <3>1, <3>3, <3>4
    <3>5. CASE e = c
      BY <1>2, <3>1, <3>3, <3>5
    <3>6. QED
      BY <1>2, <3>2, <3>3, <3>4, <3>5
  <2>4. \A p \in Proposed : state'[p] # "none" => p[1] <= pastes' /\ \A d \in Calls : p[1] # paste'[d]
    BY <1>1, <1>2, <1>5 DEF BeginCapture, IInv, Pasting
  <2>5. QED
    BY <2>1, <2>2, <2>3, <2>4 DEF Pasting
<1>20. Fresh'
  <2>1. \A d \in Calls : \A q \in Proposed :
           q[2] \in fresh'[d] /\ state'[q] # "none" => {q[1], paste'[d]} \in met'
    BY <1>2, <1>3, <1>5 DEF IInv, Fresh
  <2>2. \A d \in Calls : pc'[d] = "land" => documents'[word'[d]] = 0 \/ met' # {}
    BY <1>3 DEF BeginCapture, Begin, Goto, Set, IInv, TypeOK, CallTypes, Fresh
  <2>3. QED
    BY <2>1, <2>2 DEF Fresh
<1>21. AskedOnce'
  BY <1>1, <1>2, <1>3, <1>4, <1>5 DEF IInv, TypeOK, CallTypes, Job, QueueTypes, DeskTypes,
     AskedOnce, Fresh, Pasting, Proposed, BeginCapture, Set, Goto, Begin, graph, index, queue, ghosts
<1>22. Drafts'
  BY <1>1, <1>2, <1>3, <1>4, <1>5, <1>12, <1>13, TriageAssumption DEF IInv, TypeOK, CallTypes,
     Job, IndexTypes, GraphTypes, Drafts, LocksAt, Alone, Writing, Born, Opening, Editing,
     BeginCapture, Set, Goto, Begin, graph, index, queue, ghosts
<1>23. Handing'
  BY <1>1, <1>2, <1>3, <1>4, <1>5, <1>12, <1>13, TriageAssumption DEF IInv, TypeOK, CallTypes,
     Job, IndexTypes, GraphTypes, Handing, Drafts, LocksAt, Alone, Writing, Carriers, Born, Opening,
     Editing, BeginCapture, Set, Goto, Begin, graph, index, queue, ghosts
<1>24. IndexTells'
  BY <1>1, <1>2, <1>3, <1>4, <1>5, <1>12, <1>13, TriageAssumption DEF IInv, TypeOK, CallTypes,
     Job, IndexTypes, GraphTypes, IndexTells, Drafts, Handing, LocksAt, Alone, Writing, Carriers,
     Born, Opening, Editing, BeginCapture, Set, Goto, Begin, graph, index, queue, ghosts
<1>25. QED
  BY <1>6, <1>7, <1>8, <1>9, <1>10, <1>11, <1>14, <1>15, <1>16, <1>17, <1>18, <1>19, <1>20, <1>21,
     <1>22, <1>23, <1>24 DEF IInv, TypeOK

\* Its document is stored.
LEMMA LandInv == ASSUME IInv, NEW c \in Calls, Land(c)
                 PROVE  IInv'
<1>1. act[c] = "capture" /\ word[c] \in Texts /\ paste[c] # 0
  BY DEF Land, IInv, TypeOK, CallTypes, Job, Pasting
<1>2. QueueTypes'
  BY <1>1 DEF IInv, TypeOK, QueueTypes, CallTypes, Job, Land, Set, Goto, graph, index, queue,
     ghosts, job
<1>3. GraphTypes'
  BY <1>1 DEF IInv, TypeOK, GraphTypes, CallTypes, Job, Land, Set, Goto, graph, index, queue,
     ghosts, job
<1>4. IndexTypes'
  BY <1>1 DEF IInv, TypeOK, IndexTypes, CallTypes, Job, Land, Set, Goto, graph, index, queue,
     ghosts, job
<1>5. LockTypes'
  BY <1>1 DEF IInv, TypeOK, LockTypes, CallTypes, Job, Land, Set, Goto, graph, index, queue,
     ghosts, job
<1>6. CallTypes'
  BY <1>1 DEF IInv, TypeOK, CallTypes, Job, Proposed, Land, Set, Goto, graph, index, queue,
     ghosts, job
<1>7. DeskTypes'
  BY <1>1, TriageAssumption DEF IInv, TypeOK, DeskTypes, CallTypes, Job, Land, Set, Goto, graph,
     index, queue, ghosts, job
<1>8. \A d, r : Holds(d, r)' <=> Holds(d, r)
  BY Staying DEF Land, graph, index, queue, ghosts, job
<1>9. \A r : /\ Free(r) <=> \A d \in Calls : ~Holds(d, r)
             /\ Free(r)' <=> \A d \in Calls : ~Holds(d, r)'
  BY <1>5, FreeIs, FreeThen DEF IInv, TypeOK
<1>10. Job'
  BY <1>1 DEF IInv, TypeOK, CallTypes, Job, QueueTypes, Proposed, Land, Set, Goto, graph, index,
     queue, ghosts, job
<1>11. Alone'
  BY <1>1, <1>8, <1>9 DEF IInv, TypeOK, CallTypes, Job, Alone, Land, Set, Goto, graph, index,
     queue, ghosts, job
<1>12. LocksAt'
  BY <1>1, <1>8, <1>9, RowAssumption DEF IInv, TypeOK, CallTypes, Job, LocksAt, Alone, Opening,
     Editing, Writing, Land, Set, Goto, graph, index, queue, ghosts, job
<1>13. Born'
  BY <1>1, TriageAssumption DEF IInv, TypeOK, CallTypes, Job, GraphTypes, Born, Opening, Editing,
     Land, Set, Goto, graph, index, queue, ghosts, job
<1>14. Paired'
  BY <1>1, TriageAssumption DEF IInv, TypeOK, CallTypes, Job, QueueTypes, GraphTypes, Paired,
     Born, Opening, Land, Set, Goto, graph, index, queue, ghosts, job
<1>15. Pasting'
  BY <1>1, TriageAssumption DEF IInv, TypeOK, CallTypes, Job, QueueTypes, DeskTypes, Pasting,
     Proposed, Land, Set, Goto, graph, index, queue, ghosts, job
<1>16. Fresh'
  <2>1. \A d \in Calls : \A q \in Proposed :
           q[2] \in fresh'[d] /\ state'[q] # "none" => {q[1], paste'[d]} \in met'
    BY DEF Land, queue, IInv, Fresh
  <2>2. ASSUME NEW d \in Calls, pc'[d] = "land" PROVE documents'[word'[d]] = 0 \/ met' # {}
    <3>1. d # c /\ pc[d] = "land"
      BY <2>2 DEF Land, Goto, Set, IInv, TypeOK, CallTypes
    <3>2. paste[d] # 0
      BY <3>1 DEF IInv, TypeOK, CallTypes, Job, Pasting
    <3>3. met # {}
      BY <1>1, <3>1, <3>2 DEF IInv, Pasting
    <3>4. QED
      BY <3>3 DEF Land
  <2>3. QED
    BY <2>1, <2>2 DEF Fresh
<1>17. AskedOnce'
  BY <1>1 DEF IInv, TypeOK, CallTypes, Job, QueueTypes, DeskTypes, AskedOnce, Fresh, Pasting,
     Proposed, Land, Set, Goto, graph, index, queue, ghosts, job
<1>18. Drafts'
  BY <1>1, <1>8, <1>9, TriageAssumption DEF IInv, TypeOK, CallTypes, Job, IndexTypes, GraphTypes,
     Drafts, LocksAt, Alone, Writing, Born, Opening, Editing, Land, Set, Goto, graph, index, queue,
     ghosts, job
<1>19. Handing'
  BY <1>1, <1>8, <1>9, TriageAssumption DEF IInv, TypeOK, CallTypes, Job, IndexTypes, GraphTypes,
     Handing, Drafts, LocksAt, Alone, Writing, Carriers, Born, Opening, Editing, Land, Set, Goto,
     graph, index, queue, ghosts, job
<1>20. IndexTells'
  BY <1>1, <1>8, <1>9, TriageAssumption DEF IInv, TypeOK, CallTypes, Job, IndexTypes, GraphTypes,
     IndexTells, Drafts, Handing, LocksAt, Alone, Writing, Carriers, Born, Opening, Editing, Land,
     Set, Goto, graph, index, queue, ghosts, job
<1>21. QED
  BY <1>2, <1>3, <1>4, <1>5, <1>6, <1>7, <1>10, <1>11, <1>12, <1>13, <1>14, <1>15, <1>16, <1>17,
     <1>18, <1>19, <1>20 DEF IInv, TypeOK

\* A value is looked up in the index and in the queue.
LEMMA ReadHitInv == ASSUME IInv, NEW c \in Calls, NEW v \in Values, ReadHit(c, v)
                    PROVE  IInv'
<1>1. QueueTypes'
  BY DEF IInv, TypeOK, QueueTypes, CallTypes, Job, ReadHit, Set, Queued, graph, index, queue,
     ghosts, job
<1>2. GraphTypes'
  BY DEF IInv, TypeOK, GraphTypes, CallTypes, Job, ReadHit, Set, Queued, graph, index, queue,
     ghosts, job
<1>3. IndexTypes'
  BY DEF IInv, TypeOK, IndexTypes, CallTypes, Job, ReadHit, Set, Queued, graph, index, queue,
     ghosts, job
<1>4. LockTypes'
  BY DEF IInv, TypeOK, LockTypes, CallTypes, Job, ReadHit, Set, Queued, graph, index, queue,
     ghosts, job
<1>5. CallTypes'
  BY DEF IInv, TypeOK, CallTypes, Job, Proposed, ReadHit, Set, Queued, graph, index, queue,
     ghosts, job
<1>6. DeskTypes'
  BY TriageAssumption DEF IInv, TypeOK, DeskTypes, CallTypes, Job, ReadHit, Set, Queued, graph,
     index, queue, ghosts, job
<1>7. \A d, r : Holds(d, r)' <=> Holds(d, r)
  BY Staying DEF ReadHit, graph, index, queue, ghosts, job
<1>8. \A r : /\ Free(r) <=> \A d \in Calls : ~Holds(d, r)
             /\ Free(r)' <=> \A d \in Calls : ~Holds(d, r)'
  BY <1>4, FreeIs, FreeThen DEF IInv, TypeOK
<1>9. Job'
  BY DEF IInv, TypeOK, CallTypes, Job, QueueTypes, Proposed, ReadHit, Set, Queued, graph, index,
     queue, ghosts, job
<1>10. Alone'
  BY <1>7, <1>8 DEF IInv, TypeOK, CallTypes, Job, Alone, ReadHit, Set, Queued, graph, index,
     queue, ghosts, job
<1>11. LocksAt'
  BY <1>7, <1>8, RowAssumption DEF IInv, TypeOK, CallTypes, Job, LocksAt, Alone, Opening, Editing,
     Writing, ReadHit, Set, Queued, graph, index, queue, ghosts, job
<1>12. Born'
  BY TriageAssumption DEF IInv, TypeOK, CallTypes, Job, GraphTypes, Born, Opening, Editing,
     ReadHit, Set, Queued, graph, index, queue, ghosts, job
<1>13. Paired'
  BY TriageAssumption DEF IInv, TypeOK, CallTypes, Job, QueueTypes, GraphTypes, Paired, Born,
     Opening, ReadHit, Set, Queued, graph, index, queue, ghosts, job
<1>14. Pasting'
  BY TriageAssumption DEF IInv, TypeOK, CallTypes, Job, QueueTypes, DeskTypes, Pasting, Proposed,
     ReadHit, Set, Queued, graph, index, queue, ghosts, job
<1>15. Fresh'
  BY DEF IInv, TypeOK, CallTypes, Job, QueueTypes, DeskTypes, Fresh, Pasting, Proposed, ReadHit,
     Set, Queued, graph, index, queue, ghosts, job
<1>16. AskedOnce'
  BY DEF IInv, TypeOK, CallTypes, Job, QueueTypes, DeskTypes, AskedOnce, Fresh, Pasting, Proposed,
     ReadHit, Set, Queued, graph, index, queue, ghosts, job
<1>17. Drafts'
  BY <1>7, <1>8, TriageAssumption DEF IInv, TypeOK, CallTypes, Job, IndexTypes, GraphTypes,
     Drafts, LocksAt, Alone, Writing, Born, Opening, Editing, ReadHit, Set, Queued, graph, index,
     queue, ghosts, job
<1>18. Handing'
  BY <1>7, <1>8, TriageAssumption DEF IInv, TypeOK, CallTypes, Job, IndexTypes, GraphTypes,
     Handing, Drafts, LocksAt, Alone, Writing, Carriers, Born, Opening, Editing, ReadHit, Set,
     Queued, graph, index, queue, ghosts, job
<1>19. IndexTells'
  BY <1>7, <1>8, TriageAssumption DEF IInv, TypeOK, CallTypes, Job, IndexTypes, GraphTypes,
     IndexTells, Drafts, Handing, LocksAt, Alone, Writing, Carriers, Born, Opening, Editing, ReadHit,
     Set, Queued, graph, index, queue, ghosts, job
<1>20. QED
  BY <1>1, <1>2, <1>3, <1>4, <1>5, <1>6, <1>9, <1>10, <1>11, <1>12, <1>13, <1>14, <1>15, <1>16,
     <1>17, <1>18, <1>19 DEF IInv, TypeOK

\* What nobody had asked is asked, in one transaction.
LEMMA ProposeInv == ASSUME IInv, NEW c \in Calls, Propose(c)
                    PROVE  IInv'
<1>1. act[c] = "capture" /\ paste[c] # 0 /\ paste[c] \in 1..MaxPastes /\ paste[c] <= pastes
  BY TriageAssumption DEF Propose, IInv, TypeOK, CallTypes, DeskTypes, Job, Pasting
<1>2. \A p \in Proposed : /\ state'[p] = IF p[1] = paste[c] /\ p[2] \in fresh[c] THEN "PROPOSED" ELSE state[p]
                          /\ p[1] = paste[c] => state[p] = "none" /\ applied[p] = Nobody
                          /\ applied'[p] = applied[p]
  BY <1>1 DEF Propose, IInv, TypeOK, QueueTypes, Pasting, Paired
<1>3. \A d \in Calls : /\ paste'[d] = IF d = c THEN 0 ELSE paste[d]
                       /\ act'[d] = IF d = c THEN "none" ELSE act[d]
                       /\ pc'[d] = IF d = c THEN "idle" ELSE pc[d]
                       /\ todo'[d] = IF d = c THEN {} ELSE todo[d]
                       /\ fresh'[d] = IF d = c THEN {} ELSE fresh[d]
                       /\ prop'[d] = IF d = c THEN NoProposal ELSE prop[d]
                       /\ word'[d] = IF d = c THEN Nobody ELSE word[d]
  BY DEF Propose, EndCapture, End, Goto, Begin, Set, IInv, TypeOK, DeskTypes, CallTypes
<1>4. pastes' = pastes /\ met' = met /\ documents' = documents /\ life' = life /\ origin' = origin
  BY DEF Propose, graph
<1>5. QueueTypes'
  BY <1>1, <1>2, <1>3, <1>4 DEF IInv, TypeOK, QueueTypes, CallTypes, Job, Propose, EndCapture,
     Set, End, Goto, Begin, graph, ghosts
<1>6. GraphTypes'
  BY <1>1, <1>2, <1>3, <1>4 DEF IInv, TypeOK, GraphTypes, CallTypes, Job, Propose, EndCapture,
     Set, End, Goto, Begin, graph, ghosts
<1>7. IndexTypes'
  BY <1>1, <1>2, <1>3, <1>4 DEF IInv, TypeOK, IndexTypes, CallTypes, Job, Propose, EndCapture,
     Set, End, Goto, Begin, graph, ghosts
<1>8. LockTypes'
  BY <1>1, <1>2, <1>3, <1>4 DEF IInv, TypeOK, LockTypes, CallTypes, Job, Propose, EndCapture, Set,
     End, Goto, Begin, graph, ghosts
<1>9. CallTypes'
  BY <1>1, <1>2, <1>3, <1>4 DEF IInv, TypeOK, CallTypes, Job, Proposed, Propose, EndCapture, Set,
     End, Goto, Begin, graph, ghosts
<1>10. DeskTypes'
  BY <1>1, <1>2, <1>3, <1>4, TriageAssumption DEF IInv, TypeOK, DeskTypes, CallTypes, Job,
     Propose, EndCapture, Set, End, Goto, Begin, graph, ghosts
<1>11. \A d, r : Holds(d, r)' <=> Holds(d, r) /\ d # c
  BY Ending DEF Propose, EndCapture, End
<1>12. \A r : /\ Free(r) <=> \A d \in Calls : ~Holds(d, r)
              /\ Free(r)' <=> \A d \in Calls : ~Holds(d, r)'
  BY <1>8, FreeIs, FreeThen DEF IInv, TypeOK
<1>13. Job'
  BY <1>1, <1>2, <1>3, <1>4 DEF IInv, TypeOK, CallTypes, Job, QueueTypes, Proposed, Propose,
     EndCapture, Set, End, Goto, Begin, graph, ghosts
<1>14. Alone'
  BY <1>1, <1>2, <1>3, <1>4, <1>11, <1>12 DEF IInv, TypeOK, CallTypes, Job, Alone, Propose,
     EndCapture, Set, End, Goto, Begin, graph, ghosts
<1>15. LocksAt'
  BY <1>1, <1>2, <1>3, <1>4, <1>11, <1>12, RowAssumption DEF IInv, TypeOK, CallTypes, Job,
     LocksAt, Alone, Opening, Editing, Writing, Propose, EndCapture, Set, End, Goto, Begin, graph,
     ghosts
<1>16. Born'
  BY <1>1, <1>2, <1>3, <1>4, TriageAssumption DEF IInv, TypeOK, CallTypes, Job, GraphTypes, Born,
     Opening, Editing, Propose, EndCapture, Set, End, Goto, Begin, graph, ghosts
<1>17. Paired'
  BY <1>1, <1>2, <1>3, <1>4 DEF IInv, Paired, Opening
<1>18. Pasting'
  <2>1. \A p \in Proposed : state'[p] # "none" => p[1] <= pastes' /\ \A d \in Calls : p[1] # paste'[d]
    <3>1. ASSUME NEW p \in Proposed, state'[p] # "none"
          PROVE p[1] <= pastes /\ \A d \in Calls : p[1] # paste'[d]
      <4>1. p[1] # 0
        BY DEF Proposed
      <4>2. CASE p[1] = paste[c]
        <5>1. \A d \in Calls : d # c /\ paste[d] # 0 => paste[c] # paste[d]
          BY <1>1 DEF IInv, Pasting
        <5>2. ASSUME NEW d \in Calls PROVE p[1] # paste'[d]
          BY <1>3, <4>1, <4>2, <5>1
        <5>3. p[1] <= pastes
          BY <1>1, <4>2
        <5>4. QED
          BY <5>2, <5>3
      <4>3. CASE p[1] # paste[c]
        BY <1>2, <1>3, <3>1, <4>1, <4>3 DEF IInv, Pasting
      <4>4. QED
        BY <4>2, <4>3
    <3>2. QED
      BY <1>4, <3>1
  <2>2. \A d \in Calls : (paste'[d] # 0 <=> act'[d] = "capture") /\ paste'[d] <= pastes'
    <3>1. 0 <= pastes
      BY TriageAssumption DEF IInv, TypeOK, DeskTypes
    <3>2. QED
      BY <1>3, <1>4, <3>1 DEF IInv, Pasting
  <2>3. QED
    BY <1>3, <1>4, <2>1, <2>2 DEF IInv, Pasting
<1>19. Fresh'
  <2>1. ASSUME NEW d \in Calls, NEW q \in Proposed, q[2] \in fresh'[d], state'[q] # "none"
        PROVE {q[1], paste'[d]} \in met'
    <3>1. d # c /\ q[2] \in fresh[d] /\ paste'[d] = paste[d]
      BY <1>3, <2>1
    <3>2. CASE state[q] # "none"
      BY <1>4, <3>1, <3>2 DEF IInv, Fresh
    <3>3. CASE state[q] = "none"
      <4>1. q[1] = paste[c] /\ paste[d] # 0
        BY <1>2, <2>1, <3>1, <3>3 DEF IInv, Pasting
      <4>2. QED
        BY <1>1, <1>4, <3>1, <4>1 DEF IInv, Pasting
    <3>4. QED
      BY <3>2, <3>3
  <2>2. \A d \in Calls : pc'[d] = "land" => documents'[word'[d]] = 0 \/ met' # {}
    BY <1>3, <1>4 DEF IInv, Fresh
  <2>3. QED
    BY <2>1, <2>2 DEF Fresh
<1>20. AskedOnce'
  <2>1. ASSUME NEW p \in Proposed, NEW q \in Proposed, p[2] = q[2], p[1] # q[1],
               state'[p] # "none", state'[q] # "none"
        PROVE {p[1], q[1]} \in met
    <3>1. CASE state[p] # "none" /\ state[q] # "none"
      BY <2>1, <3>1 DEF IInv, AskedOnce
    <3>2. CASE state[p] = "none"
      <4>1. p[1] = paste[c] /\ p[2] \in fresh[c] /\ state[q] # "none"
        BY <1>2, <2>1, <3>2
      <4>2. {q[1], paste[c]} \in met
        BY <2>1, <4>1 DEF IInv, Fresh
      <4>3. {q[1], paste[c]} = {p[1], q[1]}
        BY <4>1
      <4>4. QED
        BY <4>2, <4>3
    <3>3. CASE state[q] = "none"
      <4>1. q[1] = paste[c] /\ q[2] \in fresh[c] /\ state[p] # "none"
        BY <1>2, <2>1, <3>3
      <4>2. QED
        BY <2>1, <4>1 DEF IInv, Fresh
    <3>4. QED
      BY <3>1, <3>2, <3>3
  <2>2. QED
    BY <1>4, <2>1 DEF IInv, AskedOnce
<1>21. Drafts'
  BY <1>1, <1>2, <1>3, <1>4, <1>11, <1>12, TriageAssumption DEF IInv, TypeOK, CallTypes, Job,
     IndexTypes, GraphTypes, Drafts, LocksAt, Alone, Writing, Born, Opening, Editing, Propose,
     EndCapture, Set, End, Goto, Begin, graph, ghosts
<1>22. Handing'
  BY <1>1, <1>2, <1>3, <1>4, <1>11, <1>12, TriageAssumption DEF IInv, TypeOK, CallTypes, Job,
     IndexTypes, GraphTypes, Handing, Drafts, LocksAt, Alone, Writing, Carriers, Born, Opening,
     Editing, Propose, EndCapture, Set, End, Goto, Begin, graph, ghosts
<1>23. IndexTells'
  BY <1>1, <1>2, <1>3, <1>4, <1>11, <1>12, TriageAssumption DEF IInv, TypeOK, CallTypes, Job,
     IndexTypes, GraphTypes, IndexTells, Drafts, Handing, LocksAt, Alone, Writing, Carriers, Born,
     Opening, Editing, Propose, EndCapture, Set, End, Goto, Begin, graph, ghosts
<1>24. QED
  BY <1>5, <1>6, <1>7, <1>8, <1>9, <1>10, <1>13, <1>14, <1>15, <1>16, <1>17, <1>18, <1>19, <1>20,
     <1>21, <1>22, <1>23 DEF IInv, TypeOK

\* A paste that dies has asked nothing.
LEMMA CaptureDiesInv == ASSUME IInv, NEW c \in Calls, CaptureDies(c)
                        PROVE  IInv'
<1>1. QueueTypes'
  BY DEF IInv, TypeOK, QueueTypes, CallTypes, Job, CaptureDies, EndCapture, Set, End, Goto, Begin,
     graph, queue, ghosts
<1>2. GraphTypes'
  BY DEF IInv, TypeOK, GraphTypes, CallTypes, Job, CaptureDies, EndCapture, Set, End, Goto, Begin,
     graph, queue, ghosts
<1>3. IndexTypes'
  BY DEF IInv, TypeOK, IndexTypes, CallTypes, Job, CaptureDies, EndCapture, Set, End, Goto, Begin,
     graph, queue, ghosts
<1>4. LockTypes'
  BY DEF IInv, TypeOK, LockTypes, CallTypes, Job, CaptureDies, EndCapture, Set, End, Goto, Begin,
     graph, queue, ghosts
<1>5. CallTypes'
  BY DEF IInv, TypeOK, CallTypes, Job, Proposed, CaptureDies, EndCapture, Set, End, Goto, Begin,
     graph, queue, ghosts
<1>6. DeskTypes'
  BY TriageAssumption DEF IInv, TypeOK, DeskTypes, CallTypes, Job, CaptureDies, EndCapture, Set,
     End, Goto, Begin, graph, queue, ghosts
<1>7. \A d, r : Holds(d, r)' <=> Holds(d, r) /\ d # c
  BY Ending DEF CaptureDies, EndCapture, End
<1>8. \A r : /\ Free(r) <=> \A d \in Calls : ~Holds(d, r)
             /\ Free(r)' <=> \A d \in Calls : ~Holds(d, r)'
  BY <1>4, FreeIs, FreeThen DEF IInv, TypeOK
<1>9. Job'
  BY DEF IInv, TypeOK, CallTypes, Job, QueueTypes, Proposed, CaptureDies, EndCapture, Set, End,
     Goto, Begin, graph, queue, ghosts
<1>10. Alone'
  BY <1>7, <1>8 DEF IInv, TypeOK, CallTypes, Job, Alone, CaptureDies, EndCapture, Set, End, Goto,
     Begin, graph, queue, ghosts
<1>11. LocksAt'
  BY <1>7, <1>8, RowAssumption DEF IInv, TypeOK, CallTypes, Job, LocksAt, Alone, Opening, Editing,
     Writing, CaptureDies, EndCapture, Set, End, Goto, Begin, graph, queue, ghosts
<1>12. Born'
  BY TriageAssumption DEF IInv, TypeOK, CallTypes, Job, GraphTypes, Born, Opening, Editing,
     CaptureDies, EndCapture, Set, End, Goto, Begin, graph, queue, ghosts
<1>13. Paired'
  BY TriageAssumption DEF IInv, TypeOK, CallTypes, Job, QueueTypes, GraphTypes, Paired, Born,
     Opening, CaptureDies, EndCapture, Set, End, Goto, Begin, graph, queue, ghosts
<1>14. Pasting'
  <2>1. \A d \in Calls : /\ paste'[d] = IF d = c THEN 0 ELSE paste[d]
                         /\ act'[d] = IF d = c THEN "none" ELSE act[d]
                         /\ todo'[d] = IF d = c THEN {} ELSE todo[d]
                         /\ fresh'[d] = IF d = c THEN {} ELSE fresh[d]
    BY DEF CaptureDies, EndCapture, End, Goto, Begin, Set, IInv, TypeOK, DeskTypes, CallTypes
  <2>2. \A p \in Proposed : state'[p] # "none" => p[1] <= pastes' /\ \A d \in Calls : p[1] # paste'[d]
    BY <2>1 DEF CaptureDies, queue, IInv, Pasting, Proposed
  <2>3. pastes \in Nat
    BY TriageAssumption DEF IInv, TypeOK, DeskTypes
  <2>4. QED
    BY <2>1, <2>2, <2>3 DEF CaptureDies, IInv, Pasting
<1>15. Fresh'
  BY DEF IInv, TypeOK, CallTypes, Job, QueueTypes, DeskTypes, Fresh, Pasting, Proposed,
     CaptureDies, EndCapture, Set, End, Goto, Begin, graph, queue, ghosts
<1>16. AskedOnce'
  BY DEF IInv, TypeOK, CallTypes, Job, QueueTypes, DeskTypes, AskedOnce, Fresh, Pasting, Proposed,
     CaptureDies, EndCapture, Set, End, Goto, Begin, graph, queue, ghosts
<1>17. Drafts'
  BY <1>7, <1>8, TriageAssumption DEF IInv, TypeOK, CallTypes, Job, IndexTypes, GraphTypes,
     Drafts, LocksAt, Alone, Writing, Born, Opening, Editing, CaptureDies, EndCapture, Set, End,
     Goto, Begin, graph, queue, ghosts
<1>18. Handing'
  BY <1>7, <1>8, TriageAssumption DEF IInv, TypeOK, CallTypes, Job, IndexTypes, GraphTypes,
     Handing, Drafts, LocksAt, Alone, Writing, Carriers, Born, Opening, Editing, CaptureDies,
     EndCapture, Set, End, Goto, Begin, graph, queue, ghosts
<1>19. IndexTells'
  BY <1>7, <1>8, TriageAssumption DEF IInv, TypeOK, CallTypes, Job, IndexTypes, GraphTypes,
     IndexTells, Drafts, Handing, LocksAt, Alone, Writing, Carriers, Born, Opening, Editing,
     CaptureDies, EndCapture, Set, End, Goto, Begin, graph, queue, ghosts
<1>20. QED
  BY <1>1, <1>2, <1>3, <1>4, <1>5, <1>6, <1>9, <1>10, <1>11, <1>12, <1>13, <1>14, <1>15, <1>16,
     <1>17, <1>18, <1>19 DEF IInv, TypeOK

-----------------------------------------------------------------------------
(* Accepts and entries *)

\* A reviewer accepts a proposal that was pending when it was read.
LEMMA BeginAcceptInv == ASSUME IInv, NEW c \in Calls, NEW p \in Proposed, BeginAccept(c, p)
                        PROVE  IInv'
<1>1. QueueTypes'
  BY DEF IInv, TypeOK, QueueTypes, CallTypes, Job, BeginAccept, Goto, Set, Begin, Pending, graph,
     index, queue, desk, ghosts
<1>2. GraphTypes'
  BY DEF IInv, TypeOK, GraphTypes, CallTypes, Job, BeginAccept, Goto, Set, Begin, Pending, graph,
     index, queue, desk, ghosts
<1>3. IndexTypes'
  BY DEF IInv, TypeOK, IndexTypes, CallTypes, Job, BeginAccept, Goto, Set, Begin, Pending, graph,
     index, queue, desk, ghosts
<1>4. LockTypes'
  BY DEF IInv, TypeOK, LockTypes, CallTypes, Job, BeginAccept, Goto, Set, Begin, Pending, graph,
     index, queue, desk, ghosts
<1>5. CallTypes'
  BY DEF IInv, TypeOK, CallTypes, Job, Proposed, BeginAccept, Goto, Set, Begin, Pending, graph,
     index, queue, desk, ghosts
<1>6. DeskTypes'
  BY TriageAssumption DEF IInv, TypeOK, DeskTypes, CallTypes, Job, BeginAccept, Goto, Set, Begin,
     Pending, graph, index, queue, desk, ghosts
<1>7. \A d, r : Holds(d, r)' <=> Holds(d, r)
  BY Staying DEF BeginAccept, graph, index, queue, desk, ghosts
<1>8. \A r : /\ Free(r) <=> \A d \in Calls : ~Holds(d, r)
             /\ Free(r)' <=> \A d \in Calls : ~Holds(d, r)'
  BY <1>4, FreeIs, FreeThen DEF IInv, TypeOK
<1>9. Job'
  BY DEF IInv, TypeOK, CallTypes, Job, QueueTypes, Proposed, BeginAccept, Goto, Set, Begin,
     Pending, graph, index, queue, desk, ghosts
<1>10. Alone'
  BY <1>7, <1>8 DEF IInv, TypeOK, CallTypes, Job, Alone, BeginAccept, Goto, Set, Begin, Pending,
     graph, index, queue, desk, ghosts
<1>11. LocksAt'
  BY <1>7, <1>8, RowAssumption DEF IInv, TypeOK, CallTypes, Job, LocksAt, Alone, Opening, Editing,
     Writing, BeginAccept, Goto, Set, Begin, Pending, graph, index, queue, desk, ghosts
<1>12. Born'
  BY TriageAssumption DEF IInv, TypeOK, CallTypes, Job, GraphTypes, Born, Opening, Editing,
     BeginAccept, Goto, Set, Begin, Pending, graph, index, queue, desk, ghosts
<1>13. Paired'
  BY TriageAssumption DEF IInv, TypeOK, CallTypes, Job, QueueTypes, GraphTypes, Paired, Born,
     Opening, BeginAccept, Goto, Set, Begin, Pending, graph, index, queue, desk, ghosts
<1>14. Pasting' /\ Fresh' /\ AskedOnce'
  BY DeskStays DEF IInv, TypeOK, CallTypes, Job, QueueTypes, Pasting, BeginAccept, Goto, Set,
     Begin, Pending, graph, index, queue, desk, ghosts
<1>15. Drafts'
  BY <1>7, <1>8, TriageAssumption DEF IInv, TypeOK, CallTypes, Job, IndexTypes, GraphTypes,
     Drafts, LocksAt, Alone, Writing, Born, Opening, Editing, BeginAccept, Goto, Set, Begin, Pending,
     graph, index, queue, desk, ghosts
<1>16. Handing'
  BY <1>7, <1>8, TriageAssumption DEF IInv, TypeOK, CallTypes, Job, IndexTypes, GraphTypes,
     Handing, Drafts, LocksAt, Alone, Writing, Carriers, Born, Opening, Editing, BeginAccept, Goto,
     Set, Begin, Pending, graph, index, queue, desk, ghosts
<1>17. IndexTells'
  BY <1>7, <1>8, TriageAssumption DEF IInv, TypeOK, CallTypes, Job, IndexTypes, GraphTypes,
     IndexTells, Drafts, Handing, LocksAt, Alone, Writing, Carriers, Born, Opening, Editing,
     BeginAccept, Goto, Set, Begin, Pending, graph, index, queue, desk, ghosts
<1>18. QED
  BY <1>1, <1>2, <1>3, <1>4, <1>5, <1>6, <1>9, <1>10, <1>11, <1>12, <1>13, <1>14, <1>15, <1>16,
     <1>17 DEF IInv, TypeOK

\* Under the row's lock it is read again, and its entity made.
LEMMA LockProposalInv == ASSUME IInv, NEW c \in Calls, LockProposal(c)
                         PROVE  IInv'
<1>1. /\ act[c] = "accept" /\ prop[c] \in Proposed /\ word[c] \in Values /\ ~Opening(c) /\ ~Editing(c)
      /\ \A v \in Values : ~Holds(c, v)
  BY DEF LockProposal, IInv, TypeOK, CallTypes, Job, Proposed, Opening, Editing, LocksAt, Writing
<1>2. /\ owner' = owner /\ raced' = raced /\ left' = left /\ act'[c] \in {"accept", "none"}
      /\ \A v \in Values : draft'[v] = draft[v]
      /\ \A d \in Calls : d # c => /\ act'[d] = act[d] /\ pc'[d] = pc[d]
                                   /\ node'[d] = node[d] /\ word'[d] = word[d]
      /\ \A n \in Entities :
           life'[n] # life[n] \/ label'[n] # label[n] => life[n] = "none" /\ life'[n] = "open"
  <2>1. CASE Pending(prop[c])
    BY <1>1, <2>1 DEF LockProposal, Goto, Set, ghosts, IInv, TypeOK, CallTypes, GraphTypes
  <2>2. CASE ~Pending(prop[c])
    BY <1>1, <2>2 DEF LockProposal, End, Begin, Goto, Set, graph, ghosts, IInv, TypeOK, CallTypes
  <2>3. QED
    BY <2>1, <2>2
<1>3. QueueTypes'
  BY <1>1, <1>2 DEF IInv, TypeOK, QueueTypes, CallTypes, Job, LockProposal, Lock, Set, Goto, End,
     Begin, Pending, graph, queue, desk, ghosts
<1>4. GraphTypes'
  BY <1>1, <1>2 DEF IInv, TypeOK, GraphTypes, CallTypes, Job, LockProposal, Lock, Set, Goto, End,
     Begin, Pending, graph, queue, desk, ghosts
<1>5. IndexTypes'
  BY <1>1, <1>2 DEF IInv, TypeOK, IndexTypes, CallTypes, Job, LockProposal, Lock, Set, Goto, End,
     Begin, Pending, graph, queue, desk, ghosts
<1>6. LockTypes'
  BY <1>1, <1>2 DEF IInv, TypeOK, LockTypes, CallTypes, Job, LockProposal, Lock, Set, Goto, End,
     Begin, Pending, graph, queue, desk, ghosts
<1>7. CallTypes'
  BY <1>1, <1>2 DEF IInv, TypeOK, CallTypes, Job, Proposed, LockProposal, Lock, Set, Goto, End,
     Begin, Pending, graph, queue, desk, ghosts
<1>8. DeskTypes'
  BY <1>1, <1>2, TriageAssumption DEF IInv, TypeOK, DeskTypes, CallTypes, Job, LockProposal, Lock,
     Set, Goto, End, Begin, Pending, graph, queue, desk, ghosts
<1>9. \A d, r : Holds(d, r)' <=> IF Pending(prop[c]) THEN Holds(d, r) \/ (d = c /\ r = prop[c])
                                                ELSE Holds(d, r) /\ d # c
  <2>1. CASE Pending(prop[c])
    BY <2>1, Locking DEF LockProposal, Lock
  <2>2. CASE ~Pending(prop[c])
    BY <2>2, Ending DEF LockProposal, End
  <2>3. QED
    BY <2>1, <2>2
<1>10. \A r : /\ Free(r) <=> \A d \in Calls : ~Holds(d, r)
              /\ Free(r)' <=> \A d \in Calls : ~Holds(d, r)'
  BY <1>6, FreeIs, FreeThen DEF IInv, TypeOK
<1>11. Job'
  BY <1>1, <1>2 DEF IInv, TypeOK, CallTypes, Job, QueueTypes, Proposed, LockProposal, Lock, Set,
     Goto, End, Begin, Pending, graph, queue, desk, ghosts
<1>12. Alone'
  BY <1>1, <1>2, <1>9, <1>10 DEF IInv, TypeOK, CallTypes, Job, Alone, LockProposal, Lock, Set,
     Goto, End, Begin, Pending, graph, queue, desk, ghosts
<1>13. LocksAt'
  BY <1>1, <1>2, <1>9, <1>10, RowAssumption DEF IInv, TypeOK, CallTypes, Job, LocksAt, Alone,
     Opening, Editing, Writing, LockProposal, Lock, Set, Goto, End, Begin, Pending, graph, queue,
     desk, ghosts
<1>14. Born'
  BY <1>1, <1>2, TriageAssumption DEF IInv, TypeOK, CallTypes, Job, GraphTypes, Born, Opening,
     Editing, LockProposal, Lock, Set, Goto, End, Begin, Pending, graph, queue, desk, ghosts
<1>15. Paired'
  BY <1>1, <1>2, TriageAssumption DEF IInv, TypeOK, CallTypes, Job, QueueTypes, GraphTypes,
     Paired, Born, Opening, LockProposal, Lock, Set, Goto, End, Begin, Pending, graph, queue, desk,
     ghosts
<1>16. Pasting' /\ Fresh' /\ AskedOnce'
  BY <1>1, <1>2, DeskStays DEF IInv, TypeOK, CallTypes, Job, QueueTypes, Pasting, LockProposal,
     Lock, Set, Goto, End, Begin, Pending, graph, queue, desk, ghosts
<1>17. Drafts'
  <2>1. \A d \in Calls : \A v \in Values : Holds(d, v)' <=> Holds(d, v)
    BY <1>1, <1>9, RowAssumption
  <2>2. \A d \in Calls : act[d] = "relabel" /\ Editing(d) => label'[node[d]] = label[node[d]]
    BY <1>2 DEF IInv, Born, Job
  <2>3. QED
    BY <1>1, <1>2, <1>10, <2>1, <2>2 DEF IInv, Drafts, LocksAt, TypeOK, IndexTypes, Editing, Writing
<1>18. Handing'
  <2>1. /\ \A d \in Calls : \A v \in Values : Holds(d, v)' <=> Holds(d, v)
        /\ \A d \in Calls : \A n \in Entities : Holds(d, n)' <=> Holds(d, n)
    BY <1>1, <1>9, RowAssumption DEF IInv, LocksAt
  <2>2. \A v \in Values : Carriers(v)' = Carriers(v)
    BY <1>2 DEF Carriers
  <2>3. QED
    BY <1>1, <1>2, <1>10, <2>1, <2>2 DEF IInv, Handing, Writing, TypeOK, IndexTypes
<1>19. IndexTells'
  BY <1>1, <1>2, <1>9, <1>10, TriageAssumption DEF IInv, TypeOK, CallTypes, Job, IndexTypes,
     GraphTypes, IndexTells, Drafts, Handing, LocksAt, Alone, Writing, Carriers, Born, Opening,
     Editing, LockProposal, Lock, Set, Goto, End, Begin, Pending, graph, queue, desk, ghosts
<1>20. QED
  BY <1>3, <1>4, <1>5, <1>6, <1>7, <1>8, <1>11, <1>12, <1>13, <1>14, <1>15, <1>16, <1>17, <1>18,
     <1>19 DEF IInv, TypeOK

\* An entity is entered by hand.
LEMMA EnterInv == ASSUME IInv, NEW c \in Calls, NEW v \in Values, Enter(c, v)
                  PROVE  IInv'
<1>1. QueueTypes'
  BY DEF IInv, TypeOK, QueueTypes, CallTypes, Job, Enter, Set, Goto, Begin, index, queue, desk,
     ghosts
<1>2. GraphTypes'
  BY DEF IInv, TypeOK, GraphTypes, CallTypes, Job, Enter, Set, Goto, Begin, index, queue, desk,
     ghosts
<1>3. IndexTypes'
  BY DEF IInv, TypeOK, IndexTypes, CallTypes, Job, Enter, Set, Goto, Begin, index, queue, desk,
     ghosts
<1>4. LockTypes'
  BY DEF IInv, TypeOK, LockTypes, CallTypes, Job, Enter, Set, Goto, Begin, index, queue, desk,
     ghosts
<1>5. CallTypes'
  BY DEF IInv, TypeOK, CallTypes, Job, Proposed, Enter, Set, Goto, Begin, index, queue, desk, ghosts
<1>6. DeskTypes'
  BY TriageAssumption DEF IInv, TypeOK, DeskTypes, CallTypes, Job, Enter, Set, Goto, Begin, index,
     queue, desk, ghosts
<1>7. \A d, r : Holds(d, r)' <=> Holds(d, r)
  BY Staying DEF Enter, index, queue, desk, ghosts
<1>8. \A r : /\ Free(r) <=> \A d \in Calls : ~Holds(d, r)
             /\ Free(r)' <=> \A d \in Calls : ~Holds(d, r)'
  BY <1>4, FreeIs, FreeThen DEF IInv, TypeOK
<1>9. Job'
  BY DEF IInv, TypeOK, CallTypes, Job, QueueTypes, Proposed, Enter, Set, Goto, Begin, index,
     queue, desk, ghosts
<1>10. Alone'
  BY <1>7, <1>8 DEF IInv, TypeOK, CallTypes, Job, Alone, Enter, Set, Goto, Begin, index, queue,
     desk, ghosts
<1>11. LocksAt'
  BY <1>7, <1>8, RowAssumption DEF IInv, TypeOK, CallTypes, Job, LocksAt, Alone, Opening, Editing,
     Writing, Enter, Set, Goto, Begin, index, queue, desk, ghosts
<1>12. Born'
  BY TriageAssumption DEF IInv, TypeOK, CallTypes, Job, GraphTypes, Born, Opening, Editing, Enter,
     Set, Goto, Begin, index, queue, desk, ghosts
<1>13. Paired'
  BY TriageAssumption DEF IInv, TypeOK, CallTypes, Job, QueueTypes, GraphTypes, Paired, Born,
     Opening, Enter, Set, Goto, Begin, index, queue, desk, ghosts
<1>14. Pasting' /\ Fresh' /\ AskedOnce'
  BY DeskStays DEF IInv, TypeOK, CallTypes, Job, QueueTypes, Pasting, Enter, Set, Goto, Begin,
     index, queue, desk, ghosts
<1>15. Drafts'
  BY <1>7, <1>8, TriageAssumption DEF IInv, TypeOK, CallTypes, Job, IndexTypes, GraphTypes,
     Drafts, LocksAt, Alone, Writing, Born, Opening, Editing, Enter, Set, Goto, Begin, index, queue,
     desk, ghosts
<1>16. Handing'
  BY <1>7, <1>8, TriageAssumption DEF IInv, TypeOK, CallTypes, Job, IndexTypes, GraphTypes,
     Handing, Drafts, LocksAt, Alone, Writing, Carriers, Born, Opening, Editing, Enter, Set, Goto,
     Begin, index, queue, desk, ghosts
<1>17. IndexTells'
  BY <1>7, <1>8, TriageAssumption DEF IInv, TypeOK, CallTypes, Job, IndexTypes, GraphTypes,
     IndexTells, Drafts, Handing, LocksAt, Alone, Writing, Carriers, Born, Opening, Editing, Enter,
     Set, Goto, Begin, index, queue, desk, ghosts
<1>18. QED
  BY <1>1, <1>2, <1>3, <1>4, <1>5, <1>6, <1>9, <1>10, <1>11, <1>12, <1>13, <1>14, <1>15, <1>16,
     <1>17 DEF IInv, TypeOK

\* The value's row is written under its lock, and its first owner stays.
LEMMA RecordInv == ASSUME IInv, NEW c \in Calls, Record(c)
                   PROVE  IInv'
<1>1. /\ Writing(c) /\ pc[c] = "record" /\ word[c] \in Values /\ node[c] \in Entities
      /\ act[c] \in {"accept", "enter", "relabel"}
  BY DEF Record, IInv, TypeOK, CallTypes, Job, Writing, Born, Opening, Proposed
<1>2. /\ word[c] \notin Proposed \cup Entities /\ \A d \in Calls : ~Holds(d, word[c])
  BY <1>1, RowAssumption, FreeIs DEF Record, IInv, TypeOK, LocksAt, Writing
<1>3. /\ owner' = owner /\ raced' = raced /\ life' = life /\ label' = label
      /\ act' = act /\ node' = node /\ word' = word /\ prop' = prop
      /\ \A v \in Values : draft'[v] = IF v = word[c] THEN Upserted(c, v) ELSE draft[v]
      /\ \A d \in Calls : pc'[d] = IF d = c THEN "commit" ELSE pc[d]
  BY <1>1 DEF Record, graph, ghosts, job, Set, Goto, IInv, TypeOK, IndexTypes, CallTypes
<1>4. QueueTypes'
  BY <1>1, <1>2, <1>3 DEF IInv, TypeOK, QueueTypes, CallTypes, Job, Record, Lock, Set, Goto,
     Upserted, graph, queue, desk, ghosts, job
<1>5. GraphTypes'
  BY <1>1, <1>2, <1>3 DEF IInv, TypeOK, GraphTypes, CallTypes, Job, Record, Lock, Set, Goto,
     Upserted, graph, queue, desk, ghosts, job
<1>6. IndexTypes'
  BY <1>1, <1>2, <1>3 DEF IInv, TypeOK, IndexTypes, CallTypes, Job, Record, Lock, Set, Goto,
     Upserted, graph, queue, desk, ghosts, job
<1>7. LockTypes'
  BY <1>1, <1>2, <1>3 DEF IInv, TypeOK, LockTypes, CallTypes, Job, Record, Lock, Set, Goto,
     Upserted, graph, queue, desk, ghosts, job
<1>8. CallTypes'
  BY <1>1, <1>2, <1>3 DEF IInv, TypeOK, CallTypes, Job, Proposed, Record, Lock, Set, Goto,
     Upserted, graph, queue, desk, ghosts, job
<1>9. DeskTypes'
  BY <1>1, <1>2, <1>3, TriageAssumption DEF IInv, TypeOK, DeskTypes, CallTypes, Job, Record, Lock,
     Set, Goto, Upserted, graph, queue, desk, ghosts, job
<1>10. \A d, r : Holds(d, r)' <=> Holds(d, r) \/ (d = c /\ r = word[c])
  BY Locking DEF Record, Lock
<1>11. \A r : /\ Free(r) <=> \A d \in Calls : ~Holds(d, r)
              /\ Free(r)' <=> \A d \in Calls : ~Holds(d, r)'
  BY <1>7, FreeIs, FreeThen DEF IInv, TypeOK
<1>12. Job'
  BY <1>1, <1>2, <1>3 DEF IInv, TypeOK, CallTypes, Job, QueueTypes, Proposed, Record, Lock, Set,
     Goto, Upserted, graph, queue, desk, ghosts, job
<1>13. Alone'
  BY <1>1, <1>2, <1>3, <1>10, <1>11 DEF IInv, TypeOK, CallTypes, Job, Alone, Record, Lock, Set,
     Goto, Upserted, graph, queue, desk, ghosts, job
<1>14. LocksAt'
  <2>1. \A d \in Calls : /\ Opening(d)' <=> Opening(d)
                         /\ Editing(d)' <=> Editing(d)
                         /\ Writing(d)' <=> Writing(d)
    BY <1>1, <1>3 DEF Opening, Editing, Writing
  <2>2. QED
    BY <1>1, <1>2, <1>3, <1>10, <2>1 DEF IInv, LocksAt
<1>15. Born'
  BY <1>1, <1>2, <1>3, TriageAssumption DEF IInv, TypeOK, CallTypes, Job, GraphTypes, Born,
     Opening, Editing, Record, Lock, Set, Goto, Upserted, graph, queue, desk, ghosts, job
<1>16. Paired'
  BY <1>1, <1>2, <1>3, TriageAssumption DEF IInv, TypeOK, CallTypes, Job, QueueTypes, GraphTypes,
     Paired, Born, Opening, Record, Lock, Set, Goto, Upserted, graph, queue, desk, ghosts, job
<1>17. Pasting' /\ Fresh' /\ AskedOnce'
  BY <1>1, <1>2, <1>3, DeskStays DEF IInv, TypeOK, CallTypes, Job, QueueTypes, Pasting, Record,
     Lock, Set, Goto, Upserted, graph, queue, desk, ghosts, job
<1>18. Drafts'
  <2>1. \/ Upserted(c, word[c]) = owner[word[c]] /\ owner[word[c]] # Nobody
        \/ /\ Upserted(c, word[c]) = node[c]
           /\ owner[word[c]] # Nobody => life[owner[word[c]]] = "retired"
    BY DEF Upserted
  <2>2. QED
    BY <1>1, <1>2, <1>3, <1>10, <1>11, <2>1 DEF IInv, Drafts
<1>19. Handing'
  <2>1. \A d \in Calls : Writing(d)' <=> Writing(d)
    BY <1>1, <1>3 DEF Writing
  <2>2. \A n \in Entities : Free(n)' <=> Free(n)
    BY <1>2, <1>10, <1>11
  <2>3. \A v \in Values : Carriers(v)' = Carriers(v)
    BY <1>3 DEF Carriers
  <2>4. QED
    BY <1>1, <1>2, <1>3, <1>10, <2>1, <2>2, <2>3 DEF IInv, Handing, TypeOK, IndexTypes
<1>20. IndexTells'
  BY <1>1, <1>2, <1>3, <1>10, <1>11, TriageAssumption DEF IInv, TypeOK, CallTypes, Job,
     IndexTypes, GraphTypes, IndexTells, Drafts, Handing, LocksAt, Alone, Writing, Carriers, Born,
     Opening, Editing, Record, Lock, Set, Goto, Upserted, graph, queue, desk, ghosts, job
<1>21. QED
  BY <1>4, <1>5, <1>6, <1>7, <1>8, <1>9, <1>12, <1>13, <1>14, <1>15, <1>16, <1>17, <1>18, <1>19,
     <1>20 DEF IInv, TypeOK

-----------------------------------------------------------------------------
(* Rejections and deferrals *)

\* A reviewer rejects or defers what was not accepted when it was read.
LEMMA BeginDispositionInv == ASSUME IInv, NEW c \in Calls,
                                    NEW p \in Proposed,
                                    NEW s \in {"REJECTED", "DISPUTED"},
                                    BeginDisposition(c, p, s)
                             PROVE  IInv'
<1>1. QueueTypes'
  BY DEF IInv, TypeOK, QueueTypes, CallTypes, Job, BeginDisposition, Goto, Set, Begin, graph,
     index, queue, desk, ghosts
<1>2. GraphTypes'
  BY DEF IInv, TypeOK, GraphTypes, CallTypes, Job, BeginDisposition, Goto, Set, Begin, graph,
     index, queue, desk, ghosts
<1>3. IndexTypes'
  BY DEF IInv, TypeOK, IndexTypes, CallTypes, Job, BeginDisposition, Goto, Set, Begin, graph,
     index, queue, desk, ghosts
<1>4. LockTypes'
  BY DEF IInv, TypeOK, LockTypes, CallTypes, Job, BeginDisposition, Goto, Set, Begin, graph,
     index, queue, desk, ghosts
<1>5. CallTypes'
  BY DEF IInv, TypeOK, CallTypes, Job, Proposed, BeginDisposition, Goto, Set, Begin, graph, index,
     queue, desk, ghosts
<1>6. DeskTypes'
  BY TriageAssumption DEF IInv, TypeOK, DeskTypes, CallTypes, Job, BeginDisposition, Goto, Set,
     Begin, graph, index, queue, desk, ghosts
<1>7. \A d, r : Holds(d, r)' <=> Holds(d, r)
  BY Staying DEF BeginDisposition, graph, index, queue, desk, ghosts
<1>8. \A r : /\ Free(r) <=> \A d \in Calls : ~Holds(d, r)
             /\ Free(r)' <=> \A d \in Calls : ~Holds(d, r)'
  BY <1>4, FreeIs, FreeThen DEF IInv, TypeOK
<1>9. Job'
  BY DEF IInv, TypeOK, CallTypes, Job, QueueTypes, Proposed, BeginDisposition, Goto, Set, Begin,
     graph, index, queue, desk, ghosts
<1>10. Alone'
  BY <1>7, <1>8 DEF IInv, TypeOK, CallTypes, Job, Alone, BeginDisposition, Goto, Set, Begin,
     graph, index, queue, desk, ghosts
<1>11. LocksAt'
  BY <1>7, <1>8, RowAssumption DEF IInv, TypeOK, CallTypes, Job, LocksAt, Alone, Opening, Editing,
     Writing, BeginDisposition, Goto, Set, Begin, graph, index, queue, desk, ghosts
<1>12. Born'
  BY TriageAssumption DEF IInv, TypeOK, CallTypes, Job, GraphTypes, Born, Opening, Editing,
     BeginDisposition, Goto, Set, Begin, graph, index, queue, desk, ghosts
<1>13. Paired'
  BY TriageAssumption DEF IInv, TypeOK, CallTypes, Job, QueueTypes, GraphTypes, Paired, Born,
     Opening, BeginDisposition, Goto, Set, Begin, graph, index, queue, desk, ghosts
<1>14. Pasting' /\ Fresh' /\ AskedOnce'
  BY DeskStays DEF IInv, TypeOK, CallTypes, Job, QueueTypes, Pasting, BeginDisposition, Goto, Set,
     Begin, graph, index, queue, desk, ghosts
<1>15. Drafts'
  BY <1>7, <1>8, TriageAssumption DEF IInv, TypeOK, CallTypes, Job, IndexTypes, GraphTypes,
     Drafts, LocksAt, Alone, Writing, Born, Opening, Editing, BeginDisposition, Goto, Set, Begin,
     graph, index, queue, desk, ghosts
<1>16. Handing'
  BY <1>7, <1>8, TriageAssumption DEF IInv, TypeOK, CallTypes, Job, IndexTypes, GraphTypes,
     Handing, Drafts, LocksAt, Alone, Writing, Carriers, Born, Opening, Editing, BeginDisposition,
     Goto, Set, Begin, graph, index, queue, desk, ghosts
<1>17. IndexTells'
  BY <1>7, <1>8, TriageAssumption DEF IInv, TypeOK, CallTypes, Job, IndexTypes, GraphTypes,
     IndexTells, Drafts, Handing, LocksAt, Alone, Writing, Carriers, Born, Opening, Editing,
     BeginDisposition, Goto, Set, Begin, graph, index, queue, desk, ghosts
<1>18. QED
  BY <1>1, <1>2, <1>3, <1>4, <1>5, <1>6, <1>9, <1>10, <1>11, <1>12, <1>13, <1>14, <1>15, <1>16,
     <1>17 DEF IInv, TypeOK

\* The proposal's state is written, whatever it has become.
LEMMA DisposeInv == ASSUME IInv, NEW c \in Calls, Dispose(c)
                    PROVE  IInv'
<1>1. /\ act[c] \in {"REJECTED", "DISPUTED"} /\ prop[c] \in Proposed /\ state[prop[c]] # "none"
      /\ pc[c] = "dispose" /\ prop[c] # NoProposal
  BY TriageAssumption DEF Dispose, IInv, TypeOK, CallTypes, Job, Proposed, NoProposal
<1>2. \A p \in Proposed : /\ state'[p] = IF p = prop[c] THEN act[c] ELSE state[p]
                          /\ state'[p] = "none" <=> state[p] = "none"
  BY <1>1 DEF Dispose, Set, IInv, TypeOK, QueueTypes
<1>3. \A d \in Calls : /\ act'[d] = IF d = c THEN "none" ELSE act[d]
                       /\ pc'[d] = IF d = c THEN "idle" ELSE pc[d]
                       /\ d # c => prop'[d] = prop[d] /\ word'[d] = word[d]
  BY DEF Dispose, End, Goto, Begin, Set, IInv, TypeOK, CallTypes
<1>4. \A d \in Calls : ~Holds(d, prop[c])
  BY FreeIs DEF Dispose, IInv, TypeOK
<1>5. QueueTypes'
  BY <1>1, <1>2, <1>3, <1>4 DEF IInv, TypeOK, QueueTypes, CallTypes, Job, Dispose, Set, End, Goto,
     Begin, graph, desk, ghosts
<1>6. GraphTypes'
  BY <1>1, <1>2, <1>3, <1>4 DEF IInv, TypeOK, GraphTypes, CallTypes, Job, Dispose, Set, End, Goto,
     Begin, graph, desk, ghosts
<1>7. IndexTypes'
  BY <1>1, <1>2, <1>3, <1>4 DEF IInv, TypeOK, IndexTypes, CallTypes, Job, Dispose, Set, End, Goto,
     Begin, graph, desk, ghosts
<1>8. LockTypes'
  BY <1>1, <1>2, <1>3, <1>4 DEF IInv, TypeOK, LockTypes, CallTypes, Job, Dispose, Set, End, Goto,
     Begin, graph, desk, ghosts
<1>9. CallTypes'
  BY <1>1, <1>2, <1>3, <1>4 DEF IInv, TypeOK, CallTypes, Job, Proposed, Dispose, Set, End, Goto,
     Begin, graph, desk, ghosts
<1>10. DeskTypes'
  BY <1>1, <1>2, <1>3, <1>4, TriageAssumption DEF IInv, TypeOK, DeskTypes, CallTypes, Job,
     Dispose, Set, End, Goto, Begin, graph, desk, ghosts
<1>11. \A d, r : Holds(d, r)' <=> Holds(d, r) /\ d # c
  BY Ending DEF Dispose, End
<1>12. \A r : /\ Free(r) <=> \A d \in Calls : ~Holds(d, r)
              /\ Free(r)' <=> \A d \in Calls : ~Holds(d, r)'
  BY <1>8, FreeIs, FreeThen DEF IInv, TypeOK
<1>13. Job'
  BY <1>1, <1>2, <1>3, <1>4 DEF IInv, TypeOK, CallTypes, Job, QueueTypes, Proposed, Dispose, Set,
     End, Goto, Begin, graph, desk, ghosts
<1>14. Alone'
  BY <1>1, <1>2, <1>3, <1>4, <1>11, <1>12 DEF IInv, TypeOK, CallTypes, Job, Alone, Dispose, Set,
     End, Goto, Begin, graph, desk, ghosts
<1>15. LocksAt'
  BY <1>1, <1>2, <1>3, <1>4, <1>11, <1>12, RowAssumption DEF IInv, TypeOK, CallTypes, Job,
     LocksAt, Alone, Opening, Editing, Writing, Dispose, Set, End, Goto, Begin, graph, desk, ghosts
<1>16. Born'
  BY <1>1, <1>2, <1>3, <1>4, TriageAssumption DEF IInv, TypeOK, CallTypes, Job, GraphTypes, Born,
     Opening, Editing, Dispose, Set, End, Goto, Begin, graph, desk, ghosts
<1>17. Paired'
  <2>1. \A d \in Calls : act[d] = "accept" /\ Opening(d) => prop[d] # prop[c]
    BY <1>1, <1>4 DEF IInv, LocksAt
  <2>2. life' = life /\ origin' = origin /\ applied' = applied
    BY DEF Dispose, graph
  <2>3. QED
    BY <1>1, <1>2, <1>3, <2>1, <2>2 DEF IInv, Paired, Opening
<1>18. Pasting' /\ Fresh' /\ AskedOnce'
  BY <1>1, <1>2, <1>3, DeskStays DEF Dispose, desk
<1>19. Drafts'
  BY <1>1, <1>2, <1>3, <1>4, <1>11, <1>12, TriageAssumption DEF IInv, TypeOK, CallTypes, Job,
     IndexTypes, GraphTypes, Drafts, LocksAt, Alone, Writing, Born, Opening, Editing, Dispose, Set,
     End, Goto, Begin, graph, desk, ghosts
<1>20. Handing'
  BY <1>1, <1>2, <1>3, <1>4, <1>11, <1>12, TriageAssumption DEF IInv, TypeOK, CallTypes, Job,
     IndexTypes, GraphTypes, Handing, Drafts, LocksAt, Alone, Writing, Carriers, Born, Opening,
     Editing, Dispose, Set, End, Goto, Begin, graph, desk, ghosts
<1>21. IndexTells'
  BY <1>1, <1>2, <1>3, <1>4, <1>11, <1>12, TriageAssumption DEF IInv, TypeOK, CallTypes, Job,
     IndexTypes, GraphTypes, IndexTells, Drafts, Handing, LocksAt, Alone, Writing, Carriers, Born,
     Opening, Editing, Dispose, Set, End, Goto, Begin, graph, desk, ghosts
<1>22. QED
  BY <1>5, <1>6, <1>7, <1>8, <1>9, <1>10, <1>13, <1>14, <1>15, <1>16, <1>17, <1>18, <1>19, <1>20,
     <1>21 DEF IInv, TypeOK

-----------------------------------------------------------------------------
(* Retirements and corrections *)

\* An entity that is live is to be retired or relabelled.
LEMMA BeginEditInv == ASSUME IInv, NEW c \in Calls, NEW n \in Entities, NEW w \in Values \cup {Nobody},
                             BeginEdit(c, n, w)
                      PROVE  IInv'
<1>1. QueueTypes'
  BY DEF IInv, TypeOK, QueueTypes, CallTypes, Job, BeginEdit, Goto, Set, Begin, graph, index,
     queue, desk, ghosts
<1>2. GraphTypes'
  BY DEF IInv, TypeOK, GraphTypes, CallTypes, Job, BeginEdit, Goto, Set, Begin, graph, index,
     queue, desk, ghosts
<1>3. IndexTypes'
  BY DEF IInv, TypeOK, IndexTypes, CallTypes, Job, BeginEdit, Goto, Set, Begin, graph, index,
     queue, desk, ghosts
<1>4. LockTypes'
  BY DEF IInv, TypeOK, LockTypes, CallTypes, Job, BeginEdit, Goto, Set, Begin, graph, index,
     queue, desk, ghosts
<1>5. CallTypes'
  BY DEF IInv, TypeOK, CallTypes, Job, Proposed, BeginEdit, Goto, Set, Begin, graph, index, queue,
     desk, ghosts
<1>6. DeskTypes'
  BY TriageAssumption DEF IInv, TypeOK, DeskTypes, CallTypes, Job, BeginEdit, Goto, Set, Begin,
     graph, index, queue, desk, ghosts
<1>7. \A d, r : Holds(d, r)' <=> Holds(d, r)
  BY Staying DEF BeginEdit, graph, index, queue, desk, ghosts
<1>8. \A r : /\ Free(r) <=> \A d \in Calls : ~Holds(d, r)
             /\ Free(r)' <=> \A d \in Calls : ~Holds(d, r)'
  BY <1>4, FreeIs, FreeThen DEF IInv, TypeOK
<1>9. Job'
  BY DEF IInv, TypeOK, CallTypes, Job, QueueTypes, Proposed, BeginEdit, Goto, Set, Begin, graph,
     index, queue, desk, ghosts
<1>10. Alone'
  BY <1>7, <1>8 DEF IInv, TypeOK, CallTypes, Job, Alone, BeginEdit, Goto, Set, Begin, graph,
     index, queue, desk, ghosts
<1>11. LocksAt'
  BY <1>7, <1>8, RowAssumption DEF IInv, TypeOK, CallTypes, Job, LocksAt, Alone, Opening, Editing,
     Writing, BeginEdit, Goto, Set, Begin, graph, index, queue, desk, ghosts
<1>12. Born'
  BY TriageAssumption DEF IInv, TypeOK, CallTypes, Job, GraphTypes, Born, Opening, Editing,
     BeginEdit, Goto, Set, Begin, graph, index, queue, desk, ghosts
<1>13. Paired'
  BY TriageAssumption DEF IInv, TypeOK, CallTypes, Job, QueueTypes, GraphTypes, Paired, Born,
     Opening, BeginEdit, Goto, Set, Begin, graph, index, queue, desk, ghosts
<1>14. Pasting' /\ Fresh' /\ AskedOnce'
  BY DeskStays DEF IInv, TypeOK, CallTypes, Job, QueueTypes, Pasting, BeginEdit, Goto, Set, Begin,
     graph, index, queue, desk, ghosts
<1>15. Drafts'
  BY <1>7, <1>8, TriageAssumption DEF IInv, TypeOK, CallTypes, Job, IndexTypes, GraphTypes,
     Drafts, LocksAt, Alone, Writing, Born, Opening, Editing, BeginEdit, Goto, Set, Begin, graph,
     index, queue, desk, ghosts
<1>16. Handing'
  BY <1>7, <1>8, TriageAssumption DEF IInv, TypeOK, CallTypes, Job, IndexTypes, GraphTypes,
     Handing, Drafts, LocksAt, Alone, Writing, Carriers, Born, Opening, Editing, BeginEdit, Goto,
     Set, Begin, graph, index, queue, desk, ghosts
<1>17. IndexTells'
  BY <1>7, <1>8, TriageAssumption DEF IInv, TypeOK, CallTypes, Job, IndexTypes, GraphTypes,
     IndexTells, Drafts, Handing, LocksAt, Alone, Writing, Carriers, Born, Opening, Editing,
     BeginEdit, Goto, Set, Begin, graph, index, queue, desk, ghosts
<1>18. QED
  BY <1>1, <1>2, <1>3, <1>4, <1>5, <1>6, <1>9, <1>10, <1>11, <1>12, <1>13, <1>14, <1>15, <1>16,
     <1>17 DEF IInv, TypeOK

\* The entity's row is locked, if it is still live.
LEMMA LockNodeInv == ASSUME IInv, NEW c \in Calls, LockNode(c)
                     PROVE  IInv'
<1>1. /\ act[c] \in {"retire", "relabel"} /\ node[c] \in Entities /\ pc[c] = "edit" /\ node[c] \notin Values
      /\ \A v \in Values : ~Holds(c, v)
  BY RowAssumption DEF LockNode, IInv, TypeOK, CallTypes, Job, LocksAt, Writing
<1>2. /\ owner' = owner /\ life' = life /\ label' = label /\ raced \subseteq raced'
      /\ \A v \in Values : draft'[v] = draft[v]
      /\ \A d \in Calls : d # c => /\ act'[d] = act[d] /\ pc'[d] = pc[d]
                                   /\ node'[d] = node[d] /\ word'[d] = word[d]
  BY <1>1 DEF LockNode, End, Begin, Goto, Set, graph, job, IInv, TypeOK, CallTypes, IndexTypes
<1>3. QueueTypes'
  BY <1>1, <1>2 DEF IInv, TypeOK, QueueTypes, CallTypes, Job, LockNode, Lock, Goto, Set, End,
     Begin, graph, queue, desk, job
<1>4. GraphTypes'
  BY <1>1, <1>2 DEF IInv, TypeOK, GraphTypes, CallTypes, Job, LockNode, Lock, Goto, Set, End,
     Begin, graph, queue, desk, job
<1>5. IndexTypes'
  BY <1>1, <1>2 DEF IInv, TypeOK, IndexTypes, CallTypes, Job, LockNode, Lock, Goto, Set, End,
     Begin, graph, queue, desk, job
<1>6. LockTypes'
  BY <1>1, <1>2 DEF IInv, TypeOK, LockTypes, CallTypes, Job, LockNode, Lock, Goto, Set, End,
     Begin, graph, queue, desk, job
<1>7. CallTypes'
  BY <1>1, <1>2 DEF IInv, TypeOK, CallTypes, Job, Proposed, LockNode, Lock, Goto, Set, End, Begin,
     graph, queue, desk, job
<1>8. DeskTypes'
  BY <1>1, <1>2, TriageAssumption DEF IInv, TypeOK, DeskTypes, CallTypes, Job, LockNode, Lock,
     Goto, Set, End, Begin, graph, queue, desk, job
<1>9. \A d, r : Holds(d, r)' <=> IF life[node[c]] = "live" THEN Holds(d, r) \/ (d = c /\ r = node[c])
                                                       ELSE Holds(d, r) /\ d # c
  <2>1. CASE life[node[c]] = "live"
    BY <2>1, Locking DEF LockNode, Lock
  <2>2. CASE life[node[c]] # "live"
    BY <2>2, Ending DEF LockNode, End
  <2>3. QED
    BY <2>1, <2>2
<1>10. \A r : /\ Free(r) <=> \A d \in Calls : ~Holds(d, r)
              /\ Free(r)' <=> \A d \in Calls : ~Holds(d, r)'
  BY <1>6, FreeIs, FreeThen DEF IInv, TypeOK
<1>11. Job'
  BY <1>1, <1>2 DEF IInv, TypeOK, CallTypes, Job, QueueTypes, Proposed, LockNode, Lock, Goto, Set,
     End, Begin, graph, queue, desk, job
<1>12. Alone'
  BY <1>1, <1>2, <1>9, <1>10 DEF IInv, TypeOK, CallTypes, Job, Alone, LockNode, Lock, Goto, Set,
     End, Begin, graph, queue, desk, job
<1>13. LocksAt'
  BY <1>1, <1>2, <1>9, <1>10, RowAssumption DEF IInv, TypeOK, CallTypes, Job, LocksAt, Alone,
     Opening, Editing, Writing, LockNode, Lock, Goto, Set, End, Begin, graph, queue, desk, job
<1>14. Born'
  BY <1>1, <1>2, TriageAssumption DEF IInv, TypeOK, CallTypes, Job, GraphTypes, Born, Opening,
     Editing, LockNode, Lock, Goto, Set, End, Begin, graph, queue, desk, job
<1>15. Paired'
  BY <1>1, <1>2, TriageAssumption DEF IInv, TypeOK, CallTypes, Job, QueueTypes, GraphTypes,
     Paired, Born, Opening, LockNode, Lock, Goto, Set, End, Begin, graph, queue, desk, job
<1>16. Pasting' /\ Fresh' /\ AskedOnce'
  BY <1>1, <1>2, DeskStays DEF IInv, TypeOK, CallTypes, Job, QueueTypes, Pasting, LockNode, Lock,
     Goto, Set, End, Begin, graph, queue, desk, job
<1>17. Drafts'
  <2>1. \A d \in Calls : \A v \in Values : Holds(d, v)' <=> Holds(d, v)
    BY <1>1, <1>9
  <2>2. QED
    BY <1>1, <1>2, <1>10, <2>1 DEF IInv, Drafts
<1>18. Handing'
  BY <1>1, <1>2, <1>9, <1>10, TriageAssumption DEF IInv, TypeOK, CallTypes, Job, IndexTypes,
     GraphTypes, Handing, Drafts, LocksAt, Alone, Writing, Carriers, Born, Opening, Editing,
     LockNode, Lock, Goto, Set, End, Begin, graph, queue, desk, job
<1>19. IndexTells'
  BY <1>1, <1>2, <1>9, <1>10, TriageAssumption DEF IInv, TypeOK, CallTypes, Job, IndexTypes,
     GraphTypes, IndexTells, Drafts, Handing, LocksAt, Alone, Writing, Carriers, Born, Opening,
     Editing, LockNode, Lock, Goto, Set, End, Begin, graph, queue, desk, job
<1>20. QED
  BY <1>3, <1>4, <1>5, <1>6, <1>7, <1>8, <1>11, <1>12, <1>13, <1>14, <1>15, <1>16, <1>17, <1>18,
     <1>19 DEF IInv, TypeOK

\* A retirement locks the rows of the entity it retires.
LEMMA ReleaseInv == ASSUME IInv, NEW c \in Calls, Release(c)
                    PROVE  IInv'
<1>1. /\ act[c] = "retire" /\ node[c] \in Entities /\ pc[c] = "retire"
      /\ \A v \in Values : ~Holds(c, v)
      /\ \A v \in Values : owner[v] = node[c] => draft[v] = Nobody /\ \A d \in Calls : ~Holds(d, v)
  BY FreeIs DEF Release, IInv, TypeOK, CallTypes, Job, LocksAt, Writing, Drafts
<1>2. /\ owner' = owner /\ life' = life /\ label' = label /\ raced' = raced /\ draft' = draft
      /\ act' = act /\ node' = node /\ word' = word
      /\ \A d \in Calls : d # c => pc'[d] = pc[d]
      /\ pc'[c] \in {"hand", "commit"}
      /\ pc'[c] = "commit" => \A v \in Values : owner[v] # node[c]
  BY DEF Release, Goto, Set, graph, index, ghosts, job, IInv, TypeOK, CallTypes
<1>3. QueueTypes'
  BY <1>1, <1>2 DEF IInv, TypeOK, QueueTypes, CallTypes, Job, Release, Goto, Set, graph, index,
     queue, desk, ghosts, job
<1>4. GraphTypes'
  BY <1>1, <1>2 DEF IInv, TypeOK, GraphTypes, CallTypes, Job, Release, Goto, Set, graph, index,
     queue, desk, ghosts, job
<1>5. IndexTypes'
  BY <1>1, <1>2 DEF IInv, TypeOK, IndexTypes, CallTypes, Job, Release, Goto, Set, graph, index,
     queue, desk, ghosts, job
<1>6. LockTypes'
  BY <1>1, <1>2 DEF IInv, TypeOK, LockTypes, CallTypes, Job, Release, Goto, Set, graph, index,
     queue, desk, ghosts, job
<1>7. CallTypes'
  BY <1>1, <1>2 DEF IInv, TypeOK, CallTypes, Job, Proposed, Release, Goto, Set, graph, index,
     queue, desk, ghosts, job
<1>8. DeskTypes'
  BY <1>1, <1>2, TriageAssumption DEF IInv, TypeOK, DeskTypes, CallTypes, Job, Release, Goto, Set,
     graph, index, queue, desk, ghosts, job
<1>9. \A d, r : Holds(d, r)' <=> Holds(d, r) \/ (d = c /\ r \in {v \in Values : owner[v] = node[c]})
  BY LockingMany DEF Release
<1>10. \A r : /\ Free(r) <=> \A d \in Calls : ~Holds(d, r)
              /\ Free(r)' <=> \A d \in Calls : ~Holds(d, r)'
  BY <1>6, FreeIs, FreeThen DEF IInv, TypeOK
<1>11. Job'
  BY <1>1, <1>2 DEF IInv, TypeOK, CallTypes, Job, QueueTypes, Proposed, Release, Goto, Set, graph,
     index, queue, desk, ghosts, job
<1>12. Alone'
  BY <1>1, <1>2, <1>9, <1>10 DEF IInv, TypeOK, CallTypes, Job, Alone, Release, Goto, Set, graph,
     index, queue, desk, ghosts, job
<1>13. LocksAt'
  BY <1>1, <1>2, <1>9, <1>10, RowAssumption DEF IInv, TypeOK, CallTypes, Job, LocksAt, Alone,
     Opening, Editing, Writing, Release, Goto, Set, graph, index, queue, desk, ghosts, job
<1>14. Born'
  BY <1>1, <1>2, TriageAssumption DEF IInv, TypeOK, CallTypes, Job, GraphTypes, Born, Opening,
     Editing, Release, Goto, Set, graph, index, queue, desk, ghosts, job
<1>15. Paired'
  BY <1>1, <1>2, TriageAssumption DEF IInv, TypeOK, CallTypes, Job, QueueTypes, GraphTypes,
     Paired, Born, Opening, Release, Goto, Set, graph, index, queue, desk, ghosts, job
<1>16. Pasting' /\ Fresh' /\ AskedOnce'
  BY <1>1, <1>2, DeskStays DEF IInv, TypeOK, CallTypes, Job, QueueTypes, Pasting, Release, Goto,
     Set, graph, index, queue, desk, ghosts, job
<1>17. Drafts'
  BY <1>1, <1>2, <1>9, <1>10, TriageAssumption DEF IInv, TypeOK, CallTypes, Job, IndexTypes,
     GraphTypes, Drafts, LocksAt, Alone, Writing, Born, Opening, Editing, Release, Goto, Set, graph,
     index, queue, desk, ghosts, job
<1>18. Handing'
  <2>1. /\ \A d \in Calls : \A v \in Values : Holds(d, v)' <=> Holds(d, v) \/ (d = c /\ owner[v] = node[c])
        /\ \A n \in Entities : Free(n)' <=> Free(n)
    BY <1>9, <1>10, RowAssumption
  <2>2. \A v \in Values : Carriers(v)' = Carriers(v)
    BY <1>2 DEF Carriers
  <2>3. QED
    BY <1>1, <1>2, <2>1, <2>2 DEF IInv, Handing, Writing, TypeOK, IndexTypes
<1>19. IndexTells'
  BY <1>1, <1>2, <1>9, <1>10, TriageAssumption DEF IInv, TypeOK, CallTypes, Job, IndexTypes,
     GraphTypes, IndexTells, Drafts, Handing, LocksAt, Alone, Writing, Carriers, Born, Opening,
     Editing, Release, Goto, Set, graph, index, queue, desk, ghosts, job
<1>20. QED
  BY <1>3, <1>4, <1>5, <1>6, <1>7, <1>8, <1>11, <1>12, <1>13, <1>14, <1>15, <1>16, <1>17, <1>18,
     <1>19 DEF IInv, TypeOK

\* The row of its own value goes to another that carries it.
LEMMA HandInv == ASSUME IInv, NEW c \in Calls, Hand(c)
                 PROVE  IInv'
<1>1. /\ act[c] = "retire" /\ node[c] \in Entities /\ pc[c] = "hand"
  BY DEF Hand, IInv, TypeOK, CallTypes, Job
<1>2. /\ owner' = owner /\ life' = life /\ label' = label /\ raced \subseteq raced' /\ left' = left
      /\ act' = act /\ node' = node /\ word' = word /\ locks' = locks
      /\ \A d \in Calls : pc'[d] = IF d = c THEN "commit" ELSE pc[d]
  BY DEF Hand, Goto, Set, graph, job, IInv, TypeOK, CallTypes
<1>3. /\ draft' \in [Values -> Entities \cup {Nobody}] /\ raced' \subseteq Values
      /\ \A v \in Values : draft'[v] # draft[v] =>
           /\ v = label[node[c]] /\ Holds(c, v) /\ draft'[v] \in Twins(c)
           /\ Free(draft'[v]) \/ v \in raced'
      /\ label[node[c]] \in Values /\ Holds(c, label[node[c]]) /\ Twins(c) # {}
           => draft'[label[node[c]]] \in Twins(c)
  <2>1. \A n \in Twins(c) : n \in Entities
    BY DEF Twins, Carriers
  <2>2. CASE Twins(c) = {} /\ UNCHANGED <<draft, raced>>
    BY <2>2 DEF IInv, TypeOK, IndexTypes
  <2>3. CASE ~Holds(c, label[node[c]]) /\ UNCHANGED <<draft, raced>>
    BY <2>3 DEF IInv, TypeOK, IndexTypes
  <2>4. CASE \E n \in Twins(c) :
                /\ Holds(c, label[node[c]]) /\ draft' = Set(draft, label[node[c]], n)
                /\ raced' = IF Free(n) THEN raced ELSE raced \cup {label[node[c]]}
    <3>1. label[node[c]] \in Values
      BY <1>1 DEF IInv, Born, Editing
    <3>2. QED
      BY <2>1, <2>4, <3>1 DEF Set, IInv, TypeOK, IndexTypes
  <2>5. QED
    BY <2>2, <2>3, <2>4 DEF Hand
<1>4. QueueTypes'
  BY <1>1, <1>2, <1>3 DEF IInv, TypeOK, QueueTypes, CallTypes, Job, Hand, Set, Goto, Twins, graph,
     queue, desk, job
<1>5. GraphTypes'
  BY <1>1, <1>2, <1>3 DEF IInv, TypeOK, GraphTypes, CallTypes, Job, Hand, Set, Goto, Twins, graph,
     queue, desk, job
<1>6. IndexTypes'
  BY <1>3 DEF Hand, IInv, TypeOK, IndexTypes
<1>7. LockTypes'
  BY <1>1, <1>2, <1>3 DEF IInv, TypeOK, LockTypes, CallTypes, Job, Hand, Set, Goto, Twins, graph,
     queue, desk, job
<1>8. CallTypes'
  BY <1>1, <1>2, <1>3 DEF IInv, TypeOK, CallTypes, Job, Proposed, Hand, Set, Goto, Twins, graph,
     queue, desk, job
<1>9. DeskTypes'
  BY <1>1, <1>2, <1>3, TriageAssumption DEF IInv, TypeOK, DeskTypes, CallTypes, Job, Hand, Set,
     Goto, Twins, graph, queue, desk, job
<1>10. \A d, r : Holds(d, r)' <=> Holds(d, r)
  BY Staying DEF Hand, graph, queue, desk, job
<1>11. \A r : /\ Free(r) <=> \A d \in Calls : ~Holds(d, r)
              /\ Free(r)' <=> \A d \in Calls : ~Holds(d, r)'
  BY <1>7, FreeIs, FreeThen DEF IInv, TypeOK
<1>12. Job'
  BY <1>1, <1>2, <1>3 DEF IInv, TypeOK, CallTypes, Job, QueueTypes, Proposed, Hand, Set, Goto,
     Twins, graph, queue, desk, job
<1>13. Alone'
  BY <1>1, <1>2, <1>3, <1>10, <1>11 DEF IInv, TypeOK, CallTypes, Job, Alone, Hand, Set, Goto,
     Twins, graph, queue, desk, job
<1>14. LocksAt'
  BY <1>1, <1>2, <1>3, <1>10, <1>11, RowAssumption DEF IInv, TypeOK, CallTypes, Job, LocksAt,
     Alone, Opening, Editing, Writing, Hand, Set, Goto, Twins, graph, queue, desk, job
<1>15. Born'
  BY <1>1, <1>2, <1>3, TriageAssumption DEF IInv, TypeOK, CallTypes, Job, GraphTypes, Born,
     Opening, Editing, Hand, Set, Goto, Twins, graph, queue, desk, job
<1>16. Paired'
  BY <1>1, <1>2, <1>3, TriageAssumption DEF IInv, TypeOK, CallTypes, Job, QueueTypes, GraphTypes,
     Paired, Born, Opening, Hand, Set, Goto, Twins, graph, queue, desk, job
<1>17. Pasting' /\ Fresh' /\ AskedOnce'
  BY <1>1, <1>2, <1>3, DeskStays DEF IInv, TypeOK, CallTypes, Job, QueueTypes, Pasting, Hand, Set,
     Goto, Twins, graph, queue, desk, job
<1>18. Drafts'
  <2>1. ASSUME NEW v \in Values, draft'[v] # draft[v]
        PROVE Holds(c, v) /\ draft'[v] # node[c] /\ \A d \in Calls : Holds(d, v) => d = c
    BY <1>3, <2>1 DEF Twins, IInv, Alone
  <2>2. QED
    BY <1>1, <1>2, <1>10, <1>11, <2>1 DEF IInv, Drafts
<1>19. Handing'
  <2>1. \A v \in Values : /\ Carriers(v)' = Carriers(v)
                          /\ Holds(c, v) /\ v \notin raced' => v = label[node[c]] /\ draft[v] = Nobody
    BY <1>1, <1>2 DEF Carriers, IInv, Drafts, IndexTells, Handing
  <2>2. \A r : Free(r)' <=> Free(r)
    BY <1>2 DEF Free, Row
  <2>3. ASSUME NEW v \in Values, v \notin raced', Holds(c, v)
        PROVE /\ draft'[v] # Nobody => draft'[v] \in Carriers(v) /\ Free(draft'[v])
              /\ draft'[v] = Nobody => Carriers(v) \subseteq {node[c]}
    BY <1>3, <2>1, <2>3, TriageAssumption DEF Twins, Carriers
  <2>4. ASSUME NEW d \in Calls, NEW v \in Values, Holds(d, v), d # c PROVE draft'[v] = draft[v]
    BY <1>3, <2>4 DEF IInv, Alone
  <2>5. QED
    BY <1>1, <1>2, <1>10, <2>1, <2>2, <2>3, <2>4 DEF IInv, Handing, Writing
<1>20. IndexTells'
  BY <1>1, <1>2, <1>3, <1>10, <1>11, TriageAssumption DEF IInv, TypeOK, CallTypes, Job,
     IndexTypes, GraphTypes, IndexTells, Drafts, Handing, LocksAt, Alone, Writing, Carriers, Born,
     Opening, Editing, Hand, Set, Goto, Twins, graph, queue, desk, job
<1>21. QED
  BY <1>4, <1>5, <1>6, <1>7, <1>8, <1>9, <1>12, <1>13, <1>14, <1>15, <1>16, <1>17, <1>18, <1>19,
     <1>20 DEF IInv, TypeOK

\* A correction lets the old value's row go.
LEMMA LetGoInv == ASSUME IInv, NEW c \in Calls, LetGo(c)
                  PROVE  IInv'
<1>1. /\ act[c] = "relabel" /\ pc[c] = "relabel" /\ node[c] \in Entities
      /\ word[c] \in Values /\ label[node[c]] \in Values /\ \A v \in Values : ~Holds(c, v)
  BY DEF LetGo, IInv, TypeOK, CallTypes, Job, Born, Editing, LocksAt, Writing
<1>2. /\ owner' = owner /\ life' = life /\ label' = label /\ raced' = raced /\ draft' = draft
      /\ act' = act /\ node' = node /\ word' = word /\ prop' = prop
      /\ \A d \in Calls : pc'[d] = IF d = c THEN "record" ELSE pc[d]
  BY DEF LetGo, Goto, Set, graph, index, ghosts, job, IInv, TypeOK, CallTypes
<1>3. \A v \in Values : v = label[node[c]] /\ v # word[c] /\ owner[v] = node[c] =>
        draft[v] = Nobody /\ \A d \in Calls : ~Holds(d, v)
  BY FreeIs DEF LetGo, IInv, TypeOK, Drafts
<1>4. QueueTypes'
  BY <1>1, <1>2, <1>3 DEF IInv, TypeOK, QueueTypes, CallTypes, Job, LetGo, Lock, Goto, Set, graph,
     index, queue, desk, ghosts, job
<1>5. GraphTypes'
  BY <1>1, <1>2, <1>3 DEF IInv, TypeOK, GraphTypes, CallTypes, Job, LetGo, Lock, Goto, Set, graph,
     index, queue, desk, ghosts, job
<1>6. IndexTypes'
  BY <1>1, <1>2, <1>3 DEF IInv, TypeOK, IndexTypes, CallTypes, Job, LetGo, Lock, Goto, Set, graph,
     index, queue, desk, ghosts, job
<1>7. LockTypes'
  BY <1>1, <1>2, <1>3 DEF IInv, TypeOK, LockTypes, CallTypes, Job, LetGo, Lock, Goto, Set, graph,
     index, queue, desk, ghosts, job
<1>8. CallTypes'
  BY <1>1, <1>2, <1>3 DEF IInv, TypeOK, CallTypes, Job, Proposed, LetGo, Lock, Goto, Set, graph,
     index, queue, desk, ghosts, job
<1>9. DeskTypes'
  BY <1>1, <1>2, <1>3, TriageAssumption DEF IInv, TypeOK, DeskTypes, CallTypes, Job, LetGo, Lock,
     Goto, Set, graph, index, queue, desk, ghosts, job
<1>10. \A d, r : Holds(d, r)' <=> \/ Holds(d, r)
                                  \/ d = c /\ r = label[node[c]] /\ r # word[c] /\ owner[r] = node[c]
  <2>1. CASE label[node[c]] # word[c] /\ owner[label[node[c]]] = node[c]
    BY <2>1, Locking DEF LetGo, Lock
  <2>2. CASE ~(label[node[c]] # word[c] /\ owner[label[node[c]]] = node[c])
    BY <2>2, Staying DEF LetGo
  <2>3. QED
    BY <2>1, <2>2
<1>11. \A r : /\ Free(r) <=> \A d \in Calls : ~Holds(d, r)
              /\ Free(r)' <=> \A d \in Calls : ~Holds(d, r)'
  BY <1>7, FreeIs, FreeThen DEF IInv, TypeOK
<1>12. Job'
  BY <1>1, <1>2, <1>3 DEF IInv, TypeOK, CallTypes, Job, QueueTypes, Proposed, LetGo, Lock, Goto,
     Set, graph, index, queue, desk, ghosts, job
<1>13. Alone'
  BY <1>1, <1>2, <1>3, <1>10, <1>11 DEF IInv, TypeOK, CallTypes, Job, Alone, LetGo, Lock, Goto,
     Set, graph, index, queue, desk, ghosts, job
<1>14. LocksAt'
  <2>1. /\ \A d \in Calls : /\ Opening(d)' <=> Opening(d)
                            /\ Editing(d)' <=> Editing(d)
                            /\ d # c => (Writing(d)' <=> Writing(d))
        /\ Writing(c)' /\ pc'[c] # "commit"
    BY <1>1, <1>2 DEF Opening, Editing, Writing
  <2>2. \A r \in Proposed \cup Entities : \A d : Holds(d, r)' <=> Holds(d, r)
    BY <1>1, <1>10, RowAssumption
  <2>3. QED
    BY <1>1, <1>2, <1>10, <2>1, <2>2 DEF IInv, LocksAt
<1>15. Born'
  BY <1>1, <1>2, <1>3, TriageAssumption DEF IInv, TypeOK, CallTypes, Job, GraphTypes, Born,
     Opening, Editing, LetGo, Lock, Goto, Set, graph, index, queue, desk, ghosts, job
<1>16. Paired'
  BY <1>1, <1>2, <1>3, TriageAssumption DEF IInv, TypeOK, CallTypes, Job, QueueTypes, GraphTypes,
     Paired, Born, Opening, LetGo, Lock, Goto, Set, graph, index, queue, desk, ghosts, job
<1>17. Pasting' /\ Fresh' /\ AskedOnce'
  BY <1>1, <1>2, <1>3, DeskStays DEF IInv, TypeOK, CallTypes, Job, QueueTypes, Pasting, LetGo,
     Lock, Goto, Set, graph, index, queue, desk, ghosts, job
<1>18. Drafts'
  BY <1>1, <1>2, <1>3, <1>10, <1>11 DEF IInv, Drafts
<1>19. Handing'
  <2>1. \A v \in Values : /\ Carriers(v)' = Carriers(v)
                          /\ v \notin raced /\ owner[v] = node[c] => v = label[node[c]]
    BY <1>1, <1>2, TriageAssumption DEF Carriers, IInv, IndexTells
  <2>2. \A n \in Entities : Free(n)' <=> Free(n)
    BY <1>1, <1>10, <1>11, RowAssumption
  <2>3. QED
    BY <1>1, <1>2, <1>10, <2>1, <2>2 DEF IInv, Handing, Writing, TypeOK, IndexTypes
<1>20. IndexTells'
  BY <1>1, <1>2, <1>3, <1>10, <1>11, TriageAssumption DEF IInv, TypeOK, CallTypes, Job,
     IndexTypes, GraphTypes, IndexTells, Drafts, Handing, LocksAt, Alone, Writing, Carriers, Born,
     Opening, Editing, LetGo, Lock, Goto, Set, graph, index, queue, desk, ghosts, job
<1>21. QED
  BY <1>4, <1>5, <1>6, <1>7, <1>8, <1>9, <1>12, <1>13, <1>14, <1>15, <1>16, <1>17, <1>18, <1>19,
     <1>20 DEF IInv, TypeOK

-----------------------------------------------------------------------------
(* Commit and rollback *)

\* Everything a transaction wrote is there at once.
LEMMA CommitInv == ASSUME IInv, NEW c \in Calls, Commit(c)
                   PROVE  IInv'
<1>1. /\ act[c] \in {"accept", "enter", "retire", "relabel"} /\ node[c] \in Entities /\ node[c] # Nobody
      /\ act[c] \in {"accept", "enter"} => Opening(c) /\ life[node[c]] = "open"
      /\ act[c] \in {"retire", "relabel"} => Editing(c) /\ life[node[c]] = "live"
      /\ act[c] # "retire" => Writing(c) /\ word[c] \in Values /\ Holds(c, word[c])
      /\ act[c] = "accept" => prop[c] \in Proposed
  BY TriageAssumption
     DEF Commit, IInv, TypeOK, CallTypes, Job, LocksAt, Writing, Opening, Editing, Born, Proposed
<1>2. /\ \A v \in Values : /\ owner'[v] = IF Holds(c, v) THEN draft[v] ELSE owner[v]
                           /\ draft'[v] = IF Holds(c, v) THEN Nobody ELSE draft[v]
                           /\ v \in left' <=> IF Holds(c, v) THEN act[c] = "relabel" /\ draft[v] = Nobody
                                                             ELSE v \in left
      /\ raced' = raced
  BY DEF Commit, End
<1>3. /\ \A n \in Entities :
           /\ life'[n] = IF n = node[c] THEN IF act[c] = "retire" THEN "retired" ELSE "live" ELSE life[n]
           /\ label'[n] = IF n = node[c] /\ act[c] # "retire" THEN word[c] ELSE label[n]
      /\ origin' = origin
  BY <1>1 DEF Commit, Set, IInv, TypeOK, GraphTypes
<1>4. /\ \A d \in Calls : d # c => /\ act'[d] = act[d] /\ pc'[d] = pc[d] /\ node'[d] = node[d]
                                   /\ word'[d] = word[d] /\ prop'[d] = prop[d]
      /\ act'[c] = "none" /\ pc'[c] = "idle"
  BY DEF Commit, End, Begin, Goto, Set, IInv, TypeOK, CallTypes
<1>5. \A p \in Proposed :
        /\ state'[p] = IF act[c] = "accept" /\ p = prop[c] THEN "ACCEPTED" ELSE state[p]
        /\ applied'[p] = IF act[c] = "accept" /\ p = prop[c] THEN node[c] ELSE applied[p]
        /\ state'[p] = "none" <=> state[p] = "none"
  BY <1>1 DEF Commit, Pending, queue, Set, IInv, TypeOK, QueueTypes
<1>6. \A d \in Calls : d # c => /\ Opening(d) \/ Editing(d) => node[d] # node[c]
                                /\ act[d] = "accept" /\ Opening(d) /\ act[c] = "accept" => prop[d] # prop[c]
  BY <1>1 DEF IInv, Born, LocksAt, Alone, Opening, Editing
<1>7. \A v \in Values : Holds(c, v) => \A d \in Calls : Holds(d, v) => d = c
  BY DEF IInv, Alone
<1>8. QueueTypes'
  BY <1>1, <1>2, <1>3, <1>4, <1>5, <1>6, <1>7 DEF IInv, TypeOK, QueueTypes, CallTypes, Job,
     Commit, Set, End, Goto, Begin, Pending, queue, desk
<1>9. GraphTypes'
  BY <1>1 DEF Commit, Set, IInv, TypeOK, GraphTypes
<1>10. IndexTypes'
  BY <1>1, <1>2, <1>3, <1>4, <1>5, <1>6, <1>7 DEF IInv, TypeOK, IndexTypes, CallTypes, Job,
     Commit, Set, End, Goto, Begin, Pending, queue, desk
<1>11. LockTypes'
  BY <1>1, <1>2, <1>3, <1>4, <1>5, <1>6, <1>7 DEF IInv, TypeOK, LockTypes, CallTypes, Job, Commit,
     Set, End, Goto, Begin, Pending, queue, desk
<1>12. CallTypes'
  BY <1>1, <1>2, <1>3, <1>4, <1>5, <1>6, <1>7 DEF IInv, TypeOK, CallTypes, Job, Proposed, Commit,
     Set, End, Goto, Begin, Pending, queue, desk
<1>13. DeskTypes'
  BY <1>1, <1>2, <1>3, <1>4, <1>5, <1>6, <1>7, TriageAssumption DEF IInv, TypeOK, DeskTypes,
     CallTypes, Job, Commit, Set, End, Goto, Begin, Pending, queue, desk
<1>14. \A d, r : Holds(d, r)' <=> Holds(d, r) /\ d # c
  BY Ending DEF Commit, End
<1>15. \A r : /\ Free(r) <=> \A d \in Calls : ~Holds(d, r)
              /\ Free(r)' <=> \A d \in Calls : ~Holds(d, r)'
  BY <1>11, FreeIs, FreeThen DEF IInv, TypeOK
<1>16. Job'
  BY <1>1, <1>2, <1>3, <1>4, <1>5, <1>6, <1>7 DEF IInv, TypeOK, CallTypes, Job, QueueTypes,
     Proposed, Commit, Set, End, Goto, Begin, Pending, queue, desk
<1>17. Alone'
  BY <1>1, <1>2, <1>3, <1>4, <1>5, <1>6, <1>7, <1>14, <1>15 DEF IInv, TypeOK, CallTypes, Job,
     Alone, Commit, Set, End, Goto, Begin, Pending, queue, desk
<1>18. LocksAt'
  BY <1>1, <1>2, <1>3, <1>4, <1>5, <1>6, <1>7, <1>14, <1>15, RowAssumption DEF IInv, TypeOK,
     CallTypes, Job, LocksAt, Alone, Opening, Editing, Writing, Commit, Set, End, Goto, Begin,
     Pending, queue, desk
<1>19. Born'
  BY <1>1, <1>3, <1>4, <1>6 DEF IInv, Born, Opening, Editing, Job
<1>20. Paired'
  <2>1. /\ act[c] = "accept" => /\ origin[node[c]] = prop[c] /\ state[prop[c]] = "PROPOSED"
                                /\ applied[prop[c]] = Nobody
        /\ act[c] = "enter" => origin[node[c]] \notin Proposed
    BY <1>1 DEF IInv, Born, Paired, Proposed, NoProposal
  <2>2. \A p \in Proposed : \A n \in Entities :
          life'[n] \in {"live", "retired"} /\ origin'[n] = p <=> applied'[p] = n
    BY <1>1, <1>3, <1>5, <2>1, TriageAssumption DEF IInv, Paired
  <2>3. \A p \in Proposed : /\ state'[p] \in {"none", "PROPOSED"} => applied'[p] = Nobody
                            /\ state'[p] = "ACCEPTED" => applied'[p] # Nobody
    BY <1>1, <1>5, TriageAssumption DEF IInv, Paired
  <2>4. \A p \in Proposed : \A d \in Calls :
          act'[d] = "accept" /\ Opening(d)' /\ prop'[d] = p => state'[p] = "PROPOSED"
    BY <1>4, <1>5, <1>6 DEF IInv, Paired, Opening
  <2>5. QED
    BY <2>2, <2>3, <2>4 DEF Paired
<1>21. Pasting' /\ Fresh' /\ AskedOnce'
  BY <1>1, <1>4, <1>5, DeskStays DEF Commit, desk
<1>22. Drafts'
  <2>1. \A d \in Calls : act[d] = "relabel" /\ Editing(d) /\ d # c => label'[node[d]] = label[node[d]]
    BY <1>3, <1>6 DEF IInv, Job
  <2>2. \A v \in Values : owner[v] # Nobody /\ life[owner[v]] = "retired" => life'[owner[v]] = "retired"
    BY <1>1, <1>3 DEF IInv, TypeOK, IndexTypes
  <2>3. QED
    BY <1>2, <1>4, <1>7, <1>14, <1>15, <2>1, <2>2 DEF IInv, Drafts, LocksAt, Editing, Writing
<1>23. Handing'
  <2>1. ASSUME NEW d \in Calls, NEW v \in Values, v \notin raced, act'[d] = "retire", Holds(d, v)'
        PROVE (/\ pc[d] = "hand" => draft[v] = Nobody
               /\ draft[v] # Nobody => draft[v] \in Carriers(v) /\ Free(draft[v])
               /\ pc[d] = "commit" /\ draft[v] = Nobody => Carriers(v) \subseteq {node[d]})'
    <3>1. d # c /\ Holds(d, v) /\ ~Holds(c, v) /\ act[d] = "retire"
      BY <1>4, <1>7, <1>14, <2>1
    <3>2. ASSUME NEW n \in Carriers(v), n # node[c] PROVE n \in Carriers(v)'
      BY <1>3, <3>2 DEF Carriers
    <3>3. ASSUME NEW n \in Carriers(v)' PROVE n \in Carriers(v)
      BY <1>1, <1>3, <3>1 DEF Carriers, IInv, Born
    <3>4. draft[v] \in Carriers(v) /\ Free(draft[v]) => draft[v] # node[c]
      BY <1>1, <1>15 DEF Carriers, IInv, LocksAt
    <3>5. \A r : Free(r) => Free(r)'
      BY <1>14, <1>15
    <3>6. draft'[v] = draft[v] /\ pc'[d] = pc[d] /\ node'[d] = node[d]
      BY <1>2, <1>4, <3>1
    <3>7. Carriers(v) \subseteq {node[d]} => Carriers(v)' \subseteq {node[d]}
      BY <3>3
    <3>8. /\ pc[d] = "hand" => draft[v] = Nobody
          /\ draft[v] # Nobody => draft[v] \in Carriers(v) /\ Free(draft[v])
          /\ pc[d] = "commit" /\ draft[v] = Nobody => Carriers(v) \subseteq {node[d]}
      BY <2>1, <3>1 DEF IInv, Handing
    <3>9. draft[v] \in Carriers(v) /\ Free(draft[v]) => draft[v] \in Carriers(v)'
      BY <3>2, <3>4
    <3>10. Free(draft[v]) => Free(draft[v])'
      BY <3>5, <3>6 DEF Free, Row
    <3>11. QED
      BY <3>6, <3>7, <3>8, <3>9, <3>10
  <2>2. ASSUME NEW d \in Calls, NEW v \in Values, v \notin raced, d # c,
               owner'[v] = node[d], node[d] # Nobody, Editing(d), act[d] = "retire" \/ word[d] # v,
               act[d] = "retire" => pc[d] \in {"hand", "commit"}, act[d] = "relabel" => Writing(d)
        PROVE Holds(d, v)
    <3>1. CASE ~Holds(c, v)
      BY <1>2, <2>2, <3>1 DEF IInv, Handing, Editing
    <3>2. CASE Holds(c, v)
      <4>1. draft[v] = node[d] /\ Holds(d, node[d]) /\ node[d] \in Entities /\ node[d] # node[c]
        BY <1>2, <1>6, <2>2, <3>2 DEF IInv, LocksAt, Job, Editing
      <4>2. CASE act[c] = "retire"
        BY <2>2, <3>2, <4>1, <4>2, <1>15 DEF IInv, Handing
      <4>3. CASE act[c] # "retire"
        BY <2>2, <3>2, <4>1, <4>3 DEF IInv, Handing, Drafts, LocksAt, Writing, Editing
      <4>4. QED
        BY <4>2, <4>3
    <3>3. QED
      BY <3>1, <3>2
  <2>3. ASSUME NEW d \in Calls, NEW v \in Values, v \notin raced, owner'[v] = node'[d], node'[d] # Nobody
        PROVE /\ act'[d] = "retire" /\ pc'[d] \in {"hand", "commit"} => Holds(d, v)'
              /\ act'[d] = "relabel" /\ Writing(d)' /\ word'[d] # v => Holds(d, v)'
    BY <1>4, <1>14, <2>2, <2>3 DEF Editing, Writing
  <2>4. QED
    BY <1>2, <2>1, <2>3 DEF Handing
<1>24. IndexTells'
  <2>1. ASSUME NEW v \in Values, v \notin raced, owner'[v] # Nobody PROVE owner'[v] \in Carriers(v)'
    <3>1. CASE ~Holds(c, v)
      <4>1. owner[v] \in Carriers(v) /\ owner'[v] = owner[v]
        BY <1>2, <2>1, <3>1 DEF IInv, IndexTells
      <4>2. owner[v] = node[c] => act[c] = "relabel" /\ word[c] = v
        BY <1>1, <2>1, <3>1, <4>1 DEF Commit, IInv, Handing, Carriers
      <4>3. QED
        BY <1>3, <4>1, <4>2 DEF Carriers
    <3>2. CASE Holds(c, v) /\ act[c] = "retire"
      <4>1. draft[v] \in Carriers(v) /\ draft[v] # node[c] /\ owner'[v] = draft[v]
        BY <1>2, <2>1, <3>2 DEF IInv, Handing, Drafts
      <4>2. QED
        BY <1>3, <4>1 DEF Carriers
    <3>3. CASE Holds(c, v) /\ act[c] # "retire" /\ word[c] = v
      <4>1. CASE owner'[v] = node[c]
        BY <1>1, <1>3, <3>3, <4>1 DEF Carriers
      <4>2. CASE owner'[v] # node[c]
        <5>1. owner[v] \in Carriers(v) /\ owner'[v] = owner[v]
          BY <1>2, <2>1, <3>3, <4>2 DEF IInv, Drafts, IndexTells
        <5>2. QED
          BY <1>3, <4>2, <5>1 DEF Carriers
      <4>3. QED
        BY <4>1, <4>2
    <3>4. CASE Holds(c, v) /\ act[c] # "retire" /\ word[c] # v
      BY <1>2, <2>1, <3>4 DEF IInv, Drafts, LocksAt, Writing
    <3>5. QED
      BY <3>1, <3>2, <3>3, <3>4
  <2>2. ASSUME NEW v \in Values, v \notin raced, NEW n \in Carriers(v)', owner'[v] = Nobody PROVE v \in left'
    <3>1. CASE ~Holds(c, v)
      <4>1. n \in Carriers(v)
        BY <1>1, <1>3, <2>2, <3>1 DEF Carriers
      <4>2. QED
        BY <1>2, <2>2, <3>1, <4>1 DEF IInv, IndexTells
    <3>2. CASE Holds(c, v) /\ act[c] = "retire"
      <4>1. draft[v] = Nobody /\ Carriers(v) \subseteq {node[c]}
        BY <1>2, <2>2, <3>2 DEF Commit, IInv, Handing
      <4>2. QED
        BY <1>3, <2>2, <3>2, <4>1 DEF Carriers
    <3>3. CASE Holds(c, v) /\ act[c] # "retire"
      BY <1>1, <1>2, <2>2, <3>3 DEF IInv, Drafts, LocksAt, Writing
    <3>4. QED
      BY <3>1, <3>2, <3>3
  <2>3. QED
    BY <1>2, <2>1, <2>2 DEF IndexTells
<1>25. QED
  BY <1>8, <1>9, <1>10, <1>11, <1>12, <1>13, <1>16, <1>17, <1>18, <1>19, <1>20, <1>21, <1>22,
     <1>23, <1>24 DEF IInv, TypeOK

\* Or none of it.
LEMMA RollbackInv == ASSUME IInv, NEW c \in Calls, Rollback(c)
                     PROVE  IInv'
<1>1. /\ owner' = owner /\ raced' = raced
      /\ \A v \in Values : draft'[v] = IF Holds(c, v) THEN Nobody ELSE draft[v]
      /\ \A d \in Calls : d # c => /\ act'[d] = act[d] /\ pc'[d] = pc[d]
                                   /\ node'[d] = node[d] /\ word'[d] = word[d]
  BY DEF Rollback, End, Begin, Goto, Set, ghosts, IInv, TypeOK, CallTypes
<1>2. \A n \in Entities : life'[n] # life[n] \/ label'[n] # label[n] =>
        n = node[c] /\ Opening(c) /\ life[n] = "open" /\ life'[n] = "none"
  BY DEF Rollback, Set, graph, IInv, TypeOK, GraphTypes, CallTypes, Born, Opening, Job
<1>3. QueueTypes'
  BY <1>1, <1>2 DEF IInv, TypeOK, QueueTypes, CallTypes, Job, Rollback, Set, End, Goto, Begin,
     graph, queue, desk, ghosts
<1>4. GraphTypes'
  BY <1>1, <1>2 DEF IInv, TypeOK, GraphTypes, CallTypes, Job, Rollback, Set, End, Goto, Begin,
     graph, queue, desk, ghosts
<1>5. IndexTypes'
  BY <1>1, <1>2 DEF IInv, TypeOK, IndexTypes, CallTypes, Job, Rollback, Set, End, Goto, Begin,
     graph, queue, desk, ghosts
<1>6. LockTypes'
  BY <1>1, <1>2 DEF IInv, TypeOK, LockTypes, CallTypes, Job, Rollback, Set, End, Goto, Begin,
     graph, queue, desk, ghosts
<1>7. CallTypes'
  BY <1>1, <1>2 DEF IInv, TypeOK, CallTypes, Job, Proposed, Rollback, Set, End, Goto, Begin,
     graph, queue, desk, ghosts
<1>8. DeskTypes'
  BY <1>1, <1>2, TriageAssumption DEF IInv, TypeOK, DeskTypes, CallTypes, Job, Rollback, Set, End,
     Goto, Begin, graph, queue, desk, ghosts
<1>9. \A d, r : Holds(d, r)' <=> Holds(d, r) /\ d # c
  BY Ending DEF Rollback, End
<1>10. \A r : /\ Free(r) <=> \A d \in Calls : ~Holds(d, r)
              /\ Free(r)' <=> \A d \in Calls : ~Holds(d, r)'
  BY <1>6, FreeIs, FreeThen DEF IInv, TypeOK
<1>11. Job'
  BY <1>1, <1>2 DEF IInv, TypeOK, CallTypes, Job, QueueTypes, Proposed, Rollback, Set, End, Goto,
     Begin, graph, queue, desk, ghosts
<1>12. Alone'
  BY <1>1, <1>2, <1>9, <1>10 DEF IInv, TypeOK, CallTypes, Job, Alone, Rollback, Set, End, Goto,
     Begin, graph, queue, desk, ghosts
<1>13. LocksAt'
  BY <1>1, <1>2, <1>9, <1>10, RowAssumption DEF IInv, TypeOK, CallTypes, Job, LocksAt, Alone,
     Opening, Editing, Writing, Rollback, Set, End, Goto, Begin, graph, queue, desk, ghosts
<1>14. Born'
  BY <1>1, <1>2, TriageAssumption DEF IInv, TypeOK, CallTypes, Job, GraphTypes, Born, Opening,
     Editing, Rollback, Set, End, Goto, Begin, graph, queue, desk, ghosts
<1>15. Paired'
  BY <1>1, <1>2, TriageAssumption DEF IInv, TypeOK, CallTypes, Job, QueueTypes, GraphTypes,
     Paired, Born, Opening, Rollback, Set, End, Goto, Begin, graph, queue, desk, ghosts
<1>16. Pasting' /\ Fresh' /\ AskedOnce'
  BY <1>1, <1>2, DeskStays DEF IInv, TypeOK, CallTypes, Job, QueueTypes, Pasting, Rollback, Set,
     End, Goto, Begin, graph, queue, desk, ghosts
<1>17. Drafts'
  <2>1. \A d \in Calls : act[d] = "relabel" /\ Editing(d) => label'[node[d]] = label[node[d]]
    BY <1>2 DEF IInv, Born, Job
  <2>2. \A v \in Values : owner[v] # Nobody /\ life[owner[v]] = "retired" => life'[owner[v]] = "retired"
    BY <1>2 DEF IInv, TypeOK, IndexTypes
  <2>3. QED
    BY <1>1, <1>9, <1>10, <2>1, <2>2 DEF IInv, Drafts, Alone, LocksAt, Editing, Writing
<1>18. Handing'
  BY <1>1, <1>2, <1>9, <1>10, TriageAssumption DEF IInv, TypeOK, CallTypes, Job, IndexTypes,
     GraphTypes, Handing, Drafts, LocksAt, Alone, Writing, Carriers, Born, Opening, Editing,
     Rollback, Set, End, Goto, Begin, graph, queue, desk, ghosts
<1>19. IndexTells'
  BY <1>1, <1>2, <1>9, <1>10, TriageAssumption DEF IInv, TypeOK, CallTypes, Job, IndexTypes,
     GraphTypes, IndexTells, Drafts, Handing, LocksAt, Alone, Writing, Carriers, Born, Opening,
     Editing, Rollback, Set, End, Goto, Begin, graph, queue, desk, ghosts
<1>20. QED
  BY <1>3, <1>4, <1>5, <1>6, <1>7, <1>8, <1>11, <1>12, <1>13, <1>14, <1>15, <1>16, <1>17, <1>18,
     <1>19 DEF IInv, TypeOK

-----------------------------------------------------------------------------
(* The invariant *)

\* With no entity, no proposal and nobody at work.
LEMMA InitInv == ASSUME Init PROVE IInv
<1>1. TypeOK
  BY TriageAssumption
     DEF Init, TypeOK, QueueTypes, GraphTypes, IndexTypes, LockTypes, CallTypes, DeskTypes, NoProposal
<1>2. \A r : Free(r)
  BY DEF Init, Free, Row
<1>3. \A c, r : ~Holds(c, r)
  BY DEF Init, Holds
<1>4. Job /\ Alone /\ LocksAt /\ Born
  BY <1>3 DEF Init, Job, Alone, LocksAt, Born, Opening, Editing, Writing
<1>5. Paired /\ Drafts /\ Handing
  BY <1>3, TriageAssumption DEF Init, Paired, Drafts, Handing
<1>6. Pasting /\ Fresh /\ AskedOnce /\ IndexTells
  BY TriageAssumption DEF Init, Pasting, Fresh, AskedOnce, IndexTells, Carriers
<1>7. QED
  BY <1>1, <1>4, <1>5, <1>6 DEF IInv

\* A row is named by whoever has it, so nothing moves while nothing moves.
LEMMA StutterInv == ASSUME IInv, UNCHANGED vars PROVE IInv'
  BY DEF vars, IInv, TypeOK, QueueTypes, GraphTypes, IndexTypes, LockTypes, CallTypes, DeskTypes, Job,
         Alone, LocksAt, Born, Paired, Pasting, Fresh, AskedOnce, Drafts, Handing, IndexTells, Opening,
         Editing, Writing, Carriers, Free, Row, Holds

\* Every step keeps it.
LEMMA NextInv == ASSUME IInv, [Next]_vars PROVE IInv'
<1>1. CASE UNCHANGED vars
  BY <1>1, StutterInv
<1>2. CASE Next
  <2>1. PICK c \in Calls :
          \/ \E t \in Texts : BeginCapture(c, t)
          \/ \E p \in Proposed : BeginAccept(c, p) \/
                                 \E s \in {"REJECTED", "DISPUTED"} : BeginDisposition(c, p, s)
          \/ \E v \in Values : Enter(c, v) \/ ReadHit(c, v)
          \/ \E n \in Entities, v \in Values \cup {Nobody} : BeginEdit(c, n, v)
          \/ Land(c) \/ Propose(c) \/ CaptureDies(c)
          \/ LockProposal(c) \/ Record(c) \/ Dispose(c)
          \/ LockNode(c) \/ Release(c) \/ Hand(c) \/ LetGo(c)
          \/ Commit(c) \/ Rollback(c)
    BY <1>2 DEF Next
  <2>2. CASE \E t \in Texts : BeginCapture(c, t)
    BY <2>2, BeginCaptureInv
  <2>3. CASE \E p \in Proposed : BeginAccept(c, p) \/
                                 \E s \in {"REJECTED", "DISPUTED"} : BeginDisposition(c, p, s)
    BY <2>3, BeginAcceptInv, BeginDispositionInv
  <2>4. CASE \E v \in Values : Enter(c, v) \/ ReadHit(c, v)
    BY <2>4, EnterInv, ReadHitInv
  <2>5. CASE \E n \in Entities, v \in Values \cup {Nobody} : BeginEdit(c, n, v)
    BY <2>5, BeginEditInv
  <2>6. CASE Land(c) \/ Propose(c) \/ CaptureDies(c)
    BY <2>6, LandInv, ProposeInv, CaptureDiesInv
  <2>7. CASE LockProposal(c) \/ Record(c) \/ Dispose(c)
    BY <2>7, LockProposalInv, RecordInv, DisposeInv
  <2>8. CASE LockNode(c) \/ Release(c) \/ Hand(c) \/ LetGo(c)
    BY <2>8, LockNodeInv, ReleaseInv, HandInv, LetGoInv
  <2>9. CASE Commit(c) \/ Rollback(c)
    BY <2>9, CommitInv, RollbackInv
  <2>10. QED
    BY <2>1, <2>2, <2>3, <2>4, <2>5, <2>6, <2>7, <2>8, <2>9
<1>3. QED
  BY <1>1, <1>2

\* Whatever pastes, reviewers and editors do to one case, in whatever order
\* their statements meet, the state keeps the shape that IInv describes.
THEOREM ProposalsInductive == Spec => []IInv
<1>1. Init => IInv
  BY InitInv
<1>2. IInv /\ [Next]_vars => IInv'
  BY NextInv
<1>3. QED
  BY <1>1, <1>2, PTL DEF Spec

\* Every variable keeps its type.
THEOREM ProposalsTypes == Spec => []TypeOK
<1>1. IInv => TypeOK
  BY DEF IInv
<1>2. QED
  BY <1>1, ProposalsInductive, PTL

-----------------------------------------------------------------------------
(* What triage promises *)

\* However many reviewers accept a proposal at once it brings one entity into
\* the case, and points at it: the lock, and the state read again under it.
THEOREM OneEntityPerProposal == Spec => []BornOnce
<1>1. ASSUME IInv PROVE BornOnce
  <2>1. ASSUME NEW p \in Proposed
        PROVE {n \in Entities : life[n] \in {"live", "retired"} /\ origin[n] = p} = {applied[p]} \ {Nobody}
    <3>1. applied[p] \in Entities \cup {Nobody} /\ Nobody \notin Entities
      BY <1>1, TriageAssumption DEF IInv, TypeOK, QueueTypes
    <3>2. \A n \in Entities : life[n] \in {"live", "retired"} /\ origin[n] = p <=> applied[p] = n
      BY <1>1 DEF IInv, Paired
    <3>3. QED
      BY <3>1, <3>2
  <2>2. QED
    BY <1>1, <2>1 DEF IInv, Paired, BornOnce
<1>2. QED
  BY <1>1, ProposalsInductive, PTL

\* A text pasted again asks nothing again, but beside a paste in progress: what
\* a paste found nobody had asked, only an overlapping one can have asked since.
THEOREM NothingAskedTwice == Spec => []AskedOnce
<1>1. IInv => AskedOnce
  BY DEF IInv
<1>2. QED
  BY <1>1, ProposalsInductive, PTL

-----------------------------------------------------------------------------
(* What the index promises *)

\* A row's owner is live and carries its value, and no live entity's value is
\* left to nobody, outside the two exceptions IndexTells names: the row locks
\* put every accept, entry, correction and retirement of a value in order.
THEOREM IndexFindsEntities == Spec => []IndexTells
<1>1. IInv => IndexTells
  BY DEF IInv
<1>2. QED
  BY <1>1, ProposalsInductive, PTL

\* No step takes its row from an entity that is live and keeps its label: ON
\* CONFLICT keeps the first owner, and a row is locked from then to the commit.
LEMMA OwnerKept ==
    ASSUME IInv, NEW c \in Calls, Commit(c), NEW v \in Values, NEW n \in Carriers(v), owner[v] = n,
           life'[n] = "live", label'[n] = v
    PROVE  owner'[v] = n
<1>1. owner'[v] = IF Holds(c, v) THEN draft[v] ELSE owner[v]
  BY DEF Commit
<1>2. n \in Entities /\ n # Nobody /\ life[n] = "live"
  BY TriageAssumption DEF Carriers
<1>3. CASE Holds(c, v) /\ act[c] = "retire"
  <2>1. n = node[c]
    BY <1>3 DEF IInv, Drafts
  <2>2. life'[n] = "retired"
    BY <1>2, <1>3, <2>1 DEF Commit, Set, IInv, TypeOK, GraphTypes
  <2>3. QED
    BY <2>2
<1>4. CASE Holds(c, v) /\ act[c] # "retire" /\ word[c] = v
  BY <1>1, <1>2, <1>4 DEF IInv, Drafts
<1>5. CASE Holds(c, v) /\ act[c] # "retire" /\ word[c] # v
  <2>1. n = node[c]
    BY <1>5 DEF IInv, Drafts, LocksAt, Writing
  <2>2. label'[n] = word[c]
    BY <1>2, <1>5, <2>1 DEF Commit, Set, IInv, TypeOK, GraphTypes
  <2>3. QED
    BY <1>5, <2>2
<1>6. CASE ~Holds(c, v)
  BY <1>1, <1>6
<1>7. QED
  BY <1>3, <1>4, <1>5, <1>6

\* Whoever records a selector, its first owner keeps it: no step merges one
\* entity's identifier into another's.
THEOREM NoAutomaticMerge == Spec => FirstOwnerKept
<1>1. ASSUME IInv, [Next]_vars
      PROVE [\A v \in Values : \A n \in Carriers(v) :
               owner[v] = n /\ life'[n] = "live" /\ label'[n] = v => owner'[v] = n]_vars
  <2>1. CASE \E c \in Calls : Commit(c)
    BY <1>1, <2>1, OwnerKept
  <2>2. CASE ~\E c \in Calls : Commit(c)
    <3>1. owner' = owner
      BY <1>1, <2>2
         DEF Next, vars, BeginCapture, Land, ReadHit, Propose, CaptureDies, BeginAccept, LockProposal,
             Enter, Record, BeginDisposition, Dispose, BeginEdit, LockNode, Release, Hand, LetGo,
             Rollback, index
    <3>2. QED
      BY <3>1
  <2>3. QED
    BY <2>1, <2>2
<1>2. QED
  BY <1>1, ProposalsInductive, PTL DEF Spec, FirstOwnerKept
=============================================================================
