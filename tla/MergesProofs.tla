---------------------------- MODULE MergesProofs ----------------------------
(***************************************************************************)
(* What the merge ledger keeps for any entities, ties and merges.  DeskInv *)
(* of MergesProps is inductive whatever calls run at once; SerialInv is    *)
(* while calls come one at a time, and the promises follow from it.        *)
(***************************************************************************)
EXTENDS MergesProps, WellFoundedInduction, TLAPS

-----------------------------------------------------------------------------
(* Operators *)

\* Two ends are not none.
LEMMA PairIsEnds == ASSUME NEW es \in Nodes \X Nodes PROVE es # NoEnds
  BY DEF NoEnds

\* Moving a tie gives it two ends.
LEMMA MovedTypes ==
    ASSUME NEW es \in Nodes \X Nodes, NEW a, NEW b \in Nodes
    PROVE Moved(es, a, b) \in Nodes \X Nodes
  BY DEF Moved

\* A live tie has two ends.
LEMMA LiveEnds == ASSUME GraphTypes PROVE \A e \in LiveTies : ends[e] \in Nodes \X Nodes
  BY DEF GraphTypes, LiveTies, EndsOf

-----------------------------------------------------------------------------
(* How a call begins and answers *)

\* A call that begins has its job and its pair.
LEMMA BeginTypes ==
    ASSUME CallTypes, NEW c \in Calls, NEW l \in {"open", "restore", "tie", "retire"},
           NEW m \in Merges \cup {NoMerge}, NEW p \in EndsOf, Begin(c, l, m, p),
           time' \in [Calls -> 0..MaxTime], seen' = seen
    PROVE CallTypes'
  BY DEF Begin, CallTypes

\* The others are where they were; the one that begins is idle before.
LEMMA BeginIs ==
    ASSUME CallTypes, NEW c \in Calls, NEW l, NEW m, NEW p, Begin(c, l, m, p)
    PROVE /\ pc[c] = "idle" /\ pc'[c] = l /\ job'[c] = m /\ pair'[c] = p
          /\ \A d \in Calls \ {c} : pc'[d] = pc[d] /\ job'[d] = job[d] /\ pair'[d] = pair[d]
  BY DEF Begin, CallTypes

\* A call that answers forgets.
LEMMA AnswerTypes ==
    ASSUME CallTypes, 0 \in 0..MaxTime, NEW c \in Calls, Answer(c)
    PROVE CallTypes'
<1>1. NoMerge \in Merges \cup {NoMerge} /\ NoEnds \in EndsOf /\ {} \in SUBSET Read
  BY DEF EndsOf
<1>2. QED
  BY <1>1 DEF Answer, CallTypes

LEMMA AnswerIs ==
    ASSUME CallTypes, NEW c \in Calls, Answer(c)
    PROVE /\ pc'[c] = "idle"
          /\ \A d \in Calls \ {c} : /\ pc'[d] = pc[d] /\ job'[d] = job[d] /\ pair'[d] = pair[d]
                                    /\ time'[d] = time[d] /\ seen'[d] = seen[d]
  BY DEF Answer, CallTypes

-----------------------------------------------------------------------------
(* Desk *)

\* A tie's row is never deleted.
NothingUnrecorded == \A e \in Ties : tie[e] # "absent" => tie'[e] # "absent"

\* A call that answers leaves the others what they have in hand, as long as
\* the ledger does.
LEMMA DeskLeaves ==
    ASSUME CallTypes, Desk, NEW c \in Calls, pc'[c] = "idle",
           \A d \in Calls \ {c} : /\ pc'[d] = pc[d] /\ job'[d] = job[d] /\ pair'[d] = pair[d]
                                 /\ seen'[d] = seen[d],
           NothingUnrecorded,
           \A d \in Calls \ {c} : pc[d] = "apply" =>
               status'[job[d]] = "open" /\ from'[job[d]] = from[job[d]] /\ to'[job[d]] = to[job[d]],
           \A d \in Calls \ {c} : pc[d] = "restore" => status'[job[d]] \in {"live", "reversed"}
    PROVE Desk'
<1> SUFFICES ASSUME NEW d \in Calls
             PROVE AtDesk(d)'
  BY DEF Desk
<1>1. CASE d = c
  BY <1>1 DEF AtDesk
<1>2. CASE d # c
  <2>1. pc[d] = "apply" => \A x \in Calls : pc'[x] = "apply" /\ job'[x] = job'[d] => d = x
    BY <1>2 DEF Desk, AtDesk
  <2>2. pc[d] = "apply" => \A t \in seen'[d] : tie'[t.tie] # "absent"
    BY <1>2 DEF Desk, AtDesk, CallTypes, Read, NothingUnrecorded
  <2>3. QED
    BY <1>2, <2>1, <2>2 DEF Desk, AtDesk
<1>3. QED
  BY <1>1, <1>2

\* So does one that begins anything but its reading of the ties.
LEMMA DeskBegins ==
    ASSUME CallTypes, Desk, UNCHANGED <<status, from, to, tie, seen>>,
           NEW c \in Calls, NEW l \in {"open", "restore", "tie", "retire"}, NEW m, NEW p,
           Begin(c, l, m, p), l # "restore" => p \in Nodes \X Nodes,
           l = "restore" => m \in Merges /\ status[m] \in {"live", "reversed"}
    PROVE Desk'
<1>1. /\ pc'[c] = l /\ job'[c] = m /\ pair'[c] = p
      /\ \A d \in Calls \ {c} : pc'[d] = pc[d] /\ job'[d] = job[d] /\ pair'[d] = pair[d]
  BY BeginIs
<1> SUFFICES ASSUME NEW d \in Calls
             PROVE AtDesk(d)'
  BY DEF Desk
<1>2. CASE d = c
  BY <1>1, <1>2 DEF AtDesk
<1>3. CASE d # c
  <2>1. pc[d] = "apply" => \A x \in Calls : pc'[x] = "apply" /\ job'[x] = job'[d] => d = x
    BY <1>1, <1>3 DEF Desk, AtDesk
  <2>2. QED
    BY <1>1, <1>3, <2>1 DEF Desk, AtDesk
<1>4. QED
  BY <1>2, <1>3

-----------------------------------------------------------------------------
(* What a merge that is applied does, given the rows it takes out *)

Onward(m, t) == Moved(t.ends, from[m], to[m])
Applied(c, out) == LET m == job[c] IN
    /\ out \in SUBSET seen[c]
    /\ tie' = [e \in Ties |-> IF \E t \in out : t.tie = e THEN "out" ELSE tie[e]]
    /\ ends' = [e \in Ties |-> IF \E t \in seen[c] \ out : t.tie = e
                               THEN Onward(m, CHOOSE t \in seen[c] : t.tie = e) ELSE ends[e]]
    /\ record' = [record EXCEPT ![m] =
                     {[tie |-> t.tie, ends |-> t.ends, out |-> t \in out] : t \in seen[c]}]
    /\ into' = [into EXCEPT ![from[m]] = to[m]]
    /\ status' = [status EXCEPT ![m] = "live"]
    /\ UNCHANGED <<retired, from, to, at>>

\* A merge that is applied is refused by a duplicate, or takes some rows out
\* and moves the others.
LEMMA ApplyEither ==
    ASSUME NEW c \in Calls, ApplyMerge(c)
    PROVE RollBack(c) \/ \E out : Applied(c, out)
<1> DEFINE m == job[c]
           loops == {t \in seen[c] : Onward(m, t)[1] = Onward(m, t)[2]}
           others == LiveTies \ {t.tie : t \in seen[c]}
           clashes == {t \in seen[c] \ loops :
                         tie[t.tie] = "live" /\ Duplicates(t.tie, Onward(m, t), others, ends)}
           out == loops \cup clashes
<1>1. CASE RollBack(c)
  BY <1>1
<1>2. CASE ~RollBack(c)
  <2>1. /\ tie' = [e \in Ties |-> IF \E t \in out : t.tie = e THEN "out" ELSE tie[e]]
        /\ ends' = [e \in Ties |-> IF \E t \in seen[c] \ out : t.tie = e
                               THEN Onward(m, CHOOSE t \in seen[c] : t.tie = e) ELSE ends[e]]
        /\ record' = [record EXCEPT ![m] =
                     {[tie |-> t.tie, ends |-> t.ends, out |-> t \in out] : t \in seen[c]}]
        /\ into' = [into EXCEPT ![from[m]] = to[m]]
        /\ status' = [status EXCEPT ![m] = "live"]
        /\ UNCHANGED <<retired, from, to, at>>
    BY <1>2 DEF ApplyMerge, Onward
  <2>2. out \in SUBSET seen[c]
    OBVIOUS
  <2>3. Applied(c, out)
    BY <2>1, <2>2 DEF Applied
  <2>4. QED
    BY <2>3
<1>3. QED
  BY <1>1, <1>2

-----------------------------------------------------------------------------
(* DeskInv is kept by each action, whatever the other calls are doing *)

LEMMA BeginMergeDesk ==
    ASSUME DeskInv, NEW c \in Calls, NEW a \in Nodes, NEW b \in Nodes, BeginMerge(c, a, b)
    PROVE DeskInv'
<1> USE DEF DeskInv, TypeOK
<1>1. now + 1 \in 0..MaxTime /\ now' = now + 1
  BY KindAssumption DEF BeginMerge, LedgerTypes
<1>2. time' \in [Calls -> 0..MaxTime] /\ seen' = seen
  BY <1>1 DEF BeginMerge, CallTypes
<1>3. Begin(c, "open", NoMerge, <<a, b>>) /\ <<a, b>> \in EndsOf
  BY DEF BeginMerge, EndsOf
<1>4. CallTypes'
  BY <1>2, <1>3, BeginTypes
<1>5. GraphTypes' /\ LedgerTypes' /\ GhostTypes'
  BY <1>1 DEF BeginMerge, graph, ledger, ghost, GraphTypes, LedgerTypes, GhostTypes
<1>6. Desk'
  <2>1. UNCHANGED <<status, from, to, tie, seen>>
    BY DEF BeginMerge, ledger, graph
  <2>2. QED
    BY <1>3, <2>1, DeskBegins
<1>7. QED
  BY <1>4, <1>5, <1>6

\* A call that only begins.
LEMMA OnlyBegins ==
    ASSUME DeskInv, UNCHANGED <<graph, ledger, now, time, seen, ghost>>,
           NEW c \in Calls, NEW l \in {"restore", "tie", "retire"},
           NEW m \in Merges \cup {NoMerge}, NEW p \in EndsOf, Begin(c, l, m, p),
           l # "restore" => p \in Nodes \X Nodes,
           l = "restore" => m \in Merges /\ status[m] \in {"live", "reversed"}
    PROVE DeskInv'
<1> USE DEF DeskInv, TypeOK
<1>1. CallTypes'
  <2>1. time' \in [Calls -> 0..MaxTime] /\ seen' = seen
    BY DEF CallTypes
  <2>2. QED
    BY <2>1, BeginTypes
<1>2. GraphTypes' /\ LedgerTypes' /\ GhostTypes'
  BY DEF graph, ledger, ghost, GraphTypes, LedgerTypes, GhostTypes
<1>3. Desk'
  <2>1. UNCHANGED <<status, from, to, tie, seen>>
    BY DEF ledger, graph
  <2>2. QED
    BY <2>1, DeskBegins
<1>4. QED
  BY <1>1, <1>2, <1>3

LEMMA BeginReversalDesk ==
    ASSUME DeskInv, NEW c \in Calls, NEW m \in Merges, BeginReversal(c, m)
    PROVE DeskInv'
<1>1. NoEnds \in EndsOf /\ status[m] \in {"live", "reversed"}
  BY DEF BeginReversal, EndsOf, Reversible, Live
<1>2. QED
  BY <1>1, OnlyBegins DEF BeginReversal

LEMMA BeginTieDesk ==
    ASSUME DeskInv, NEW c \in Calls, NEW a \in Nodes, NEW b \in Nodes, BeginTie(c, a, b)
    PROVE DeskInv'
<1>1. <<a, b>> \in EndsOf
  BY DEF EndsOf
<1>2. QED
  BY <1>1, OnlyBegins DEF BeginTie

LEMMA BeginRetireDesk ==
    ASSUME DeskInv, NEW c \in Calls, NEW n \in Nodes, BeginRetire(c, n)
    PROVE DeskInv'
<1>1. <<n, n>> \in EndsOf
  BY DEF EndsOf
<1>2. QED
  BY <1>1, OnlyBegins DEF BeginRetire

\* Nothing of the ledger and the graph but ties' rows: a tie is recorded.
LEMMA InsertTieDesk ==
    ASSUME DeskInv, NEW c \in Calls, InsertTie(c)
    PROVE DeskInv'
<1> USE DEF DeskInv, TypeOK
<1>1. pair[c] \in Nodes \X Nodes /\ pair[c] # NoEnds /\ pair[c] \in EndsOf
  BY DEF InsertTie, Desk, AtDesk, EndsOf, NoEnds
<1>2. Answer(c) /\ UNCHANGED <<into, retired, ledger, now, unwanted>> /\ 0 \in 0..MaxTime
  BY KindAssumption DEF InsertTie
<1>3. CallTypes'
  BY <1>2, AnswerTypes
<1>4. GraphTypes' /\ GhostTypes'
  <2>1. PICK e \in Ties : IF Duplicates(e, pair[c], LiveTies, ends)
                          THEN UNCHANGED <<tie, ends, origin>>
                          ELSE /\ tie' = [tie EXCEPT ![e] = "live"]
                               /\ ends' = [ends EXCEPT ![e] = pair[c]]
                               /\ origin' = [origin EXCEPT ![e] = pair[c]]
    BY DEF InsertTie
  <2>2. CASE UNCHANGED <<tie, ends, origin>>
    BY <1>2, <2>2 DEF GraphTypes, GhostTypes
  <2>3. CASE /\ tie' = [tie EXCEPT ![e] = "live"]
             /\ ends' = [ends EXCEPT ![e] = pair[c]]
             /\ origin' = [origin EXCEPT ![e] = pair[c]]
    BY <1>1, <1>2, <2>3 DEF GraphTypes, GhostTypes
  <2>4. QED
    BY <2>1, <2>2, <2>3
<1>5. LedgerTypes'
  BY <1>2 DEF ledger, LedgerTypes
<1>6. Desk'
  <2>1. NothingUnrecorded
    BY DEF InsertTie, GraphTypes, NothingUnrecorded
  <2>2. QED
    BY <1>2, <2>1, AnswerIs, DeskLeaves DEF ledger, Desk, AtDesk
<1>7. QED
  BY <1>3, <1>4, <1>5, <1>6

LEMMA RetireTieDesk ==
    ASSUME DeskInv, NEW c \in Calls, NEW e \in Ties, RetireTie(c, e)
    PROVE DeskInv'
<1> USE DEF DeskInv, TypeOK
<1>1. UNCHANGED <<into, retired, ends, ledger, now, pc, call, origin>>
  BY DEF RetireTie
<1>2. GraphTypes' /\ GhostTypes'
  BY <1>1 DEF RetireTie, GraphTypes, GhostTypes
<1>3. LedgerTypes' /\ CallTypes'
  BY <1>1 DEF ledger, call, LedgerTypes, CallTypes
<1>4. Desk'
  <2>1. \A x \in Ties : tie[x] # "absent" => tie'[x] # "absent"
    BY DEF RetireTie, GraphTypes
  <2>2. \A d \in Calls : seen[d] \subseteq Read
    BY DEF CallTypes
  <2>3. QED
    BY <1>1, <2>1, <2>2 DEF ledger, call, Desk, AtDesk, Read
<1>5. QED
  BY <1>2, <1>3, <1>4

LEMMA RetireNodeDesk ==
    ASSUME DeskInv, NEW c \in Calls, RetireNode(c)
    PROVE DeskInv'
<1> USE DEF DeskInv, TypeOK
<1>1. pair[c] \in Nodes \X Nodes
  BY DEF RetireNode, Desk, AtDesk
<1>2. Answer(c) /\ UNCHANGED <<into, ends, ledger, now, origin>> /\ 0 \in 0..MaxTime
  BY KindAssumption DEF RetireNode
<1>3. CallTypes'
  BY <1>2, AnswerTypes
<1>4. GraphTypes' /\ GhostTypes'
  BY <1>1, <1>2 DEF RetireNode, Touching, LiveTies, GraphTypes, GhostTypes
<1>5. LedgerTypes'
  BY <1>2 DEF ledger, LedgerTypes
<1>6. Desk'
  <2>1. NothingUnrecorded
    BY DEF RetireNode, GraphTypes, NothingUnrecorded
  <2>2. QED
    BY <1>2, <2>1, AnswerIs, DeskLeaves DEF ledger, Desk, AtDesk
<1>7. QED
  BY <1>3, <1>4, <1>5, <1>6

LEMMA OpenMergeDesk ==
    ASSUME DeskInv, NEW c \in Calls, OpenMerge(c)
    PROVE DeskInv'
<1> USE DEF DeskInv, TypeOK
<1>1. pc[c] = "open" /\ pair[c] \in Nodes \X Nodes /\ 0 \in 0..MaxTime
  BY KindAssumption DEF OpenMerge, Desk, AtDesk
<1>2. UNCHANGED <<graph, now, ghost>>
  BY DEF OpenMerge
<1>3. GraphTypes' /\ GhostTypes'
  BY <1>2 DEF graph, ghost, GraphTypes, GhostTypes
<1>4. CASE Answer(c) /\ UNCHANGED ledger
  <2>1. CallTypes' /\ LedgerTypes'
    BY <1>1, <1>2, <1>4, AnswerTypes DEF ledger, LedgerTypes
  <2>2. Desk'
    BY <1>2, <1>4, AnswerIs, DeskLeaves DEF graph, ledger, Desk, AtDesk, NothingUnrecorded
  <2>3. QED
    BY <1>3, <2>1, <2>2
<1>5. ASSUME NEW m \in Merges, status[m] = "none",
             status' = [status EXCEPT ![m] = "open"],
             from' = [from EXCEPT ![m] = pair[c][1]],
             to' = [to EXCEPT ![m] = pair[c][2]],
             at' = [at EXCEPT ![m] = time[c]],
             seen' = [seen EXCEPT ![c] = {[tie |-> e, ends |-> ends[e]] : e \in Touching(pair[c][1])}],
             job' = [job EXCEPT ![c] = m],
             pc' = [pc EXCEPT ![c] = "apply"],
             UNCHANGED <<record, pair, time>>
      PROVE DeskInv'
  <2>1. {[tie |-> e, ends |-> ends[e]] : e \in Touching(pair[c][1])} \in SUBSET Read
    BY LiveEnds DEF Read, Touching, LiveTies
  <2>2. CallTypes'
    BY <1>5, <2>1 DEF CallTypes
  <2>3. LedgerTypes'
    BY <1>1, <1>2, <1>5 DEF LedgerTypes, CallTypes
  <2>4. /\ pc'[c] = "apply" /\ job'[c] = m
        /\ \A t \in seen'[c] : tie'[t.tie] # "absent"
        /\ \A d \in Calls \ {c} : /\ pc'[d] = pc[d] /\ job'[d] = job[d] /\ pair'[d] = pair[d]
                                  /\ seen'[d] = seen[d] /\ tie' = tie
    BY <1>2, <1>5 DEF CallTypes, graph, Touching, LiveTies
  <2>5. /\ status'[m] = "open" /\ from'[m] \in Nodes /\ to'[m] \in Nodes
        /\ \A k \in Merges \ {m} : status'[k] = status[k] /\ from'[k] = from[k] /\ to'[k] = to[k]
    BY <1>1, <1>5 DEF LedgerTypes
  <2>6. \A d \in Calls : pc[d] \in {"apply", "restore"} => job[d] \in Merges /\ job[d] # m
    BY <1>5 DEF Desk, AtDesk
  <2>7. Desk'
    <3> SUFFICES ASSUME NEW d \in Calls
                 PROVE AtDesk(d)'
      BY DEF Desk
    <3>1. CASE d = c
      BY <2>4, <2>5, <2>6, <3>1 DEF Desk, AtDesk
    <3>2. CASE d # c
      <4>1. pc[d] = "apply" => \A x \in Calls : pc'[x] = "apply" /\ job'[x] = job'[d] => d = x
        BY <2>4, <2>6, <3>2 DEF Desk, AtDesk
      <4>2. QED
        BY <2>4, <2>5, <2>6, <3>2, <4>1 DEF Desk, AtDesk
    <3>3. QED
      BY <3>1, <3>2
  <2>8. QED
    BY <1>3, <2>2, <2>3, <2>7
<1>6. QED
  BY <1>4, <1>5 DEF OpenMerge

\* What a failed or refused merge leaves.
LEMMA RollBackDesk ==
    ASSUME DeskInv, NEW c \in Calls, pc[c] = "apply", RollBack(c), Answer(c), UNCHANGED <<now, ghost>>
    PROVE DeskInv'
<1> USE DEF DeskInv, TypeOK
<1>1. job[c] \in Merges /\ 0 \in 0..MaxTime
  BY KindAssumption DEF Desk, AtDesk
<1>2. CallTypes'
  BY <1>1, AnswerTypes
<1>3. GraphTypes' /\ GhostTypes'
  BY DEF RollBack, graph, ghost, GraphTypes, GhostTypes
<1>4. LedgerTypes'
  BY <1>1 DEF RollBack, LedgerTypes
<1>5. \A k \in Merges \ {job[c]} : status'[k] = status[k] /\ from'[k] = from[k] /\ to'[k] = to[k]
  BY <1>1 DEF RollBack, LedgerTypes
<1>6. \A d \in Calls \ {c} : pc[d] \in {"apply", "restore"} => job[d] \in Merges /\ job[d] # job[c]
  BY DEF Desk, AtDesk
<1>7. Desk'
  <2>1. \A d \in Calls \ {c} : pc[d] = "apply" =>
            status'[job[d]] = "open" /\ from'[job[d]] = from[job[d]] /\ to'[job[d]] = to[job[d]]
    BY <1>5, <1>6 DEF Desk, AtDesk
  <2>2. \A d \in Calls \ {c} : pc[d] = "restore" => status'[job[d]] \in {"live", "reversed"}
    BY <1>5, <1>6 DEF Desk, AtDesk
  <2>3. NothingUnrecorded
    BY DEF RollBack, graph, NothingUnrecorded
  <2>4. QED
    BY <2>1, <2>2, <2>3, AnswerIs, DeskLeaves
<1>8. QED
  BY <1>2, <1>3, <1>4, <1>7

LEMMA AppliedDesk ==
    ASSUME DeskInv, NEW c \in Calls, pc[c] = "apply", NEW out, Applied(c, out), Answer(c),
           UNCHANGED <<now, ghost>>
    PROVE DeskInv'
<1> USE DEF DeskInv, TypeOK
<1>1. job[c] \in Merges /\ 0 \in 0..MaxTime /\ from[job[c]] \in Nodes /\ to[job[c]] \in Nodes
  BY KindAssumption DEF Desk, AtDesk
<1>2. CallTypes'
  BY <1>1, AnswerTypes
<1>3. seen[c] \subseteq Read /\ out \subseteq seen[c]
  BY DEF CallTypes, Applied
<1>4. GraphTypes'
  <2>1. ASSUME NEW e \in Ties, \E t \in seen[c] \ out : t.tie = e
        PROVE Onward(job[c], CHOOSE t \in seen[c] : t.tie = e) \in Nodes \X Nodes
    <3>1. PICK t \in seen[c] : t = CHOOSE u \in seen[c] : u.tie = e
      BY <2>1
    <3>2. t.ends \in Nodes \X Nodes
      BY <1>3 DEF Read
    <3>3. QED
      BY <1>1, <3>1, <3>2, MovedTypes DEF Onward
  <2>2. \A e \in Ties : /\ ends'[e] = ends[e] \/ ends'[e] \in Nodes \X Nodes
                        /\ tie'[e] = tie[e] \/ (tie'[e] = "out" /\ \E t \in out : t.tie = e)
    BY <2>1 DEF Applied
  <2>3. ends' \in [Ties -> EndsOf]
    BY <2>1 DEF Applied, GraphTypes, EndsOf
  <2>4. tie' \in [Ties -> {"absent", "live", "out"}]
    BY DEF Applied, GraphTypes
  <2>5. into' \in [Nodes -> Nodes \cup {Nobody}] /\ retired' \subseteq Nodes
    BY <1>1 DEF Applied, GraphTypes
  <2>6. \A e \in Ties : tie'[e] # "absent" => ends'[e] # NoEnds
    BY <1>3, <2>2 DEF GraphTypes, Desk, AtDesk, NoEnds, Read
  <2>7. QED
    BY <2>3, <2>4, <2>5, <2>6 DEF GraphTypes
<1>5. GhostTypes'
  BY DEF ghost, GhostTypes
<1>6. LedgerTypes'
  <2>1. {[tie |-> t.tie, ends |-> t.ends, out |-> t \in out] : t \in seen[c]} \in SUBSET Recorded
    <3>1. ASSUME NEW t \in seen[c] PROVE [tie |-> t.tie, ends |-> t.ends, out |-> t \in out] \in Recorded
      <4>1. t.tie \in Ties /\ t.ends \in Nodes \X Nodes
        BY <1>3 DEF Read
      <4>2. (t \in out) \in BOOLEAN
        OBVIOUS
      <4>3. QED
        BY <4>1, <4>2 DEF Recorded
    <3>2. QED
      BY <3>1
  <2>2. PICK R \in SUBSET Recorded : record' = [record EXCEPT ![job[c]] = R]
    BY <2>1 DEF Applied
  <2>3. record' \in [Merges -> SUBSET Recorded]
    BY <1>1, <2>2 DEF LedgerTypes
  <2>4. QED
    BY <1>1, <2>3 DEF Applied, LedgerTypes
<1>7. \A k \in Merges \ {job[c]} : status'[k] = status[k] /\ from'[k] = from[k] /\ to'[k] = to[k]
  BY <1>1 DEF Applied, LedgerTypes
<1>8. \A d \in Calls \ {c} : pc[d] \in {"apply", "restore"} => job[d] \in Merges /\ job[d] # job[c]
  BY DEF Desk, AtDesk
<1>9. Desk'
  <2>1. \A d \in Calls \ {c} : pc[d] = "apply" =>
            status'[job[d]] = "open" /\ from'[job[d]] = from[job[d]] /\ to'[job[d]] = to[job[d]]
    BY <1>7, <1>8 DEF Desk, AtDesk
  <2>2. \A d \in Calls \ {c} : pc[d] = "restore" => status'[job[d]] \in {"live", "reversed"}
    BY <1>7, <1>8 DEF Desk, AtDesk
  <2>3. NothingUnrecorded
    BY DEF Applied, GraphTypes, NothingUnrecorded
  <2>4. QED
    BY <2>1, <2>2, <2>3, AnswerIs, DeskLeaves
<1>10. QED
  BY <1>2, <1>4, <1>5, <1>6, <1>9

LEMMA ApplyMergeDesk ==
    ASSUME DeskInv, NEW c \in Calls, ApplyMerge(c)
    PROVE DeskInv'
<1>1. pc[c] = "apply" /\ Answer(c) /\ UNCHANGED <<now, ghost>>
  BY DEF ApplyMerge
<1>2. CASE RollBack(c)
  BY <1>1, <1>2, RollBackDesk
<1>3. ASSUME NEW out, Applied(c, out) PROVE DeskInv'
  BY <1>1, <1>3, AppliedDesk
<1>4. QED
  BY <1>2, <1>3, ApplyEither

LEMMA FailMergeDesk ==
    ASSUME DeskInv, NEW c \in Calls, FailMerge(c)
    PROVE DeskInv'
  BY RollBackDesk DEF FailMerge

\* What a reversal that is not refused does.
Undone(c) == LET m == job[c] IN
    /\ ends' = [e \in Ties |-> IF e \in RecordedBy(m)
                               THEN (CHOOSE t \in record[m] : t.tie = e).ends ELSE ends[e]]
    /\ tie' = [e \in Ties |-> IF e \in Revived(m) THEN "live" ELSE tie[e]]
    /\ into' = [into EXCEPT ![from[m]] = Nobody]
    /\ status' = [status EXCEPT ![m] = "reversed"]
    /\ UNCHANGED retired

LEMMA RestoreEither ==
    ASSUME NEW c \in Calls, Restore(c)
    PROVE UNCHANGED <<graph, status>> \/ Undone(c)
  BY DEF Restore, Undone

LEMMA RestoreDesk ==
    ASSUME DeskInv, NEW c \in Calls, Restore(c)
    PROVE DeskInv'
<1> USE DEF DeskInv, TypeOK
<1>1. job[c] \in Merges /\ status[job[c]] \in {"live", "reversed"} /\ 0 \in 0..MaxTime
  BY KindAssumption DEF Restore, Desk, AtDesk
<1>2. Answer(c) /\ UNCHANGED <<from, to, at, record, now, ghost>>
  BY DEF Restore
<1>3. CallTypes'
  BY <1>1, <1>2, AnswerTypes
<1>4. GhostTypes'
  BY <1>2 DEF ghost, GhostTypes
<1>5. GraphTypes' /\ LedgerTypes' /\ NothingUnrecorded
  <2>1. CASE UNCHANGED <<graph, status>>
    BY <1>2, <2>1 DEF graph, GraphTypes, LedgerTypes, NothingUnrecorded
  <2>2. CASE Undone(c)
    <3>1. record[job[c]] \subseteq Recorded
      BY <1>1 DEF LedgerTypes
    <3>2. ASSUME NEW e \in Ties, e \in RecordedBy(job[c])
          PROVE (CHOOSE t \in record[job[c]] : t.tie = e).ends \in Nodes \X Nodes
      <4>1. PICK t \in record[job[c]] : t = CHOOSE u \in record[job[c]] : u.tie = e
        BY <3>2 DEF RecordedBy
      <4>2. QED
        BY <3>1, <4>1 DEF Recorded
    <3>3. \A e \in Ties : /\ e \in RecordedBy(job[c]) => ends'[e] \in Nodes \X Nodes
                          /\ e \notin RecordedBy(job[c]) => ends'[e] = ends[e]
      BY <2>2, <3>2 DEF Undone
    <3>4. ends' \in [Ties -> EndsOf]
      BY <2>2, <3>2 DEF Undone, GraphTypes, EndsOf
    <3>5. /\ tie' \in [Ties -> {"absent", "live", "out"}] /\ NothingUnrecorded
          /\ into' \in [Nodes -> Nodes \cup {Nobody}] /\ retired' \subseteq Nodes
      BY <2>2 DEF Undone, GraphTypes, NothingUnrecorded
    <3>6. \A e \in Ties : tie'[e] # "absent" => ends'[e] # NoEnds
      <4>1. \A e \in Ties : e \in Revived(job[c]) => e \in RecordedBy(job[c])
        BY DEF Revived, RecordedBy
      <4>2. \A e \in Ties : e \notin RecordedBy(job[c]) => tie'[e] = tie[e]
        BY <2>2, <4>1 DEF Undone
      <4>3. QED
        BY <3>3, <4>2, PairIsEnds DEF GraphTypes
    <3>7. LedgerTypes'
      BY <1>1, <1>2, <2>2 DEF Undone, LedgerTypes
    <3>8. QED
      BY <3>4, <3>5, <3>6, <3>7 DEF GraphTypes
  <2>3. QED
    BY <2>1, <2>2, RestoreEither
<1>6. \A k \in Merges : /\ status[k] \in {"live", "reversed"} => status'[k] \in {"live", "reversed"}
                        /\ status[k] = "open" => status'[k] = "open"
  BY <1>1, RestoreEither DEF Undone, LedgerTypes
<1>7. Desk'
  BY <1>2, <1>5, <1>6, AnswerIs, DeskLeaves DEF Desk, AtDesk
<1>8. QED
  BY <1>3, <1>4, <1>5, <1>7

-----------------------------------------------------------------------------
(* DeskInv, whatever calls run at once *)

LEMMA DeskInit == Init => DeskInv
  BY KindAssumption, NullAssumption
     DEF Init, DeskInv, TypeOK, GraphTypes, LedgerTypes, CallTypes, GhostTypes, EndsOf, Desk, AtDesk

LEMMA DeskStutter == DeskInv /\ UNCHANGED vars => DeskInv'
  BY DEF vars, DeskInv, TypeOK, GraphTypes, LedgerTypes, CallTypes, GhostTypes, Desk, AtDesk

LEMMA DeskStep == DeskInv /\ Next => DeskInv'
<1> SUFFICES ASSUME DeskInv, NEW c \in Calls, MergeStep(c) \/ ReversalStep(c) \/ GraphStep(c)
             PROVE DeskInv'
  BY DEF Next
<1>1. CASE MergeStep(c)
  BY <1>1, BeginMergeDesk, OpenMergeDesk, ApplyMergeDesk, FailMergeDesk DEF MergeStep
<1>2. CASE ReversalStep(c)
  BY <1>2, BeginReversalDesk, RestoreDesk DEF ReversalStep
<1>3. CASE GraphStep(c)
  BY <1>3, BeginTieDesk, BeginRetireDesk, RetireTieDesk, InsertTieDesk, RetireNodeDesk DEF GraphStep
<1>4. QED
  BY <1>1, <1>2, <1>3

\* Whatever calls run at once, every call has in hand what its step needs: a
\* merge about to write is open, is no other call's, and names two entities and
\* ties that exist; a reversal's merge was committed once.
THEOREM MergesDesk == Spec => []DeskInv
  BY DeskInit, DeskStep, DeskStutter, PTL DEF Spec

\* The shape of every entity, tie, merge and call, whatever runs at once.
THEOREM MergesTypes == Spec => []TypeOK
  BY MergesDesk, PTL DEF DeskInv

-----------------------------------------------------------------------------
(* While calls come one at a time: what a step that makes or reverses no   *)
(* merge leaves                                                            *)

SameLedger == \A m \in Merges :
    /\ Live(m)' <=> Live(m)
    /\ Live(m) => from'[m] = from[m] /\ to'[m] = to[m] /\ at'[m] = at[m] /\ record'[m] = record[m]

\* Who holds a tie, and where they left it.
LEMMA SameHolders ==
    ASSUME SameLedger, NEW e
    PROVE /\ Holding(e)' = Holding(e)
          /\ \A m \in Holding(e) : /\ at'[m] = at[m] /\ RowOf(m, e)' = RowOf(m, e)
                                   /\ LeftAt(m, e)' = LeftAt(m, e) /\ Before(m, e)' = Before(m, e)
<1>1. \A m \in Merges : Live(m) => RecordedBy(m)' = RecordedBy(m)
  BY DEF SameLedger, RecordedBy
<1>2. Holding(e)' = Holding(e)
  BY <1>1 DEF SameLedger, Holding
<1>3. \A m \in Holding(e) : from'[m] = from[m] /\ to'[m] = to[m] /\ at'[m] = at[m] /\ record'[m] = record[m]
  BY DEF SameLedger, Holding
<1>4. \A m \in Holding(e) : RowOf(m, e)' = RowOf(m, e)
  BY <1>3 DEF RowOf
<1>5. \A m \in Holding(e) : LeftAt(m, e)' = LeftAt(m, e)
  BY <1>3, <1>4 DEF LeftAt, Moved
<1>6. \A m \in Holding(e) : Before(m, e)' = Before(m, e)
  BY <1>2, <1>3 DEF Before
<1>7. QED
  BY <1>2, <1>3, <1>4, <1>5, <1>6

\* The chain of a tie that is where it was; it may be retired when no merge
\* that holds it took it out.
LEMMA SameChain ==
    ASSUME SameLedger, NEW e \in Ties, Chain(e), ends'[e] = ends[e], origin'[e] = origin[e],
           e \in unwanted' => e \in unwanted \/ \A m \in Holding(e) : ~RowOf(m, e).out
    PROVE Chain(e)'
<1>1. /\ Holding(e)' = Holding(e)
      /\ \A m \in Holding(e) : /\ at'[m] = at[m] /\ RowOf(m, e)' = RowOf(m, e)
                               /\ LeftAt(m, e)' = LeftAt(m, e) /\ Before(m, e)' = Before(m, e)
  BY SameHolders
<1>2. Handed(Holding(e), e, ends[e])'
  BY <1>1 DEF Chain, Handed, Last
<1>3. ASSUME NEW m \in Holding(e) PROVE Handed(Before(m, e), e, RowOf(m, e).ends)'
  <2>1. Before(m, e) \subseteq Holding(e)
    BY DEF Before
  <2>2. Handed(Before(m, e), e, RowOf(m, e).ends)
    BY DEF Chain
  <2>3. QED
    BY <1>1, <2>1, <2>2 DEF Handed, Last
<1>4. \A m \in Holding(e) : Last(m, Holding(e))' <=> Last(m, Holding(e))
  BY <1>1 DEF Last
<1>5. QED
  BY <1>1, <1>2, <1>3, <1>4 DEF Chain

\* The account of a tie that no merge takes out or brings back.
LEMMA SameAccount ==
    ASSUME SameLedger, NEW e \in Ties, Account(e), tie'[e] = tie[e], e \in unwanted' <=> e \in unwanted
    PROVE Account(e)'
  BY SameHolders DEF Account

\* The redirects and the two ends of each merge.
LEMMA SameRedirects ==
    ASSUME SameLedger, RedirectIsLedger, into' = into
    PROVE RedirectIsLedger'
<1>1. \A n \in Nodes : LiveMergesOf(n)' = LiveMergesOf(n)
  BY DEF SameLedger, LiveMergesOf
<1>2. \A n \in Nodes : \A m \in LiveMergesOf(n) : to'[m] = to[m]
  BY DEF SameLedger, LiveMergesOf
<1>3. QED
  BY <1>1, <1>2 DEF RedirectIsLedger

LEMMA SameLedgered == ASSUME SameLedger, Ledgered PROVE Ledgered'
  BY DEF SameLedger, Ledgered

\* Merges are numbered still, whichever are forgotten.
LEMMA SameTimes ==
    ASSUME Times, now' = now, LedgerTypes,
           \A m \in Merges : status'[m] # "none" => status[m] # "none" /\ at'[m] = at[m]
    PROVE Times'
  BY DEF Times

\* The one call that is idle has read nothing.
LEMMA IdleIsAsRead == ASSUME NEW c, Calls = {c}, pc'[c] = "idle" PROVE AsRead'
  BY DEF AsRead, StillSo

\* A step that leaves the ties too.
LEMMA SameTies ==
    ASSUME SameLedger, SerialInv, UNCHANGED <<graph, ghost>>
    PROVE Ledgered' /\ RedirectIsLedger' /\ Chained' /\ Accounted'
<1>1. \A e \in Ties : Chain(e)'
  BY SameChain DEF SerialInv, Chained, graph, ghost
<1>2. \A e \in Ties : Account(e)'
  BY SameAccount DEF SerialInv, Accounted, graph, ghost
<1>3. QED
  BY <1>1, <1>2, SameRedirects, SameLedgered DEF SerialInv, Chained, Accounted, graph

-----------------------------------------------------------------------------
(* SerialInv is kept by each action while calls come one at a time *)

LEMMA BeginMergeSerial ==
    ASSUME SerialInv, NEW c, Calls = {c}, NEW a \in Nodes, NEW b \in Nodes, BeginMerge(c, a, b)
    PROVE SerialInv'
<1>1. DeskInv /\ DeskInv'
  BY BeginMergeDesk DEF SerialInv
<1>2. /\ UNCHANGED <<graph, ledger, ghost>> /\ now' = now + 1 /\ now \in Nat
      /\ a # b /\ Standing(a) /\ Standing(b)
  BY <1>1, KindAssumption DEF BeginMerge, DeskInv, TypeOK, LedgerTypes
<1>3. SameLedger
  BY <1>2 DEF SameLedger, ledger, Live
<1>4. at \in [Merges -> Nat]
  BY <1>1, KindAssumption DEF DeskInv, TypeOK, LedgerTypes
<1>5. Times'
  BY <1>2, <1>4 DEF SerialInv, Times, ledger
<1>6. AsRead'
  <2>1. pc'[c] = "open" /\ pair'[c] = <<a, b>> /\ time'[c] = now + 1
    BY <1>1, BeginIs DEF BeginMerge, DeskInv, TypeOK, CallTypes
  <2>2. Standing(a)' /\ Standing(b)'
    BY <1>2 DEF Standing, graph
  <2>3. \A m \in Merges : status'[m] # "none" => at'[m] < now + 1
    BY <1>2, <1>4 DEF SerialInv, Times, ledger
  <2>4. StillSo(c)'
    BY <1>2, <2>1, <2>2, <2>3 DEF StillSo, Standing
  <2>5. QED
    BY <2>4 DEF AsRead
<1>7. QED
  BY <1>1, <1>2, <1>3, <1>5, <1>6, SameTies DEF SerialInv

\* A call that begins its reversal has read that nothing is in its way; the
\* others have read nothing.
LEMMA OnlyBeginsSerial ==
    ASSUME SerialInv, NEW c, Calls = {c}, DeskInv', NEW l \in {"restore", "tie", "retire"},
           NEW m \in Merges \cup {NoMerge}, NEW p, Begin(c, l, m, p),
           UNCHANGED <<graph, ledger, now, time, seen, ghost>>,
           l = "restore" => Live(m) /\ ~Blocked(m)
    PROVE SerialInv'
<1>1. SameLedger
  BY DEF SameLedger, ledger, Live
<1>2. Times'
  BY DEF SerialInv, Times, ledger
<1>3. AsRead'
  <2>1. pc'[c] = l /\ job'[c] = m
    BY BeginIs DEF SerialInv, DeskInv, TypeOK
  <2>2. Live(m)' <=> Live(m)
    BY DEF Live, ledger
  <2>3. Blocked(m)' <=> Blocked(m)
    BY DEF Blocked, Live, RecordedBy, ledger
  <2>4. StillSo(c)'
    BY <2>1, <2>2, <2>3 DEF StillSo, Live, Blocked, RecordedBy
  <2>5. QED
    BY <2>4 DEF AsRead
<1>4. QED
  BY <1>1, <1>2, <1>3, SameTies DEF SerialInv

LEMMA BeginReversalSerial ==
    ASSUME SerialInv, NEW c, Calls = {c}, NEW m \in Merges, BeginReversal(c, m)
    PROVE SerialInv'
<1>1. DeskInv'
  BY BeginReversalDesk DEF SerialInv
<1>2. QED
  BY <1>1, OnlyBeginsSerial DEF BeginReversal, Reversible

LEMMA BeginTieSerial ==
    ASSUME SerialInv, NEW c, Calls = {c}, NEW a \in Nodes, NEW b \in Nodes, BeginTie(c, a, b)
    PROVE SerialInv'
<1>1. DeskInv'
  BY BeginTieDesk DEF SerialInv
<1>2. QED
  BY <1>1, OnlyBeginsSerial DEF BeginTie

LEMMA BeginRetireSerial ==
    ASSUME SerialInv, NEW c, Calls = {c}, NEW n \in Nodes, BeginRetire(c, n)
    PROVE SerialInv'
<1>1. DeskInv'
  BY BeginRetireDesk DEF SerialInv
<1>2. QED
  BY <1>1, OnlyBeginsSerial DEF BeginRetire

\* A merge opened has the latest time, and is not live before it commits.
LEMMA OpenMergeSerial ==
    ASSUME SerialInv, NEW c, Calls = {c}, OpenMerge(c)
    PROVE SerialInv'
<1>1. DeskInv /\ DeskInv' /\ pc[c] = "open"
  BY OpenMergeDesk DEF SerialInv, OpenMerge
<1>2. UNCHANGED <<graph, now, ghost>>
  BY DEF OpenMerge
<1>3. CASE Answer(c) /\ UNCHANGED ledger
  <2>1. SameLedger
    BY <1>3 DEF SameLedger, ledger, Live
  <2>2. Times'
    BY <1>2, <1>3 DEF SerialInv, Times, ledger
  <2>3. AsRead'
    BY <1>1, <1>3, AnswerIs, IdleIsAsRead DEF DeskInv, TypeOK
  <2>4. QED
    BY <1>1, <1>2, <2>1, <2>2, <2>3, SameTies DEF SerialInv
<1>4. ASSUME NEW m \in Merges, status[m] = "none",
             status' = [status EXCEPT ![m] = "open"],
             from' = [from EXCEPT ![m] = pair[c][1]],
             to' = [to EXCEPT ![m] = pair[c][2]],
             at' = [at EXCEPT ![m] = time[c]],
             seen' = [seen EXCEPT ![c] = {[tie |-> e, ends |-> ends[e]] : e \in Touching(pair[c][1])}],
             job' = [job EXCEPT ![c] = m],
             pc' = [pc EXCEPT ![c] = "apply"],
             UNCHANGED <<record, pair, time>>
      PROVE SerialInv'
  <2>1. /\ pc'[c] = "apply" /\ job'[c] = m /\ status'[m] = "open"
        /\ from'[m] = pair[c][1] /\ to'[m] = pair[c][2] /\ at'[m] = time[c]
        /\ seen'[c] = {[tie |-> e, ends |-> ends[e]] : e \in Touching(pair[c][1])}
    BY <1>1, <1>4 DEF DeskInv, TypeOK, CallTypes, LedgerTypes
  <2>2. \A k \in Merges \ {m} : /\ status'[k] = status[k] /\ from'[k] = from[k] /\ to'[k] = to[k]
                                /\ at'[k] = at[k] /\ record'[k] = record[k]
    BY <1>1, <1>4 DEF DeskInv, TypeOK, LedgerTypes
  <2>3. SameLedger
    BY <1>4, <2>1, <2>2 DEF SameLedger, Live
  <2>4. /\ pair[c][1] # pair[c][2] /\ Standing(pair[c][1]) /\ Standing(pair[c][2])
        /\ \A k \in Merges : status[k] # "none" => at[k] < time[c]
        /\ time[c] <= now
    BY <1>1 DEF SerialInv, AsRead, StillSo
  <2>5. at \in [Merges -> Nat] /\ time[c] \in Nat /\ now \in Nat
    BY <1>1, KindAssumption DEF DeskInv, TypeOK, LedgerTypes, CallTypes
  <2>6. Times'
    BY <1>2, <2>1, <2>2, <2>4, <2>5 DEF SerialInv, Times
  <2>7. AsRead'
    <3>1. Standing(pair[c][1])' /\ Standing(pair[c][2])'
      BY <1>2, <1>4, <2>4 DEF Standing, graph
    <3>2. seen'[c] = {[tie |-> e, ends |-> ends[e]] : e \in Touching(pair[c][1])}'
      BY <1>2, <1>4, <2>1 DEF graph, Touching, LiveTies
    <3>3. \A k \in Merges \ {m} : status'[k] # "none" => at'[k] < at'[m]
      BY <2>1, <2>2, <2>4
    <3>4. StillSo(c)'
      BY <1>4, <2>1, <2>4, <3>1, <3>2, <3>3 DEF StillSo, Standing
    <3>5. QED
      BY <3>4 DEF AsRead
  <2>8. QED
    BY <1>1, <1>2, <2>3, <2>6, <2>7, SameTies DEF SerialInv
<1>5. QED
  BY <1>3, <1>4 DEF OpenMerge

\* A merge that fails leaves its number free.
LEMMA RollBackSerial ==
    ASSUME SerialInv, NEW c, Calls = {c}, pc[c] = "apply", RollBack(c), Answer(c), UNCHANGED <<now, ghost>>
    PROVE SerialInv'
<1>1. DeskInv /\ DeskInv' /\ job[c] \in Merges /\ status[job[c]] = "open"
  BY RollBackDesk DEF SerialInv, DeskInv, Desk, AtDesk
<1>2. UNCHANGED <<graph, record>>
  BY DEF RollBack
<1>3. /\ status'[job[c]] = "none"
      /\ \A k \in Merges \ {job[c]} : /\ status'[k] = status[k] /\ from'[k] = from[k] /\ to'[k] = to[k]
                                      /\ at'[k] = at[k] /\ record'[k] = record[k]
  BY <1>1, <1>2 DEF RollBack, DeskInv, TypeOK, LedgerTypes
<1>4. SameLedger
  BY <1>1, <1>3 DEF SameLedger, Live
<1>5. Times'
  BY <1>1, <1>3, SameTimes DEF SerialInv, DeskInv, TypeOK
<1>6. AsRead'
  BY <1>1, AnswerIs, IdleIsAsRead DEF DeskInv, TypeOK
<1>7. QED
  BY <1>1, <1>2, <1>4, <1>5, <1>6, SameTies DEF SerialInv

\* A tie recorded is where it was recorded, and no merge holds it.
LEMMA InsertTieSerial ==
    ASSUME SerialInv, NEW c, Calls = {c}, InsertTie(c)
    PROVE SerialInv'
<1>1. DeskInv /\ DeskInv'
  BY InsertTieDesk DEF SerialInv
<1>2. Answer(c) /\ UNCHANGED <<into, retired, ledger, now, unwanted>>
  BY DEF InsertTie
<1>3. SameLedger
  BY <1>2 DEF SameLedger, ledger, Live
<1>4. Times' /\ AsRead'
  BY <1>1, <1>2, AnswerIs, IdleIsAsRead DEF SerialInv, Times, ledger, DeskInv, TypeOK
<1>5. PICK e \in Ties :
        /\ tie[e] = "absent"
        /\ \/ UNCHANGED <<tie, ends, origin>>
           \/ /\ tie' = [tie EXCEPT ![e] = "live"]
              /\ ends' = [ends EXCEPT ![e] = pair[c]]
              /\ origin' = [origin EXCEPT ![e] = pair[c]]
  BY DEF InsertTie
<1>6. CASE UNCHANGED <<tie, ends, origin>>
  BY <1>1, <1>2, <1>3, <1>4, <1>6, SameTies DEF SerialInv, graph, ghost
<1>7. CASE /\ tie' = [tie EXCEPT ![e] = "live"]
           /\ ends' = [ends EXCEPT ![e] = pair[c]]
           /\ origin' = [origin EXCEPT ![e] = pair[c]]
  <2>1. tie'[e] = "live" /\ ends'[e] = origin'[e]
    BY <1>1, <1>7 DEF DeskInv, TypeOK, GraphTypes, GhostTypes
  <2>2. \A f \in Ties \ {e} : tie'[f] = tie[f] /\ ends'[f] = ends[f] /\ origin'[f] = origin[f]
    BY <1>1, <1>7 DEF DeskInv, TypeOK, GraphTypes, GhostTypes
  <2>3. Holding(e)' = {} /\ e \notin unwanted'
    BY <1>2, <1>3, <1>5, SameHolders DEF SerialInv, Accounted, Account
  <2>4. Chain(e)' /\ Account(e)'
    BY <2>1, <2>3 DEF Chain, Account, Handed
  <2>5. \A f \in Ties \ {e} : Chain(f)' /\ Account(f)'
    BY <1>2, <1>3, <2>2, SameChain, SameAccount DEF SerialInv, Chained, Accounted
  <2>6. Ledgered' /\ RedirectIsLedger'
    BY <1>2, <1>3, SameRedirects, SameLedgered DEF SerialInv
  <2>7. QED
    BY <1>1, <1>4, <2>4, <2>5, <2>6 DEF SerialInv, Chained, Accounted
<1>8. QED
  BY <1>5, <1>6, <1>7

\* Live ties that an analyst retires were not taken out by a merge.
LEMMA RetiredTies ==
    ASSUME SerialInv, SameLedger, NEW R \in SUBSET LiveTies, UNCHANGED <<ends, origin>>,
           tie' = [e \in Ties |-> IF e \in R THEN "out" ELSE tie[e]], unwanted' = unwanted \cup R
    PROVE Chained' /\ Accounted'
<1>1. \A e \in R : tie[e] = "live" /\ e \in Ties
  BY DEF LiveTies
<1>2. ASSUME NEW e \in Ties PROVE Chain(e)'
  <2>1. e \in R => \A m \in Holding(e) : ~RowOf(m, e).out
    BY <1>1 DEF SerialInv, Accounted, Account
  <2>2. QED
    BY <2>1, SameChain DEF SerialInv, Chained
<1>3. ASSUME NEW e \in Ties PROVE Account(e)'
  <2>1. CASE e \in R
    BY <1>1, <2>1 DEF Account
  <2>2. CASE e \notin R
    BY <2>2, SameAccount DEF SerialInv, Accounted
  <2>3. QED
    BY <2>1, <2>2
<1>4. QED
  BY <1>2, <1>3 DEF Chained, Accounted

LEMMA RetireTieSerial ==
    ASSUME SerialInv, NEW c, Calls = {c}, NEW e \in Ties, RetireTie(c, e)
    PROVE SerialInv'
<1>1. DeskInv /\ DeskInv'
  BY RetireTieDesk DEF SerialInv
<1>2. UNCHANGED <<into, retired, ends, ledger, now, pc, call, origin>> /\ pc[c] = "idle"
  BY DEF RetireTie
<1>3. SameLedger
  BY <1>2 DEF SameLedger, ledger, Live
<1>4. Times' /\ AsRead'
  BY <1>2, IdleIsAsRead DEF SerialInv, Times, ledger
<1>5. Chained' /\ Accounted'
  <2>1. {e} \in SUBSET LiveTies
    BY DEF RetireTie, LiveTies
  <2>2. tie' = [f \in Ties |-> IF f \in {e} THEN "out" ELSE tie[f]]
    BY <1>1 DEF RetireTie, DeskInv, TypeOK, GraphTypes
  <2>3. QED
    BY <1>2, <1>3, <2>1, <2>2, RetiredTies DEF RetireTie
<1>6. QED
  BY <1>1, <1>2, <1>3, <1>4, <1>5, SameRedirects, SameLedgered DEF SerialInv

LEMMA RetireNodeSerial ==
    ASSUME SerialInv, NEW c, Calls = {c}, RetireNode(c)
    PROVE SerialInv'
<1>1. DeskInv /\ DeskInv'
  BY RetireNodeDesk DEF SerialInv
<1>2. Answer(c) /\ UNCHANGED <<into, ends, ledger, now, origin>>
  BY DEF RetireNode
<1>3. SameLedger
  BY <1>2 DEF SameLedger, ledger, Live
<1>4. Times' /\ AsRead'
  BY <1>1, <1>2, AnswerIs, IdleIsAsRead DEF SerialInv, Times, ledger, DeskInv, TypeOK
<1>5. Chained' /\ Accounted'
  <2>1. CASE UNCHANGED <<retired, tie, unwanted>>
    <3>1. \A e \in Ties : Chain(e)' /\ Account(e)'
      BY <1>2, <1>3, <2>1, SameChain, SameAccount DEF SerialInv, Chained, Accounted
    <3>2. QED
      BY <3>1 DEF Chained, Accounted
  <2>2. CASE /\ tie' = [e \in Ties |-> IF e \in Touching(pair[c][1]) THEN "out" ELSE tie[e]]
             /\ unwanted' = unwanted \cup Touching(pair[c][1])
    <3>1. Touching(pair[c][1]) \in SUBSET LiveTies
      BY DEF Touching
    <3>2. QED
      BY <1>2, <1>3, <2>2, <3>1, RetiredTies
  <2>3. QED
    BY <2>1, <2>2 DEF RetireNode
<1>6. QED
  BY <1>1, <1>2, <1>3, <1>4, <1>5, SameRedirects, SameLedgered DEF SerialInv

-----------------------------------------------------------------------------
(* A merge that commits: the last link of its ties' chains                 *)

\* Its rows: one for each tie the source had, with the ends it had.
LEMMA AppliedRows ==
    ASSUME SerialInv, NEW c, Calls = {c}, pc[c] = "apply", NEW m, m = job[c],
           NEW out, Applied(c, out), NEW e
    PROVE /\ e \in RecordedBy(m)' <=> e \in Touching(from[m])
          /\ e \in Touching(from[m]) =>
                /\ RowOf(m, e)' \in record'[m]
                /\ RowOf(m, e)'.tie = e /\ RowOf(m, e)'.ends = ends[e]
                /\ RowOf(m, e)'.out <=> [tie |-> e, ends |-> ends[e]] \in out
          /\ \A t, u \in record'[m] : t.tie = u.tie => t = u
<1>1. seen[c] = {[tie |-> x, ends |-> ends[x]] : x \in Touching(from[m])}
  BY DEF SerialInv, AsRead, StillSo
<1>2. m \in Merges /\ record \in [Merges -> SUBSET Recorded]
  BY DEF SerialInv, DeskInv, Desk, AtDesk, TypeOK, LedgerTypes
<1>3. record'[m] = {[tie |-> t.tie, ends |-> t.ends, out |-> t \in out] : t \in seen[c]}
  BY <1>2 DEF Applied
<1> DEFINE T(x) == [tie |-> x, ends |-> ends[x]]
           W(x) == [tie |-> x, ends |-> ends[x], out |-> T(x) \in out]
<1>4. ASSUME NEW t \in record'[m] PROVE \E x \in Touching(from[m]) : t = W(x)
  <2>1. PICK u \in seen[c] : t = [tie |-> u.tie, ends |-> u.ends, out |-> u \in out]
    BY <1>3
  <2>2. PICK x \in Touching(from[m]) : u = T(x)
    BY <1>1
  <2>3. u.tie = x /\ u.ends = ends[x]
    BY <2>2
  <2>4. t = W(x)
    BY <2>1, <2>2, <2>3
  <2>5. QED
    BY <2>4
<1>5. ASSUME NEW x \in Touching(from[m]) PROVE W(x) \in record'[m]
  <2>1. T(x) \in seen[c]
    BY <1>1
  <2>2. T(x).tie = x /\ T(x).ends = ends[x]
    OBVIOUS
  <2>3. [tie |-> T(x).tie, ends |-> T(x).ends, out |-> T(x) \in out] \in record'[m]
    BY <1>3, <2>1
  <2>4. QED
    BY <2>2, <2>3
<1>6. \A x : W(x).tie = x /\ W(x).ends = ends[x] /\ (W(x).out <=> T(x) \in out)
  OBVIOUS
<1> HIDE DEF T, W
<1>7. \A t, u \in record'[m] : t.tie = u.tie => t = u
  BY <1>4, <1>6
<1>8. e \in RecordedBy(m)' <=> e \in Touching(from[m])
  BY <1>4, <1>5, <1>6 DEF RecordedBy
<1>9. ASSUME e \in Touching(from[m]) PROVE RowOf(m, e)' = W(e) /\ RowOf(m, e)' \in record'[m]
  BY <1>5, <1>6, <1>7, <1>9 DEF RowOf
<1>10. QED
  BY <1>6, <1>7, <1>8, <1>9 DEF T

\* Where it leaves each tie.
LEMMA AppliedTies ==
    ASSUME SerialInv, NEW c, Calls = {c}, pc[c] = "apply", NEW m, m = job[c],
           NEW out, Applied(c, out), NEW e \in Ties
    PROVE /\ e \notin Touching(from[m]) => tie'[e] = tie[e] /\ ends'[e] = ends[e]
          /\ e \in Touching(from[m]) =>
                /\ tie[e] = "live" /\ ends'[e] = LeftAt(m, e)' /\ RowOf(m, e)'.ends = ends[e]
                /\ tie'[e] = "live" <=> ~RowOf(m, e)'.out
                /\ tie'[e] \in {"live", "out"}
<1> DEFINE T == [tie |-> e, ends |-> ends[e]]
<1>1. seen[c] = {[tie |-> x, ends |-> ends[x]] : x \in Touching(from[m])} /\ out \in SUBSET seen[c]
  BY DEF SerialInv, AsRead, StillSo, Applied
<1>2. \A t \in seen[c] : t.tie = e => t = T /\ e \in Touching(from[m])
  BY <1>1
<1>3. e \in Touching(from[m]) => T \in seen[c] /\ T.tie = e /\ T.ends = ends[e] /\ tie[e] = "live"
  BY <1>1 DEF Touching, LiveTies
<1>4. tie'[e] = IF T \in out THEN "out" ELSE tie[e]
  BY <1>1, <1>2, <1>3 DEF Applied
<1>5. T \in seen[c] \ out => ends'[e] = Onward(m, T)
  <2> SUFFICES ASSUME T \in seen[c] \ out PROVE ends'[e] = Onward(m, T)
    OBVIOUS
  <2>1. T.tie = e
    OBVIOUS
  <2>2. (CHOOSE t \in seen[c] : t.tie = e) = T
    BY <1>2, <2>1
  <2>3. \E t \in seen[c] \ out : t.tie = e
    BY <2>1
  <2>4. ends'[e] = Onward(m, CHOOSE t \in seen[c] : t.tie = e)
    BY <2>3 DEF Applied
  <2>5. QED
    BY <2>2, <2>4
<1>6. T \notin seen[c] \ out => ends'[e] = ends[e]
  BY <1>2 DEF Applied
<1>7. from' = from /\ to' = to
  BY DEF Applied
<1>8. CASE e \notin Touching(from[m])
  BY <1>1, <1>2, <1>4, <1>6, <1>8
<1>9. CASE e \in Touching(from[m])
  <2>1. /\ RowOf(m, e)'.ends = ends[e]
        /\ RowOf(m, e)'.out <=> T \in out
    BY <1>9, AppliedRows
  <2>2. LeftAt(m, e)' = IF RowOf(m, e)'.out THEN RowOf(m, e)'.ends
                        ELSE Moved(RowOf(m, e)'.ends, from[m], to[m])
    BY <1>7 DEF LeftAt, Moved, Applied
  <2>3. ends'[e] = LeftAt(m, e)'
    BY <1>3, <1>5, <1>6, <1>9, <2>1, <2>2 DEF Onward
  <2>4. QED
    BY <1>3, <1>4, <1>9, <2>1, <2>3
<1>10. QED
  BY <1>8, <1>9

\* Who holds a tie then.
LEMMA AppliedHolders ==
    ASSUME SerialInv, NEW c, Calls = {c}, pc[c] = "apply", NEW m, m = job[c],
           NEW out, Applied(c, out), NEW e
    PROVE /\ m \in Merges /\ m \notin Holding(e)
          /\ Holding(e)' = IF e \in Touching(from[m]) THEN Holding(e) \cup {m} ELSE Holding(e)
          /\ at' = at /\ \A k \in Holding(e) : at[k] < at[m]
          /\ \A k \in Holding(e) : /\ RowOf(k, e)' = RowOf(k, e) /\ LeftAt(k, e)' = LeftAt(k, e)
                                   /\ Before(k, e)' = Before(k, e)
          /\ e \in Touching(from[m]) => Before(m, e)' = Holding(e)
<1>1. /\ m \in Merges /\ status[m] = "open"
      /\ status \in [Merges -> {"none", "open", "live", "reversed"}]
      /\ record \in [Merges -> SUBSET Recorded] /\ at \in [Merges -> 0..MaxTime]
  BY DEF SerialInv, DeskInv, Desk, AtDesk, TypeOK, LedgerTypes
<1>2. at' = at /\ from' = from /\ to' = to /\ status'[m] = "live"
  BY <1>1 DEF Applied
<1>3. \A k \in Merges \ {m} : status'[k] = status[k] /\ record'[k] = record[k]
  BY <1>1 DEF Applied
<1>4. \A k \in Merges \ {m} : RecordedBy(k)' = RecordedBy(k)
  BY <1>3 DEF RecordedBy
<1>5. e \in RecordedBy(m)' <=> e \in Touching(from[m])
  BY AppliedRows
<1>6. m \notin Holding(e)
  BY <1>1 DEF Holding, Live
<1>7. Holding(e)' = IF e \in Touching(from[m]) THEN Holding(e) \cup {m} ELSE Holding(e)
  BY <1>1, <1>2, <1>3, <1>4, <1>5, <1>6 DEF Holding, Live
<1>8. \A k \in Holding(e) : at[k] < at[m]
  <2>1. \A k \in Merges \ {m} : status[k] # "none" => at[k] < at[m]
    BY DEF SerialInv, AsRead, StillSo
  <2>2. QED
    BY <1>6, <2>1 DEF Holding, Live
<1>9. \A k \in Holding(e) : RowOf(k, e)' = RowOf(k, e)
  BY <1>3, <1>6 DEF RowOf, Holding
<1>10. \A k \in Holding(e) : LeftAt(k, e)' = LeftAt(k, e)
  BY <1>2, <1>9 DEF LeftAt, Moved
<1>11. at \in [Merges -> Nat]
  BY <1>1, KindAssumption
<1>12. \A k \in Holding(e) : Before(k, e)' = Before(k, e)
  <2>1. \A k \in Holding(e) : k \in Merges /\ ~(at[m] < at[k])
    BY <1>1, <1>8, <1>11 DEF Holding
  <2>2. QED
    BY <1>2, <1>7, <2>1 DEF Before
<1>13. e \in Touching(from[m]) => Before(m, e)' = Holding(e)
  <2>1. ~(at[m] < at[m])
    BY <1>1, <1>11
  <2>2. QED
    BY <1>2, <1>7, <1>8, <2>1 DEF Before
<1>14. QED
  BY <1>1, <1>2, <1>6, <1>7, <1>8, <1>9, <1>10, <1>12, <1>13

\* The chain grows by a link, or is as it was.
LEMMA AppliedChain ==
    ASSUME SerialInv, NEW c, Calls = {c}, pc[c] = "apply", NEW m, m = job[c],
           NEW out, Applied(c, out), UNCHANGED ghost,
           NEW e \in Ties
    PROVE Chain(e)' /\ Account(e)'
<1>1. /\ m \in Merges /\ m \notin Holding(e)
      /\ Holding(e)' = IF e \in Touching(from[m]) THEN Holding(e) \cup {m} ELSE Holding(e)
      /\ at' = at /\ \A k \in Holding(e) : at[k] < at[m]
      /\ \A k \in Holding(e) : /\ RowOf(k, e)' = RowOf(k, e) /\ LeftAt(k, e)' = LeftAt(k, e)
                               /\ Before(k, e)' = Before(k, e)
      /\ e \in Touching(from[m]) => Before(m, e)' = Holding(e)
  BY AppliedHolders
<1>2. origin' = origin /\ unwanted' = unwanted /\ at \in [Merges -> Nat] /\ Holding(e) \subseteq Merges
  BY KindAssumption DEF ghost, SerialInv, DeskInv, TypeOK, LedgerTypes, Holding
<1>3. Chain(e) /\ Account(e)
  BY DEF SerialInv, Chained, Accounted
<1>4. CASE e \notin Touching(from[m])
  <2>1. tie'[e] = tie[e] /\ ends'[e] = ends[e] /\ Holding(e)' = Holding(e)
    BY <1>1, <1>4, AppliedTies
  <2>2. \A k \in Holding(e) : Before(k, e) \subseteq Holding(e)
    BY DEF Before
  <2>3. Handed(Holding(e), e, ends[e])'
    BY <1>1, <1>2, <1>3, <2>1 DEF Chain, Handed, Last
  <2>4. ASSUME NEW k \in Holding(e) PROVE Handed(Before(k, e), e, RowOf(k, e).ends)'
    BY <1>1, <1>2, <1>3, <2>2 DEF Chain, Handed, Last
  <2>5. \A k \in Holding(e) : Last(k, Holding(e))' <=> Last(k, Holding(e))
    BY <1>1, <2>1 DEF Last
  <2>6. Chain(e)'
    BY <1>1, <1>2, <1>3, <2>1, <2>3, <2>4, <2>5 DEF Chain
  <2>7. QED
    BY <1>1, <1>2, <1>3, <2>1, <2>6 DEF Account
<1>5. CASE e \in Touching(from[m])
  <2>1. /\ tie[e] = "live" /\ ends'[e] = LeftAt(m, e)' /\ RowOf(m, e)'.ends = ends[e]
        /\ tie'[e] = "live" <=> ~RowOf(m, e)'.out
        /\ tie'[e] \in {"live", "out"}
    BY <1>5, AppliedTies
  <2>2. Holding(e)' = Holding(e) \cup {m} /\ Before(m, e)' = Holding(e)
    BY <1>1, <1>5
  <2>3. e \notin unwanted /\ \A k \in Holding(e) : ~RowOf(k, e).out
    BY <1>3, <2>1 DEF Account
  <2>4. \A k \in Holding(e)' : Last(k, Holding(e))' <=> k = m
    BY <1>1, <1>2, <2>2 DEF Last
  <2>5. Handed(Holding(e), e, ends[e])'
    <3>1. ASSUME NEW k \in Holding(e)', Last(k, Holding(e))' PROVE ends'[e] = LeftAt(k, e)'
      <4>1. k = m
        BY <2>4, <3>1
      <4>2. QED
        BY <2>1, <4>1
    <3>2. Holding(e)' # {}
      BY <2>2
    <3>3. QED
      BY <3>1, <3>2 DEF Handed
  <2>6. Handed(Before(m, e), e, RowOf(m, e).ends)'
    BY <1>1, <1>2, <1>3, <2>1, <2>2 DEF Chain, Handed, Last
  <2>7. ASSUME NEW k \in Holding(e) PROVE Handed(Before(k, e), e, RowOf(k, e).ends)'
    <3>1. Before(k, e) \subseteq Holding(e)
      BY DEF Before
    <3>2. QED
      BY <1>1, <1>2, <1>3, <3>1 DEF Chain, Handed, Last
  <2>8. Chain(e)'
    BY <1>1, <1>2, <2>2, <2>3, <2>4, <2>5, <2>6, <2>7 DEF Chain
  <2>9. Account(e)'
    BY <1>1, <1>2, <2>1, <2>2, <2>3 DEF Account
  <2>10. QED
    BY <2>8, <2>9
<1>6. QED
  BY <1>4, <1>5

LEMMA AppliedSerial ==
    ASSUME SerialInv, NEW c, Calls = {c}, pc[c] = "apply", NEW out, Applied(c, out), Answer(c),
           UNCHANGED <<now, ghost>>
    PROVE SerialInv'
<1> DEFINE m == job[c]
<1>1. DeskInv /\ DeskInv'
  BY AppliedDesk DEF SerialInv
<1>2. /\ m \in Merges /\ status[m] = "open" /\ from[m] \in Nodes /\ to[m] \in Nodes
      /\ from[m] # to[m] /\ Standing(from[m]) /\ Standing(to[m])
      /\ \A k \in Merges \ {m} : status[k] # "none" => at[k] < at[m]
  BY DEF SerialInv, AsRead, StillSo, DeskInv, Desk, AtDesk
<1>3. /\ from' = from /\ to' = to /\ at' = at /\ status'[m] = "live"
      /\ \A k \in Merges \ {m} : status'[k] = status[k] /\ record'[k] = record[k]
      /\ into'[from[m]] = to[m] /\ \A n \in Nodes \ {from[m]} : into'[n] = into[n]
  BY <1>1, <1>2 DEF Applied, DeskInv, TypeOK, LedgerTypes, GraphTypes
<1>4. AsRead'
  BY <1>1, AnswerIs, IdleIsAsRead DEF DeskInv, TypeOK
<1>5. Times'
  BY <1>1, <1>2, <1>3, SameTimes DEF SerialInv, DeskInv, TypeOK
<1>6. \A k \in Merges : Live(k) => from[k] # from[m] /\ from[k] # to[m]
  <2> SUFFICES ASSUME NEW k \in Merges, Live(k), from[k] \in {from[m], to[m]} PROVE FALSE
    OBVIOUS
  <2>1. from[k] \in Nodes /\ k \in LiveMergesOf(from[k]) /\ into[from[k]] = Nobody
    BY <1>2 DEF LiveMergesOf, Standing
  <2>2. \E l \in LiveMergesOf(from[k]) : into[from[k]] = to[l] /\ to[l] \in Nodes
    BY <2>1 DEF SerialInv, RedirectIsLedger, Ledgered, LiveMergesOf
  <2>3. QED
    BY <2>1, <2>2, NullAssumption
<1>7. m \notin {k \in Merges : Live(k)} /\ \A k \in Merges : Live(k)' <=> Live(k) \/ k = m
  BY <1>2, <1>3 DEF Live
<1> HIDE DEF m
<1>8. Ledgered'
  <2>1. \A k \in Merges : Live(k)' => from'[k] \in Nodes /\ to'[k] \in Nodes
    BY <1>2, <1>3, <1>7 DEF SerialInv, Ledgered
  <2>2. ASSUME NEW k \in Merges, Live(k)' PROVE \A t, u \in record'[k] : t.tie = u.tie => t = u
    <3>1. CASE k = m
      BY <3>1, AppliedRows DEF m
    <3>2. CASE k # m
      BY <1>3, <1>7, <2>2, <3>2 DEF SerialInv, Ledgered
    <3>3. QED
      BY <3>1, <3>2
  <2>3. ASSUME NEW k \in Merges, NEW l \in Merges, Live(k)', Live(l)', to'[k] = from'[l]
        PROVE at'[k] < at'[l]
    <3>1. CASE l = m
      BY <1>2, <1>3, <1>7, <2>3, <3>1 DEF Live
    <3>2. CASE l # m
      BY <1>3, <1>6, <1>7, <2>3, <3>2 DEF SerialInv, Ledgered
    <3>3. QED
      BY <3>1, <3>2
  <2>4. QED
    BY <2>1, <2>2, <2>3 DEF Ledgered
<1>9. RedirectIsLedger'
  <2> SUFFICES ASSUME NEW n \in Nodes
               PROVE (IF LiveMergesOf(n) = {} THEN into[n] = Nobody
                      ELSE \E k \in LiveMergesOf(n) : LiveMergesOf(n) = {k} /\ into[n] = to[k])'
    BY DEF RedirectIsLedger
  <2>1. CASE n = from[m]
    <3>1. LiveMergesOf(n)' = {m}
      BY <1>2, <1>3, <1>6, <1>7, <2>1 DEF LiveMergesOf
    <3>2. QED
      BY <1>3, <2>1, <3>1
  <2>2. CASE n # from[m]
    <3>1. LiveMergesOf(n)' = LiveMergesOf(n)
      BY <1>2, <1>3, <1>7, <2>2 DEF LiveMergesOf
    <3>2. QED
      BY <1>3, <2>2, <3>1 DEF SerialInv, RedirectIsLedger
  <2>3. QED
    BY <2>1, <2>2
<1>10. Chained' /\ Accounted'
  <2>1. \A e \in Ties : Chain(e)' /\ Account(e)'
    BY AppliedChain
  <2>2. QED
    BY <2>1 DEF Chained, Accounted
<1>11. QED
  BY <1>1, <1>4, <1>5, <1>8, <1>9, <1>10 DEF SerialInv

LEMMA ApplyMergeSerial ==
    ASSUME SerialInv, NEW c, Calls = {c}, ApplyMerge(c)
    PROVE SerialInv'
<1>1. pc[c] = "apply" /\ Answer(c) /\ UNCHANGED <<now, ghost>>
  BY DEF ApplyMerge
<1>2. CASE RollBack(c)
  BY <1>1, <1>2, RollBackSerial
<1>3. ASSUME NEW out, Applied(c, out) PROVE SerialInv'
  BY <1>1, <1>3, AppliedSerial
<1>4. QED
  BY <1>2, <1>3, ApplyEither

LEMMA FailMergeSerial ==
    ASSUME SerialInv, NEW c, Calls = {c}, FailMerge(c)
    PROVE SerialInv'
  BY RollBackSerial DEF FailMerge

-----------------------------------------------------------------------------
(* A reversal that commits: the last link of its ties' chains goes         *)

\* Who holds a tie then: the reversed merge was the last to.
LEMMA UndoneHolders ==
    ASSUME SerialInv, NEW c, Calls = {c}, pc[c] = "restore", NEW m, m = job[c], Undone(c),
           UNCHANGED <<from, to, at, record>>, NEW e
    PROVE /\ m \in Merges /\ Live(m)
          /\ m \in Holding(e) <=> e \in RecordedBy(m)
          /\ Holding(e)' = Holding(e) \ {m}
          /\ m \in Holding(e) => \A k \in Holding(e) \ {m} : at[k] < at[m]
          /\ \A k \in Holding(e) : RowOf(k, e)' = RowOf(k, e) /\ LeftAt(k, e)' = LeftAt(k, e)
          /\ m \in Holding(e) => Before(m, e) = Holding(e) \ {m}
          /\ \A k \in Holding(e) \ {m} : Before(k, e)' = Before(k, e)
<1>1. m \in Merges /\ Live(m) /\ ~Blocked(m)
  BY DEF SerialInv, AsRead, StillSo, DeskInv, Desk, AtDesk
<1>2. at \in [Merges -> Nat] /\ status \in [Merges -> {"none", "open", "live", "reversed"}]
  BY KindAssumption DEF SerialInv, DeskInv, TypeOK, LedgerTypes
<1>3. m \in Holding(e) <=> e \in RecordedBy(m)
  BY <1>1 DEF Holding
<1>4. \A k \in Merges : Live(k)' <=> Live(k) /\ k # m
  BY <1>1, <1>2 DEF Undone, Live
<1>5. \A k : RecordedBy(k)' = RecordedBy(k)
  BY DEF RecordedBy
<1>6. Holding(e)' = Holding(e) \ {m}
  BY <1>4, <1>5 DEF Holding
<1>7. ASSUME m \in Holding(e), NEW k \in Holding(e) \ {m} PROVE at[k] < at[m]
  <2>1. k \in Merges /\ Live(k) /\ RecordedBy(k) \cap RecordedBy(m) # {}
    BY <1>7 DEF Holding
  <2>2. ~(at[k] > at[m])
    BY <1>1, <1>7, <2>1 DEF Blocked
  <2>3. at[k] # at[m]
    BY <1>1, <1>7, <2>1 DEF SerialInv, Times, Live
  <2>4. QED
    BY <1>1, <1>2, <2>1, <2>2, <2>3
<1>8. \A k \in Holding(e) : RowOf(k, e)' = RowOf(k, e) /\ LeftAt(k, e)' = LeftAt(k, e)
  BY DEF RowOf, LeftAt, Moved
<1>9. m \in Holding(e) => Before(m, e) = Holding(e) \ {m}
  BY <1>1, <1>2, <1>7 DEF Before
<1>10. ASSUME NEW k \in Holding(e) \ {m} PROVE Before(k, e)' = Before(k, e)
  <2>1. m \in Holding(e) => ~(at[m] < at[k])
    <3>1. k \in Merges
      BY DEF Holding
    <3>2. QED
      BY <1>1, <1>2, <1>7, <3>1
  <2>2. QED
    BY <1>6, <2>1 DEF Before
<1>11. QED
  BY <1>1, <1>3, <1>6, <1>7, <1>8, <1>9, <1>10

\* Where it leaves each tie.
LEMMA UndoneTies ==
    ASSUME SerialInv, NEW c, Calls = {c}, pc[c] = "restore", NEW m, m = job[c], Undone(c), NEW e \in Ties
    PROVE /\ e \in RecordedBy(m) => /\ ends'[e] = RowOf(m, e).ends
                                     /\ tie'[e] = IF RowOf(m, e).out THEN "live" ELSE tie[e]
          /\ e \notin RecordedBy(m) => ends'[e] = ends[e] /\ tie'[e] = tie[e]
<1>1. m \in Merges /\ Live(m)
  BY DEF SerialInv, AsRead, StillSo, DeskInv, Desk, AtDesk
<1>2. ends'[e] = IF e \in RecordedBy(m) THEN RowOf(m, e).ends ELSE ends[e]
  BY DEF Undone, RowOf
<1>3. \A t, u \in record[m] : t.tie = u.tie => t = u
  BY <1>1 DEF SerialInv, Ledgered
<1>4. e \in RecordedBy(m) => RowOf(m, e) \in record[m] /\ RowOf(m, e).tie = e
  BY DEF RecordedBy, RowOf
<1>5. e \in Revived(m) <=> e \in RecordedBy(m) /\ RowOf(m, e).out
  BY <1>3, <1>4 DEF Revived, RecordedBy
<1>6. tie'[e] = IF e \in Revived(m) THEN "live" ELSE tie[e]
  BY DEF Undone
<1>7. QED
  BY <1>2, <1>5, <1>6

LEMMA UndoneChain ==
    ASSUME SerialInv, NEW c, Calls = {c}, pc[c] = "restore", Undone(c),
           UNCHANGED <<from, to, at, record, ghost>>, NEW e \in Ties
    PROVE Chain(e)' /\ Account(e)'
<1> SUFFICES ASSUME NEW m, m = job[c] PROVE Chain(e)' /\ Account(e)'
  OBVIOUS
<1>1. /\ m \in Merges /\ Live(m)
      /\ m \in Holding(e) <=> e \in RecordedBy(m)
      /\ Holding(e)' = Holding(e) \ {m}
      /\ m \in Holding(e) => \A k \in Holding(e) \ {m} : at[k] < at[m]
      /\ \A k \in Holding(e) : RowOf(k, e)' = RowOf(k, e) /\ LeftAt(k, e)' = LeftAt(k, e)
      /\ m \in Holding(e) => Before(m, e) = Holding(e) \ {m}
      /\ \A k \in Holding(e) \ {m} : Before(k, e)' = Before(k, e)
  BY UndoneHolders
<1>2. origin' = origin /\ unwanted' = unwanted /\ at \in [Merges -> Nat] /\ Holding(e) \subseteq Merges
  BY KindAssumption DEF ghost, SerialInv, DeskInv, TypeOK, LedgerTypes, Holding
<1>3. Chain(e) /\ Account(e)
  BY DEF SerialInv, Chained, Accounted
<1>4. /\ e \in RecordedBy(m) => /\ ends'[e] = RowOf(m, e).ends
                                 /\ tie'[e] = IF RowOf(m, e).out THEN "live" ELSE tie[e]
      /\ e \notin RecordedBy(m) => ends'[e] = ends[e] /\ tie'[e] = tie[e]
  BY UndoneTies
<1>5. ASSUME NEW k \in Holding(e)' PROVE Handed(Before(k, e), e, RowOf(k, e).ends)'
  <2>1. k \in Holding(e) \ {m} /\ Before(k, e) \subseteq Holding(e)
    BY <1>1 DEF Before
  <2>2. QED
    BY <1>1, <1>2, <1>3, <2>1 DEF Chain, Handed, Last
<1>6. Handed(Holding(e), e, ends[e])'
  <2>1. CASE m \in Holding(e)
    <3>1. ends'[e] = RowOf(m, e).ends /\ Holding(e)' = Before(m, e) /\ Before(m, e) \subseteq Holding(e)
      BY <1>1, <1>4, <2>1
    <3>2. Handed(Before(m, e), e, RowOf(m, e).ends)
      BY <1>3, <2>1 DEF Chain
    <3>3. QED
      BY <1>1, <1>2, <3>1, <3>2 DEF Handed, Last
  <2>2. CASE m \notin Holding(e)
    <3>1. ends'[e] = ends[e] /\ Holding(e)' = Holding(e)
      BY <1>1, <1>4, <2>2
    <3>2. QED
      BY <1>1, <1>2, <1>3, <3>1 DEF Chain, Handed, Last
  <2>3. QED
    BY <2>1, <2>2
<1>7. ASSUME NEW k \in Holding(e)', RowOf(k, e)'.out PROVE Last(k, Holding(e))' /\ e \notin unwanted'
  <2>1. k \in Holding(e) /\ RowOf(k, e).out
    BY <1>1, <1>7
  <2>2. QED
    BY <1>1, <1>2, <1>3, <2>1 DEF Chain, Last
<1>8. Chain(e)'
  BY <1>5, <1>6, <1>7 DEF Chain
<1>9. Account(e)'
  <2>1. CASE m \notin Holding(e)
    BY <1>1, <1>2, <1>3, <1>4, <2>1 DEF Account
  <2>2. CASE m \in Holding(e) /\ ~RowOf(m, e).out
    BY <1>1, <1>2, <1>3, <1>4, <2>2 DEF Account
  <2>3. CASE m \in Holding(e) /\ RowOf(m, e).out
    <3>1. tie'[e] = "live" /\ e \notin unwanted
      BY <1>1, <1>3, <1>4, <2>3 DEF Chain
    <3>2. ASSUME NEW k \in Holding(e) \ {m} PROVE ~RowOf(k, e).out
      <4>1. ~(at[m] <= at[k])
        BY <1>1, <1>2, <2>3
      <4>2. QED
        BY <1>3, <2>3, <4>1 DEF Chain, Last
    <3>3. QED
      BY <1>1, <1>2, <3>1, <3>2 DEF Account
  <2>4. QED
    BY <2>1, <2>2, <2>3
<1>10. QED
  BY <1>8, <1>9

LEMMA UndoneSerial ==
    ASSUME SerialInv, NEW c, Calls = {c}, Restore(c), Undone(c)
    PROVE SerialInv'
<1> SUFFICES ASSUME NEW m, m = job[c] PROVE SerialInv'
  OBVIOUS
<1>1. DeskInv /\ DeskInv' /\ pc[c] = "restore"
  BY RestoreDesk DEF SerialInv, Restore
<1>2. Answer(c) /\ UNCHANGED <<from, to, at, record, now, ghost>>
  BY DEF Restore
<1>3. m \in Merges /\ Live(m) /\ from[m] \in Nodes
  BY <1>1 DEF SerialInv, AsRead, StillSo, Desk, AtDesk, DeskInv, Ledgered
<1>4. /\ \A k \in Merges : Live(k)' <=> Live(k) /\ k # m
      /\ \A k \in Merges : status'[k] # "none" => status[k] # "none"
      /\ into'[from[m]] = Nobody /\ \A n \in Nodes \ {from[m]} : into'[n] = into[n]
  BY <1>1, <1>3 DEF Undone, Live, DeskInv, TypeOK, LedgerTypes, GraphTypes
<1>5. AsRead' /\ Times'
  BY <1>1, <1>2, <1>4, AnswerIs, IdleIsAsRead, SameTimes DEF SerialInv, DeskInv, TypeOK
<1>6. Ledgered'
  BY <1>2, <1>4 DEF SerialInv, Ledgered
<1>7. RedirectIsLedger'
  <2> SUFFICES ASSUME NEW n \in Nodes
               PROVE (IF LiveMergesOf(n) = {} THEN into[n] = Nobody
                      ELSE \E k \in LiveMergesOf(n) : LiveMergesOf(n) = {k} /\ into[n] = to[k])'
    BY DEF RedirectIsLedger
  <2>1. CASE n = from[m]
    <3>1. LiveMergesOf(n) = {m}
      BY <1>3, <2>1 DEF SerialInv, RedirectIsLedger, LiveMergesOf
    <3>2. LiveMergesOf(n)' = {}
      BY <1>2, <1>4, <3>1 DEF LiveMergesOf
    <3>3. QED
      BY <1>4, <2>1, <3>2
  <2>2. CASE n # from[m]
    <3>1. LiveMergesOf(n)' = LiveMergesOf(n)
      BY <1>2, <1>3, <1>4, <2>2 DEF LiveMergesOf
    <3>2. QED
      BY <1>2, <1>4, <2>2, <3>1 DEF SerialInv, RedirectIsLedger
  <2>3. QED
    BY <2>1, <2>2
<1>8. Chained' /\ Accounted'
  <2>1. \A e \in Ties : Chain(e)' /\ Account(e)'
    BY <1>1, <1>2, UndoneChain
  <2>2. QED
    BY <2>1 DEF Chained, Accounted
<1>9. QED
  BY <1>1, <1>5, <1>6, <1>7, <1>8 DEF SerialInv

LEMMA RestoreSerial ==
    ASSUME SerialInv, NEW c, Calls = {c}, Restore(c)
    PROVE SerialInv'
<1>1. CASE UNCHANGED <<graph, status>>
  <2>1. Answer(c) /\ UNCHANGED <<from, to, at, record, now, ghost>>
    BY DEF Restore
  <2>2. DeskInv /\ DeskInv'
    BY RestoreDesk DEF SerialInv
  <2>3. SameLedger /\ Times'
    BY <1>1, <2>1 DEF SameLedger, Live, SerialInv, Times
  <2>4. AsRead'
    BY <2>1, <2>2, AnswerIs, IdleIsAsRead DEF DeskInv, TypeOK
  <2>5. QED
    BY <1>1, <2>1, <2>2, <2>3, <2>4, SameTies DEF SerialInv
<1>2. CASE Undone(c)
  BY <1>2, UndoneSerial
<1>3. QED
  BY <1>1, <1>2, RestoreEither

-----------------------------------------------------------------------------
(* SerialInv, while calls come one at a time                               *)

LEMMA SerialInit == Init => SerialInv
<1> SUFFICES ASSUME Init PROVE SerialInv
  OBVIOUS
<1>1. DeskInv
  BY DeskInit
<1>2. \A m \in Merges : status[m] = "none"
  BY DEF Init
<1>3. Times /\ Ledgered
  BY <1>2 DEF Times, Ledgered, Live
<1>4. AsRead
  BY DEF Init, AsRead, StillSo
<1>5. RedirectIsLedger
  BY <1>2 DEF Init, RedirectIsLedger, LiveMergesOf, Live
<1>6. Chained /\ Accounted
  <2>1. \A e \in Ties : Holding(e) = {}
    BY <1>2 DEF Holding, Live
  <2>2. QED
    BY <2>1 DEF Init, Chained, Chain, Accounted, Account, Handed
<1>7. QED
  BY <1>1, <1>3, <1>4, <1>5, <1>6 DEF SerialInv

LEMMA SerialStutter == SerialInv /\ UNCHANGED vars => SerialInv'
<1> SUFFICES ASSUME SerialInv, UNCHANGED vars PROVE SerialInv'
  OBVIOUS
<1>1. DeskInv'
  BY DeskStutter DEF SerialInv
<1>2. SameLedger /\ UNCHANGED <<graph, ghost>>
  BY DEF SameLedger, Live, vars, graph, ghost
<1>3. Times'
  BY DEF SerialInv, Times, vars
<1>4. AsRead'
  <2>1. \A m : Blocked(m)' <=> Blocked(m)
    BY DEF vars, Blocked, Live, RecordedBy
  <2>2. ASSUME NEW c \in Calls PROVE StillSo(c)'
    BY <2>1 DEF SerialInv, AsRead, StillSo, Standing, Touching, LiveTies, Live, Blocked, RecordedBy, vars
  <2>3. QED
    BY <2>2 DEF AsRead
<1>5. QED
  BY <1>1, <1>2, <1>3, <1>4, SameTies DEF SerialInv

LEMMA SerialStep == ASSUME NEW c, Calls = {c}, SerialInv, Next PROVE SerialInv'
<1>1. CASE MergeStep(c)
  BY <1>1, BeginMergeSerial, OpenMergeSerial, ApplyMergeSerial, FailMergeSerial DEF MergeStep
<1>2. CASE ReversalStep(c)
  BY <1>2, BeginReversalSerial, RestoreSerial DEF ReversalStep
<1>3. CASE GraphStep(c)
  BY <1>3, BeginTieSerial, BeginRetireSerial, RetireTieSerial, InsertTieSerial, RetireNodeSerial DEF GraphStep
<1>4. QED
  BY <1>1, <1>2, <1>3 DEF Next

\* While calls come one at a time, what a call read is so when it writes, a
\* tie's live merges are a chain from where it was recorded to where it is, and
\* redirects, ties and ledger account for one another.
THEOREM MergesSerial == ASSUME NEW c, Calls = {c} PROVE Spec => []SerialInv
<1>1. SerialInv /\ [Next]_vars => SerialInv'
  BY SerialStep, SerialStutter
<1>2. QED
  BY <1>1, SerialInit, PTL DEF Spec

-----------------------------------------------------------------------------
(* The promises                                                            *)

\* "Undo a merge exactly", whatever was merged, retired and reversed between.
THEOREM UndoneExactly == ASSUME NEW c, Calls = {c} PROVE Spec => []Restored
<1>1. SerialInv => Restored
  <2> SUFFICES ASSUME SerialInv, NEW e \in Ties, tie[e] # "absent",
                      \A m \in Merges : Live(m) => e \notin RecordedBy(m)
               PROVE ends[e] = origin[e] /\ (tie[e] = "live" <=> e \notin unwanted)
    BY DEF Restored
  <2>1. Holding(e) = {}
    BY DEF Holding
  <2>2. Chain(e) /\ Account(e)
    BY DEF SerialInv, Chained, Accounted
  <2>3. QED
    BY <2>1, <2>2 DEF Chain, Handed, Account
<1>2. QED
  BY <1>1, MergesSerial, PTL

\* What an analyst retired, no merge and no reversal brings back.
THEOREM RetiredIsOut == ASSUME NEW c, Calls = {c} PROVE Spec => []RetiredStaysOut
<1>1. SerialInv => RetiredStaysOut
  <2> SUFFICES ASSUME SerialInv, NEW e \in unwanted PROVE tie[e] = "out"
    BY DEF RetiredStaysOut
  <2>1. e \in Ties /\ tie[e] \in {"absent", "live", "out"}
    BY DEF SerialInv, DeskInv, TypeOK, GraphTypes, GhostTypes
  <2>2. Account(e)
    BY <2>1 DEF SerialInv, Accounted
  <2>3. QED
    BY <2>1, <2>2 DEF Account
<1>2. QED
  BY <1>1, MergesSerial, PTL

\* An entity's redirect is what its one live merge says.
THEOREM RedirectsAreRecorded == ASSUME NEW c, Calls = {c} PROVE Spec => []RedirectIsLedger
<1>1. SerialInv => RedirectIsLedger
  BY DEF SerialInv
<1>2. QED
  BY <1>1, MergesSerial, PTL

\* A set of times has a latest.
LEMMA Latest == ASSUME NEW K \in Nat, NEW A \in SUBSET (0..K), A # {}
                PROVE \E x \in A : \A y \in A : y <= x
<1> DEFINE B == {K - a : a \in A}
           R == {p \in Nat \X Nat : p[1] < p[2]}
<1>1. B \subseteq Nat /\ B # {}
  <2>1. \A a \in A : K - a \in Nat
    OBVIOUS
  <2>2. QED
    BY <2>1
<1>2. PICK b \in B : \A d \in B : ~(d < b)
  <2>1. IsWellFoundedOn(R, Nat)
    BY NatLessThanWellFounded DEF OpToRel
  <2>2. \E b \in B : \A d \in B : ~(<<d, b>> \in R)
    BY <1>1, <2>1, WFMin
  <2>3. QED
    BY <1>1, <2>2
<1>3. PICK x \in A : b = K - x
  OBVIOUS
<1>4. \A y \in A : ~(K - y < K - x)
  BY <1>2, <1>3
<1>5. QED
  BY <1>4

\* No entities redirect among themselves only: who was merged into one that was
\* merged on was merged before it, and one of them was merged last.
THEOREM NoActorVanishes == ASSUME NEW c, Calls = {c} PROVE Spec => []NobodyVanishes
<1>1. SerialInv => NobodyVanishes
  <2> SUFFICES ASSUME SerialInv, NEW S \in SUBSET Nodes, S # {}, \A n \in S : into[n] \in S
               PROVE FALSE
    BY DEF NobodyVanishes
  <2> DEFINE M == {m \in Merges : Live(m) /\ from[m] \in S}
             A == {at[m] : m \in M}
  <2>1. ASSUME NEW n \in S PROVE \E m \in M : from[m] = n /\ to[m] = into[n]
    <3>1. into[n] # Nobody /\ n \in Nodes
      BY NullAssumption
    <3>2. \E m \in LiveMergesOf(n) : into[n] = to[m]
      BY <3>1 DEF SerialInv, RedirectIsLedger
    <3>3. QED
      BY <3>2 DEF LiveMergesOf
  <2>2. at \in [Merges -> 0..MaxTime] /\ MaxTime \in Nat
    BY KindAssumption DEF SerialInv, DeskInv, TypeOK, LedgerTypes
  <2>3. A \in SUBSET (0..MaxTime) /\ A # {}
    BY <2>1, <2>2
  <2>4. PICK m \in M : \A y \in A : y <= at[m]
    BY <2>2, <2>3, Latest
  <2>5. \E k \in M : from[k] = from[m] /\ to[k] \in S
    BY <2>1
  <2>6. to[m] \in S
    <3>1. PICK k \in M : from[k] = from[m] /\ to[k] \in S
      BY <2>5
    <3>2. from[m] \in Nodes
      OBVIOUS
    <3>3. k = m
      BY <3>1, <3>2 DEF SerialInv, RedirectIsLedger, LiveMergesOf
    <3>4. QED
      BY <3>1, <3>3
  <2>7. PICK k \in M : from[k] = to[m]
    BY <2>1, <2>6
  <2>8. at[m] < at[k]
    BY <2>7 DEF SerialInv, Ledgered
  <2>9. at[k] <= at[m]
    BY <2>4
  <2>10. QED
    BY <2>2, <2>8, <2>9
<1>2. QED
  BY <1>1, MergesSerial, PTL
=============================================================================
