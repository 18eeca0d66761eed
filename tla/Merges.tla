------------------------------- MODULE Merges -------------------------------
(***************************************************************************)
(* Entity resolution in one case: the reversible merge ledger (merges.py,  *)
(* 0027, 0055), and the writes of the graph that meet it: recording a tie, *)
(* retiring a tie, retiring an entity (graph.py, routers/graph.py).        *)
(*                                                                         *)
(* Transactions are READ COMMITTED.  A merge's is two steps: its INSERT    *)
(* and its SELECT of the ties, then its UPDATEs and its commit; rows it    *)
(* updates are locked from the first to the commit, so the UPDATEs act on  *)
(* what others committed, with the endpoints the SELECT had read.  Every   *)
(* other transaction has all it reads in the statement that writes, and is *)
(* one step.  A deadlock or a lost connection is a transaction that fails. *)
(***************************************************************************)
EXTENDS Naturals, FiniteSets

CONSTANTS
    Nodes,      \* entities of the case
    Ties,       \* ids of core.edge rows; a row is never deleted
    Merges,     \* ids of core.node_merge rows
    Calls,      \* HTTP calls in progress
    Mergeable,  \* pairs that _check_layers and _refuse_declassifying let through
    Kind,       \* [Ties -> ...]: a tie's type, validity and labels
    Hidden,     \* kinds whose ties the merging analysts may not read
    MaxTime     \* bound on the merges begun

Nobody  == "nobody"
NoMerge == "no merge"
NoEnds  == <<>>

ASSUME PairAssumption == Mergeable \subseteq Nodes \X Nodes
ASSUME KindAssumption == Kind = [e \in Ties |-> Kind[e]] /\ MaxTime \in Nat
ASSUME NullAssumption == Nobody \notin Nodes /\ NoMerge \notin Merges

VARIABLES
    into,      \* node.merged_into_id
    retired,   \* nodes with deleted_at
    tie,       \* "absent", "live", or "out": deleted_at is set
    ends,      \* <<src_node_id, dst_node_id>> of each tie
    status,    \* of each merge: "none", "open" (not committed), "live", "reversed"
    from, to, at,  \* its source, its target, its merged_at
    record,    \* its node_merge_edge rows: [tie, ends, out]
    now,       \* the API's clock
    pc, job, pair, time, seen,  \* the calls
    origin,    \* ghost: a tie's ends when it was recorded
    unwanted   \* ghost: ties an analyst retired, alone or with their entity

graph  == <<into, retired, tie, ends>>
ledger == <<status, from, to, at, record>>
call   == <<job, pair, time, seen>>
ghost  == <<origin, unwanted>>
vars   == <<into, retired, tie, ends, status, from, to, at, record, now,
            pc, job, pair, time, seen, origin, unwanted>>

-----------------------------------------------------------------------------
NotRetired(n) == n \notin retired                                        \* a mutant
Standing(n) == into[n] = Nobody /\ n \notin retired

Live(m) == status[m] = "live"
RecordedBy(m) == {t.tie : t \in record[m]}

\* The LIFO check: a later live merge recorded one of the same ties.
NeverBlocked(m) == FALSE                                                 \* a mutant
Blocked(m) == \E n \in Merges \ {m} :
    Live(n) /\ at[n] > at[m] /\ RecordedBy(n) \cap RecordedBy(m) # {}

EverMerged(m) == status[m] \in {"live", "reversed"}                      \* a mutant
Reversible(m) == Live(m)

\* Ties that come back live: those the merge itself took out (0055).
AllOfThem(m) == RecordedBy(m)                                            \* a mutant
Revived(m) == {t.tie : t \in {u \in record[m] : u.out}}

\* edge_uniq_active, of a tie that is to be live with these ends.
Duplicates(e, es, others, theirEnds) ==
    \E f \in others \ {e} : theirEnds[f] = es /\ Kind[f] = Kind[e]

LiveTies == {e \in Ties : tie[e] = "live"}
Touching(n) == {e \in LiveTies : n \in {ends[e][1], ends[e][2]}}

\* The ends es once a is merged into b.
Moved(es, a, b) == [i \in 1..2 |-> IF es[i] = a THEN b ELSE es[i]]

Begin(c, l, m, p) ==
    /\ pc[c] = "idle"
    /\ pc' = [pc EXCEPT ![c] = l]
    /\ job' = [job EXCEPT ![c] = m]
    /\ pair' = [pair EXCEPT ![c] = p]

\* The call answers: its locals are gone.
Answer(c) ==
    /\ pc' = [pc EXCEPT ![c] = "idle"]
    /\ job' = [job EXCEPT ![c] = NoMerge]
    /\ pair' = [pair EXCEPT ![c] = NoEnds]
    /\ time' = [time EXCEPT ![c] = 0]
    /\ seen' = [seen EXCEPT ![c] = {}]

-----------------------------------------------------------------------------
Init ==
    /\ into = [n \in Nodes |-> Nobody] /\ retired = {}
    /\ tie = [e \in Ties |-> "absent"] /\ ends = [e \in Ties |-> NoEnds]
    /\ status = [m \in Merges |-> "none"]
    /\ from = [m \in Merges |-> Nobody] /\ to = [m \in Merges |-> Nobody]
    /\ at = [m \in Merges |-> 0] /\ record = [m \in Merges |-> {}]
    /\ now = 0
    /\ pc = [c \in Calls |-> "idle"] /\ job = [c \in Calls |-> NoMerge]
    /\ pair = [c \in Calls |-> NoEnds] /\ time = [c \in Calls |-> 0]
    /\ seen = [c \in Calls |-> {}]
    /\ origin = [e \in Ties |-> NoEnds] /\ unwanted = {}

-----------------------------------------------------------------------------
(* merge: the two nodes are read, the time is taken, then the transaction *)

BeginMerge(c, a, b) ==
    /\ a # b /\ Standing(a) /\ Standing(b) /\ <<a, b>> \in Mergeable
    /\ now < MaxTime
    /\ now' = now + 1
    /\ time' = [time EXCEPT ![c] = now + 1]
    /\ Begin(c, "open", NoMerge, <<a, b>>)
    /\ UNCHANGED <<graph, ledger, seen, ghost>>

\* The INSERT waits for an open merge of the same source, and is refused by a
\* live one (node_merge_one_live_per_source); then the ties are read.
OpenMerge(c) ==
    /\ pc[c] = "open"
    /\ LET a == pair[c][1]
           Rival(s) == \E m \in Merges : status[m] = s /\ from[m] = a
       IN /\ ~Rival("open")
          /\ IF Rival("live")
             THEN Answer(c) /\ UNCHANGED ledger
             ELSE \E m \in Merges :
                  /\ status[m] = "none"
                  /\ status' = [status EXCEPT ![m] = "open"]
                  /\ from' = [from EXCEPT ![m] = a]
                  /\ to' = [to EXCEPT ![m] = pair[c][2]]
                  /\ at' = [at EXCEPT ![m] = time[c]]
                  /\ seen' = [seen EXCEPT ![c] = {[tie |-> e, ends |-> ends[e]] : e \in Touching(a)}]
                  /\ job' = [job EXCEPT ![c] = m]
                  /\ pc' = [pc EXCEPT ![c] = "apply"]
                  /\ UNCHANGED <<record, pair, time>>
    /\ UNCHANGED <<graph, now, ghost>>

\* Nothing of a transaction that fails remains.
RollBack(c) ==
    /\ status' = [status EXCEPT ![job[c]] = "none"]
    /\ from' = [from EXCEPT ![job[c]] = Nobody]
    /\ to' = [to EXCEPT ![job[c]] = Nobody]
    /\ at' = [at EXCEPT ![job[c]] = 0]
    /\ UNCHANGED <<graph, record>>

\* A tie between the two becomes a self-loop and is taken out; a tie that would
\* duplicate one of the target's refuses the merge if the analyst may read it,
\* and is taken out if not; every other tie moves.
ApplyMerge(c) ==
    /\ pc[c] = "apply"
    /\ LET m == job[c]  a == from[m]  b == to[m]
           New(t) == Moved(t.ends, a, b)
           loops == {t \in seen[c] : New(t)[1] = New(t)[2]}
           others == LiveTies \ {t.tie : t \in seen[c]}
           clashes == {t \in seen[c] \ loops :
                         tie[t.tie] = "live" /\ Duplicates(t.tie, New(t), others, ends)}
           out == loops \cup clashes
       IN IF \E t \in clashes : Kind[t.tie] \notin Hidden
          THEN RollBack(c)
          ELSE /\ tie' = [e \in Ties |-> IF \E t \in out : t.tie = e THEN "out" ELSE tie[e]]
               /\ ends' = [e \in Ties |->
                     IF \E t \in seen[c] \ out : t.tie = e
                     THEN New(CHOOSE t \in seen[c] : t.tie = e) ELSE ends[e]]
               /\ record' = [record EXCEPT ![m] =
                     {[tie |-> t.tie, ends |-> t.ends, out |-> t \in out] : t \in seen[c]}]
               /\ into' = [into EXCEPT ![a] = b]
               /\ status' = [status EXCEPT ![m] = "live"]
               /\ UNCHANGED <<retired, from, to, at>>
    /\ Answer(c)
    /\ UNCHANGED <<now, ghost>>

FailMerge(c) == pc[c] = "apply" /\ RollBack(c) /\ Answer(c) /\ UNCHANGED <<now, ghost>>

-----------------------------------------------------------------------------
(* unmerge: the merge and its blockers are read, then one transaction that *)
(* asks neither again                                                      *)

BeginReversal(c, m) ==
    /\ Reversible(m) /\ ~Blocked(m)
    /\ Begin(c, "restore", m, NoEnds)
    /\ UNCHANGED <<graph, ledger, now, time, seen, ghost>>

Restore(c) ==
    /\ pc[c] = "restore"
    /\ LET m == job[c]
           back == [e \in Ties |-> IF e \in RecordedBy(m)
                                   THEN (CHOOSE t \in record[m] : t.tie = e).ends ELSE ends[e]]
           up == LiveTies \cup Revived(m)
       IN IF \E e \in RecordedBy(m) \cap up : Duplicates(e, back[e], up, back)
          THEN UNCHANGED <<graph, status>>
          ELSE /\ ends' = back
               /\ tie' = [e \in Ties |-> IF e \in Revived(m) THEN "live" ELSE tie[e]]
               /\ into' = [into EXCEPT ![from[m]] = Nobody]
               /\ status' = [status EXCEPT ![m] = "reversed"]
               /\ UNCHANGED retired
    /\ Answer(c)
    /\ UNCHANGED <<from, to, at, record, now, ghost>>

-----------------------------------------------------------------------------
(* The graph's own writes *)

\* create_edge: _gate_endpoints, then the INSERT.
BeginTie(c, a, b) ==
    /\ a # b /\ Standing(a) /\ Standing(b)
    /\ Begin(c, "tie", NoMerge, <<a, b>>)
    /\ UNCHANGED <<graph, ledger, now, time, seen, ghost>>

InsertTie(c) ==
    /\ pc[c] = "tie"
    /\ \E e \in Ties :
         /\ tie[e] = "absent"
         /\ IF Duplicates(e, pair[c], LiveTies, ends)
            THEN UNCHANGED <<tie, ends, origin>>
            ELSE /\ tie' = [tie EXCEPT ![e] = "live"]
                 /\ ends' = [ends EXCEPT ![e] = pair[c]]
                 /\ origin' = [origin EXCEPT ![e] = pair[c]]
    /\ Answer(c)
    /\ UNCHANGED <<into, retired, ledger, now, unwanted>>

\* soft_delete_edge: one UPDATE, of a tie that is live; the whole call is a step.
RetireTie(c, e) ==
    /\ pc[c] = "idle" /\ tie[e] = "live"
    /\ tie' = [tie EXCEPT ![e] = "out"]
    /\ unwanted' = unwanted \cup {e}
    /\ UNCHANGED <<into, retired, ends, ledger, now, pc, call, origin>>

\* soft_delete_node: not merged away and no live merge's survivor, then the
\* entity and its ties in one transaction.
BeginRetire(c, n) ==
    /\ Standing(n) /\ ~\E m \in Merges : Live(m) /\ to[m] = n
    /\ Begin(c, "retire", NoMerge, <<n, n>>)
    /\ UNCHANGED <<graph, ledger, now, time, seen, ghost>>

RetireNode(c) ==
    /\ pc[c] = "retire"
    /\ LET n == pair[c][1]
       IN IF n \in retired
          THEN UNCHANGED <<retired, tie, unwanted>>
          ELSE /\ retired' = retired \cup {n}
               /\ tie' = [e \in Ties |-> IF e \in Touching(n) THEN "out" ELSE tie[e]]
               /\ unwanted' = unwanted \cup Touching(n)
    /\ Answer(c)
    /\ UNCHANGED <<into, ends, ledger, now, origin>>

-----------------------------------------------------------------------------
MergeStep(c)    == \/ \E a, b \in Nodes : BeginMerge(c, a, b)
                   \/ OpenMerge(c) \/ ApplyMerge(c) \/ FailMerge(c)
ReversalStep(c) == (\E m \in Merges : BeginReversal(c, m)) \/ Restore(c)
GraphStep(c)    == \/ \E a, b \in Nodes : BeginTie(c, a, b)
                   \/ \E n \in Nodes : BeginRetire(c, n)
                   \/ \E e \in Ties : RetireTie(c, e)
                   \/ InsertTie(c) \/ RetireNode(c)

Next == \E c \in Calls : MergeStep(c) \/ ReversalStep(c) \/ GraphStep(c)

Spec == Init /\ [][Next]_vars
=============================================================================
