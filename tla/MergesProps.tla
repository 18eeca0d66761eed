----------------------------- MODULE MergesProps -----------------------------
(* What "every merge is reversible" promises. *)
EXTENDS Merges

EndsOf == (Nodes \X Nodes) \cup {NoEnds}
Recorded == [tie : Ties, ends : Nodes \X Nodes, out : BOOLEAN]
Read == [tie : Ties, ends : Nodes \X Nodes]

GraphTypes ==
    /\ into \in [Nodes -> Nodes \cup {Nobody}] /\ retired \subseteq Nodes
    /\ tie \in [Ties -> {"absent", "live", "out"}]
    /\ ends \in [Ties -> EndsOf] /\ \A e \in Ties : tie[e] # "absent" => ends[e] # NoEnds
LedgerTypes ==
    /\ status \in [Merges -> {"none", "open", "live", "reversed"}]
    /\ from \in [Merges -> Nodes \cup {Nobody}] /\ to \in [Merges -> Nodes \cup {Nobody}]
    /\ at \in [Merges -> 0..MaxTime] /\ now \in 0..MaxTime
    /\ record \in [Merges -> SUBSET Recorded]
CallTypes ==
    /\ pc \in [Calls -> {"idle", "open", "apply", "restore", "tie", "retire"}]
    /\ job \in [Calls -> Merges \cup {NoMerge}] /\ pair \in [Calls -> EndsOf]
    /\ time \in [Calls -> 0..MaxTime] /\ seen \in [Calls -> SUBSET Read]
GhostTypes == origin \in [Ties -> EndsOf] /\ unwanted \subseteq Ties
TypeOK == GraphTypes /\ LedgerTypes /\ CallTypes /\ GhostTypes

\* "Undo a merge exactly": whatever was merged, retired and reversed in
\* between, a tie that no live merge holds is where it was recorded, and is
\* in the graph unless an analyst retired it.
Restored == \A e \in Ties :
    tie[e] # "absent" /\ (\A m \in Merges : Live(m) => e \notin RecordedBy(m))
        => /\ ends[e] = origin[e]
           /\ tie[e] = "live" <=> e \notin unwanted

\* What an analyst retired stays retired: no merge moves it back into the
\* graph and no reversal does.
RetiredStaysOut == \A e \in unwanted : tie[e] = "out"

\* An entity redirects exactly where its one live merge says.
LiveMergesOf(n) == {m \in Merges : Live(m) /\ from[m] = n}
RedirectIsLedger == \A n \in Nodes :
    IF LiveMergesOf(n) = {} THEN into[n] = Nobody
    ELSE \E m \in LiveMergesOf(n) : LiveMergesOf(n) = {m} /\ into[n] = to[m]

\* Following the redirects from any entity ends at one that stands: no
\* entities redirect among themselves only, and no merge makes an actor vanish.
NobodyVanishes == \A S \in SUBSET Nodes : S # {} => \E n \in S : into[n] \notin S

\* A live tie has two ends that are drawn: neither is merged away or retired.
\* A reversal breaks this without a race; no run checks it.
LiveTiesAreDrawn == \A e \in LiveTies : Standing(ends[e][1]) /\ Standing(ends[e][2])

\* The same, of the entities' retirement only: a duplicate that a merge set
\* aside and its reversal revives breaks it; no run checks it.
NoTieToTheRetired == \A e \in LiveTies : {ends[e][1], ends[e][2]} \cap retired = {}

-----------------------------------------------------------------------------
(* Why TypeOK holds, for any calls at once                                 *)

\* What a call has in hand where it is: a merge that is open is one call's.
AtDesk(c) ==
    /\ pc[c] \in {"open", "tie", "retire"} => pair[c] \in Nodes \X Nodes
    /\ pc[c] = "apply" => /\ job[c] \in Merges /\ status[job[c]] = "open"
                          /\ from[job[c]] \in Nodes /\ to[job[c]] \in Nodes
                          /\ \A t \in seen[c] : tie[t.tie] # "absent"
                          /\ \A d \in Calls : pc[d] = "apply" /\ job[d] = job[c] => c = d
    /\ pc[c] = "restore" => job[c] \in Merges /\ status[job[c]] \in {"live", "reversed"}
Desk == \A c \in Calls : AtDesk(c)
DeskInv == TypeOK /\ Desk

-----------------------------------------------------------------------------
(* Why the rest holds while calls come one at a time: SerialInv            *)

\* A call's reads are still so when it writes, and its merge is the last.
StillSo(c) ==
    /\ pc[c] = "open" => /\ pair[c][1] # pair[c][2] /\ Standing(pair[c][1]) /\ Standing(pair[c][2])
                         /\ \A m \in Merges : status[m] # "none" => at[m] < time[c]
                         /\ time[c] <= now
    /\ pc[c] = "apply" => LET a == from[job[c]] IN
         /\ a # to[job[c]] /\ Standing(a) /\ Standing(to[job[c]])
         /\ seen[c] = {[tie |-> e, ends |-> ends[e]] : e \in Touching(a)}
         /\ \A m \in Merges \ {job[c]} : status[m] # "none" => at[m] < at[job[c]]
    /\ pc[c] = "restore" => Live(job[c]) /\ ~Blocked(job[c])
AsRead == \A c \in Calls : StillSo(c)

\* Merges are numbered in the order they began.
Times ==
    /\ \A m \in Merges : status[m] # "none" => at[m] <= now
    /\ \A m, n \in Merges : status[m] # "none" /\ status[n] # "none" /\ at[m] = at[n] => m = n

\* Each is of two entities, with one record of a tie; who was merged into one
\* that was merged on was merged first.
Ledgered ==
    /\ \A m \in Merges : Live(m) => from[m] \in Nodes /\ to[m] \in Nodes
    /\ \A m \in Merges : Live(m) => \A t, u \in record[m] : t.tie = u.tie => t = u
    /\ \A m, n \in Merges : Live(m) /\ Live(n) /\ to[m] = from[n] => at[m] < at[n]

\* The live merges that hold a tie are a chain from where it was recorded to
\* where it is, each link starting where the one before left the tie, and only
\* the last may have taken it out.
Holding(e) == {m \in Merges : Live(m) /\ e \in RecordedBy(m)}
Before(m, e) == {n \in Holding(e) : at[n] < at[m]}
RowOf(m, e) == CHOOSE t \in record[m] : t.tie = e
LeftAt(m, e) == IF RowOf(m, e).out THEN RowOf(m, e).ends ELSE Moved(RowOf(m, e).ends, from[m], to[m])
Last(m, S) == m \in S /\ \A n \in S : at[n] <= at[m]
Handed(S, e, es) == IF S = {} THEN es = origin[e] ELSE \A m \in S : Last(m, S) => es = LeftAt(m, e)
Chain(e) ==
    /\ Handed(Holding(e), e, ends[e])
    /\ \A m \in Holding(e) : /\ Handed(Before(m, e), e, RowOf(m, e).ends)
                             /\ RowOf(m, e).out => Last(m, Holding(e)) /\ e \notin unwanted
Chained == \A e \in Ties : Chain(e)

\* A tie is out because an analyst retired it or a live merge took it out.
Account(e) ==
    /\ tie[e] = "absent" => Holding(e) = {} /\ e \notin unwanted
    /\ tie[e] # "absent" => (tie[e] = "live" <=> /\ e \notin unwanted
                                                 /\ \A m \in Holding(e) : ~RowOf(m, e).out)
Accounted == \A e \in Ties : Account(e)

SerialInv == DeskInv /\ AsRead /\ Times /\ Ledgered /\ RedirectIsLedger /\ Chained /\ Accounted
=============================================================================
