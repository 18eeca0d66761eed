---------------------------- MODULE ExhibitsProps ----------------------------
(* What retention promises about every exhibit of a case. *)
EXTENDS Exhibits

RowTypes ==
    /\ row \in [Exhibits -> {"absent", "open", "live", "purged", "void"}]
    /\ bytes \in [Exhibits -> {"none", "stored", "gone"}]
    /\ hold \subseteq Exhibits /\ caseHold \subseteq Cases
    /\ approval \in [Requests -> {"APPROVED", "CONSUMED"}]
    /\ emptied \in [Cases -> Nat] /\ stones \in [Exhibits -> Nat]
    /\ orphans \subseteq Exhibits /\ alarms \subseteq Exhibits
LockTypes == locks \subseteq [proc : Calls, row : Rows, mode : {"share", "update"}]
CallTypes ==
    /\ pc \in [Calls -> {"idle", "next", "claim", "delete", "mark", "records", "approval", "case",
                         "rows", "fetch", "ask", "insert", "look", "put", "lodge", "reacquire"}]
    /\ task \in [Calls -> Cases \cup Requests \cup {Nobody}]
    /\ item \in [Calls -> Exhibits \cup {Nothing}]
    /\ records \in [Calls -> BOOLEAN]
ListTypes ==
    /\ todo \in [Calls -> SUBSET Exhibits] /\ doomed \in [Calls -> SUBSET Exhibits]
    /\ destroyed \in [Calls -> SUBSET Exhibits] /\ marked \in [Calls -> SUBSET Exhibits]
GhostTypes ==
    /\ faults \in 0..MaxFaults /\ by \in [Exhibits -> Cases \cup Requests \cup {Nobody}]
    /\ spoilt \subseteq Exhibits /\ misled \subseteq Exhibits

TypeOK == RowTypes /\ LockTypes /\ CallTypes /\ ListTypes /\ GhostTypes

\* A hold overrides all deletion: no step destroys the bytes of an exhibit
\* that is held, itself or with its case, nor empties a held case's records,
\* however the holds move while a purge runs.
HoldBeatsPurge == [][
    /\ \A x \in Exhibits : bytes[x] = "stored" /\ bytes'[x] = "gone" => ~Held(x)
    /\ \A k \in Cases : emptied[k] = 0 /\ emptied'[k] # 0 => k \notin caseHold]_vars

\* A hold is never acknowledged on an exhibit that is destroyed, unless a
\* fault caught its purge between the store's delete and the commit.
HeldIsThere == \A x \in hold : row[x] = "live" /\ (bytes[x] = "stored" \/ x \in spoilt)

\* A row says what the store has: a purged exhibit's bytes are gone, a live
\* one's are there but for the one that is being destroyed under a lock, and
\* what no row names is in the audit log, unless the process that would have
\* written it died.
RowIsTrue == \A x \in Exhibits :
    /\ row[x] = "purged" => bytes[x] = "gone"
    /\ row[x] = "live" /\ bytes[x] # "stored" =>
         x \in spoilt \/ \E l \in locks : l.row = ExhibitRow(x)
    /\ row[x] = "void" /\ bytes[x] = "stored" => x \in orphans \cup spoilt

\* Reading raises an alarm only for an exhibit that a fault has spoilt: a
\* purge that is destroying it or has destroyed it is not a tamper alarm.
AlarmIsTrue == alarms \subseteq spoilt

\* Whatever goes wrong in a sweep, it loses the mark of no exhibit but the
\* one in flight: so many faults, so many exhibits destroyed and not marked.
OneInFlight ==
    Cardinality({x \in Exhibits : by[x] \in Cases /\ row[x] = "live"})
        <= faults + Cardinality({p \in Calls : pc[p] \in {"delete", "mark"} /\ Sweeping(p)})

\* Each destroyed exhibit is counted by one DELETED tombstone once its purge
\* has ended, and by none unless it is destroyed.
CountedOnce == \A x \in Exhibits :
    /\ stones[x] <= 1 /\ (stones[x] = 1 => row[x] = "purged")
    /\ row[x] = "purged" /\ stones[x] = 0 => x \in spoilt \/ \E p \in Calls : x \in marked[p]

\* A purge out of schedule and its approval are one transaction: what one
\* destroyed and marked was named by an approval that is spent, and while it
\* destroys the approval is unspent and no other purge's.
SpentTogether ==
    /\ \A x \in Exhibits : row[x] = "purged" /\ by[x] \in Requests =>
          x \in Batch[by[x]] /\ approval[by[x]] = "CONSUMED"
    /\ \A p, q \in Calls : \A r \in Requests :
          pc[p] \in {"delete", "mark"} /\ task[p] = r =>
            /\ approval[r] = "APPROVED"
            /\ pc[q] \in {"delete", "mark"} /\ task[q] = r => p = q

\* A purged exhibit is never the answer to a lodging.
ReusedIsLive == misled = {}

\* The row a call's next step locks, if it locks one.
Wanted(p) ==
    CASE pc[p] = "approval"               -> {ApprovalRow(task[p])}
      [] pc[p] = "next" /\ todo[p] # {}   -> {CaseRow(task[p])}
      [] pc[p] = "records"                -> {CaseRow(task[p])}
      [] pc[p] = "case"                   -> {CaseRow(CaseOf[x]) : x \in Batch[task[p]]}
      [] pc[p] \in {"claim", "rows"} /\ todo[p] # {} -> {ExhibitRow(InOrder(p, todo[p]))}
      [] pc[p] = "reacquire"              -> {ExhibitRow(item[p])}
      [] OTHER                            -> {}

\* Approvals before cases before exhibits, and exhibits by their ids.
Before(r, s) ==
    \/ r[1] = "approval" /\ s[1] # "approval"
    \/ r[1] = "case" /\ s[1] = "exhibit"
    \/ r[1] = "exhibit" /\ s[1] = "exhibit" /\ r[2] < s[2]

\* Purges of either kind and lodgings lock approvals, cases and exhibits in
\* one order: whoever waits for a row holds only rows before it, so no two
\* of them wait on each other for ever, nor a hold behind them.
InLockOrder == \A p \in Calls : \A r \in Wanted(p) : \A l \in LocksOf(p) :
    l.row # r => Before(l.row, r)

-----------------------------------------------------------------------------
(* The inductive invariant: what each call is about, what it has locked,   *)
(* and what the exhibits it is destroying look like meanwhile.             *)

Holds(p, r, mode) == Lock(p, r, mode) \in locks
Dying(p) == doomed[p] \cup destroyed[p]
AtDesk == {"idle", "fetch", "ask", "insert", "look", "put", "lodge", "reacquire"}
InStore == {"delete", "mark"}

\* A sweep works for a case, a purge for an approval, and nobody keeps a
\* list past the step that ends its use.
Duty == \A p \in Calls :
    /\ task[p] = Nobody <=> pc[p] \in AtDesk
    /\ task[p] \in Cases => pc[p] \in {"next", "claim", "records"} \cup InStore
    /\ task[p] \in Requests => pc[p] \in {"approval", "case", "rows"} \cup InStore
    /\ pc[p] \in AtDesk \ {"idle"} => item[p] \in Exhibits
    /\ doomed[p] # {} <=> pc[p] = "delete"
    /\ destroyed[p] # {} => pc[p] \in InStore
    /\ marked[p] # {} => task[p] \in Cases /\ pc[p] # "records"
    /\ todo[p] # {} => pc[p] = "rows" \/ (task[p] \in Cases /\ pc[p] # "records")
    /\ pc[p] = "claim" => todo[p] # {}

\* What a call has in hand: of its case or its approval, one at a time in a
\* sweep, and lodged since before the call.
Aim == \A p \in Calls :
    /\ task[p] \in Cases =>
         /\ \A x \in todo[p] \cup Dying(p) : CaseOf[x] = task[p]
         /\ \A x, y \in Dying(p) : x = y
    /\ task[p] \in Requests =>
         /\ todo[p] \cup Dying(p) \subseteq Batch[task[p]]
         /\ \A x \in Batch[task[p]] : row[x] \in {"live", "purged"}
    /\ \A x \in todo[p] : row[x] \in {"live", "purged"}
    /\ pc[p] \in {"fetch", "ask", "reacquire"} => row[item[p]] \in {"live", "purged"}
    /\ pc[p] = "ask" => bytes[item[p]] # "stored"
    /\ pc[p] = "put" => row[item[p]] = "open" /\ bytes[item[p]] = "none"
    /\ pc[p] = "lodge" => row[item[p]] = "open" /\ bytes[item[p]] = "stored"

\* An update lock is its holder's alone.
Exclusive == \A p, q \in Calls : \A r \in Rows : \A mode \in {"share", "update"} :
    Holds(p, r, "update") /\ Holds(q, r, mode) => p = q

\* Where a lock is held ...
LocksAt == \A p \in Calls : \A mode \in {"share", "update"} :
    /\ \A r \in Requests : Holds(p, ApprovalRow(r), mode) => pc[p] \in {"case", "rows"} \cup InStore
    /\ \A k \in Cases : Holds(p, CaseRow(k), mode) => pc[p] \in {"claim", "rows"} \cup InStore
    /\ \A x \in Exhibits : Holds(p, ExhibitRow(x), mode) =>
         /\ pc[p] \in {"rows", "put", "lodge"} \cup InStore /\ mode = "update"
         /\ row[x] # "absent"
         /\ pc[p] = "rows" => \A y \in todo[p] : x < y

\* ... and where one is needed.
LocksFor == \A p \in Calls :
    /\ pc[p] = "claim" \/ (task[p] \in Cases /\ pc[p] \in InStore) => Holds(p, CaseRow(task[p]), "share")
    /\ task[p] \in Requests /\ pc[p] \in {"rows"} \cup InStore =>
         \A x \in Batch[task[p]] : Holds(p, CaseRow(CaseOf[x]), "share")
    /\ task[p] \in Requests /\ pc[p] \in {"case", "rows"} \cup InStore =>
         Holds(p, ApprovalRow(task[p]), "update") /\ approval[task[p]] = "APPROVED"
    /\ \A x \in Dying(p) : Holds(p, ExhibitRow(x), "update")
    /\ pc[p] = "rows" => \A x \in Batch[task[p]] \ todo[p] : Holds(p, ExhibitRow(x), "update")
    /\ pc[p] \in {"put", "lodge"} => Holds(p, ExhibitRow(item[p]), "update")

\* What is being destroyed is live and not held until its transaction ends.
Fated == \A p \in Calls :
    /\ \A x \in Dying(p) : row[x] = "live" /\ ~Held(x)
    /\ \A x \in destroyed[p] : bytes[x] = "gone" /\ by[x] = task[p]

\* Bytes are missing under a live row only where a call is between the store
\* and its mark, or was cut off there.
Missing == \A x \in Exhibits :
    /\ row[x] = "absent" => bytes[x] = "none"
    /\ row[x] = "purged" => bytes[x] = "gone"
    /\ row[x] = "void" /\ bytes[x] = "stored" => x \in orphans \cup spoilt
    /\ row[x] = "live" /\ bytes[x] # "stored" => x \in spoilt \/ \E p \in Calls : x \in destroyed[p]
    /\ by[x] # Nobody => bytes[x] = "gone" /\ row[x] \in {"live", "purged"}

\* A marked exhibit waits for one tombstone, of the sweep that marked it.
Tally ==
    /\ \A x \in Exhibits : stones[x] <= 1 /\ (stones[x] = 1 => row[x] = "purged")
    /\ \A p \in Calls : \A x \in marked[p] : row[x] = "purged" /\ stones[x] = 0
    /\ \A p, q \in Calls : p # q => marked[p] \cap marked[q] = {}
    /\ \A x \in Exhibits : row[x] = "purged" /\ stones[x] = 0 =>
         x \in spoilt \/ \E p \in Calls : x \in marked[p]

\* The exhibits a sweep destroyed and lost: no sweep is about to mark them.
Lost == {x \in Exhibits : /\ by[x] \in Cases /\ row[x] = "live"
                          /\ \A p \in Calls : x \notin destroyed[p]}

\* What an approval destroyed it named, and it is spent.
Spent == \A x \in Exhibits : row[x] = "purged" /\ by[x] \in Requests =>
    x \in Batch[by[x]] /\ approval[by[x]] = "CONSUMED"

IInv == /\ TypeOK /\ Duty /\ Aim /\ Exclusive /\ LocksAt /\ LocksFor /\ Fated
        /\ Missing /\ Tally /\ Spent
        /\ HeldIsThere /\ AlarmIsTrue /\ Cardinality(Lost) <= faults
=============================================================================
