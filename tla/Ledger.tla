------------------------------- MODULE Ledger -------------------------------
(***************************************************************************)
(* An append-only ledger chained by hashes, as audit.event and             *)
(* core.evidence_custody are: the trigger that chains an insert (0013,     *)
(* 0024, 0149), the transactions that race for its lock, the migration     *)
(* that moved the number inside it, and the verifier (audit_verify.py,     *)
(* custody_verify.py) over whatever the table's owner has left of it.      *)
(*                                                                         *)
(* The payload of a row is one value, its time to the microsecond with it: *)
(* no two appends share one.  A digest is injective.  A verification reads *)
(* one state, and reports any part of the rows: a window, an exhibit's.    *)
(***************************************************************************)
EXTENDS Naturals, FiniteSets

CONSTANTS
    Writers,        \* sessions that append
    MaxNumber,      \* bound on the numbers drawn
    MaxTampering    \* bound on the owner's statements against the table

Nobody == "nobody"
Genesis == << >>         \* prev_hash NULL, and what is hashed for it
Digest(prev, body) == <<prev, body>>
NoBoundary == 0

ASSUME BoundAssumption == /\ MaxNumber \in Nat /\ MaxTampering \in Nat
                          /\ Writers # {} /\ Nobody \notin Writers

VARIABLES
    rows,       \* the table: [seq, prev, body, hash]
    pending,    \* each open transaction's rows, not committed
    last,       \* the sequence's last value: never given back
    boundary,   \* chain_ordered_after(); NoBoundary before 0149
    migrated,   \* 0149 has run
    lock,       \* who holds the chain's advisory lock, to the end of its transaction
    pc,
    isolation,  \* of each open transaction
    snapshot,   \* the rows it sees when it keeps one snapshot
    number,     \* the number the column's default drew for the insert in progress
    anchor,     \* the tail an operator recorded elsewhere, {} or one [seq, hash]
    vouched,    \* ghost: the rows above the boundary when it was recorded
    tampered    \* statements run against the table

session == <<pending, lock, pc, isolation, snapshot, number>>
watch   == <<anchor, vouched>>
vars    == <<rows, pending, last, boundary, migrated, lock, pc, isolation, snapshot, number,
             anchor, vouched, tampered>>

Levels == {"read committed", "repeatable read"}
Idle == \A w \in Writers : pc[w] = "idle"
Set(f, w, v) == [f EXCEPT ![w] = v]

Highest(S) == CHOOSE r \in S : \A q \in S : q.seq <= r.seq
TailHash(S) == IF S = {} THEN Genesis ELSE Highest(S).hash

-----------------------------------------------------------------------------
(* The verifier.  Looks up every hash and every claim in the whole table,  *)
(* whatever part S of the rows it reports.                                 *)

InWindow(S, h) == \E q \in S : q.hash = h                                \* a mutant
Known(S, h) == \E q \in rows : q.hash = h

Claimants(h) == {q \in rows : q.prev = h}
LinkBroken(S, r) == r.prev # Genesis /\ ~Known(S, r.prev)
Unchecked(r) == FALSE                                                    \* a mutant
ContentBroken(r) == r.hash # Digest(r.prev, r.body)
Forked(r) == r.prev # Genesis /\ Claimants(r.prev) # {r}
\* Before 0149 honest writers fork: a fork is fresh if every claimant is above.
FreshFork(r) == migrated /\ Forked(r) /\ \A q \in Claimants(r.prev) : q.seq > boundary
Broken(S) == {r \in S : LinkBroken(S, r) \/ ContentBroken(r) \/ FreshFork(r)}

GenesisBroken == rows # {} /\ Cardinality(Claimants(Genesis)) # 1

AnchorStatus(a) ==
    CASE \E r \in rows : r.hash = a.hash /\ r.seq = a.seq -> "HELD"
      [] \E r \in rows : r.hash = a.hash /\ ~\E q \in rows : q.hash = a.hash /\ q.seq = a.seq -> "MOVED"
      [] ~(\E r \in rows : r.hash = a.hash) /\ (\E r \in rows : r.seq = a.seq) -> "REWRITTEN"
      [] OTHER -> "MISSING"

Intact(S) == Broken(S) = {} /\ ~GenesisBroken
                /\ \A a \in anchor : AnchorStatus(a) = "HELD"

-----------------------------------------------------------------------------
Init ==
    /\ rows = {} /\ last = 0 /\ boundary = NoBoundary /\ migrated = FALSE /\ lock = Nobody
    /\ pending = [w \in Writers |-> {}] /\ pc = [w \in Writers |-> "idle"]
    /\ isolation = [w \in Writers |-> "read committed"]
    /\ snapshot = [w \in Writers |-> {}] /\ number = [w \in Writers |-> 0]
    /\ anchor = {} /\ vouched = {} /\ tampered = 0

\* No code of the product sets a level; a session that does is modelled
\* where the trigger answers it.
Begin(w, level) ==
    /\ pc[w] = "idle" /\ (level = "repeatable read" => migrated)
    /\ pc' = Set(pc, w, "open") /\ isolation' = Set(isolation, w, level)
    /\ snapshot' = Set(snapshot, w, IF level = "repeatable read" THEN rows ELSE {})
    /\ UNCHANGED <<rows, pending, last, boundary, migrated, lock, number, watch, tampered>>

\* The column's default is evaluated before the trigger.
Draw(w) ==
    /\ pc[w] = "open" /\ last < MaxNumber
    /\ last' = last + 1 /\ number' = Set(number, w, last + 1)
    /\ pc' = Set(pc, w, "drawn")
    /\ UNCHANGED <<rows, pending, boundary, migrated, lock, isolation, snapshot, watch, tampered>>

\* Since 0149 a transaction that keeps one snapshot is refused, before the lock.
AnyLevel(w) == TRUE                                                      \* a mutant
MayAppend(w) == migrated => isolation[w] = "read committed"

TakeLock(w) ==
    /\ pc[w] = "drawn" /\ MayAppend(w)
    /\ lock \in {Nobody, w}
    /\ lock' = w /\ pc' = Set(pc, w, "locked")
    /\ UNCHANGED <<rows, pending, last, boundary, migrated, isolation, snapshot, number, watch, tampered>>

Visible(w) == pending[w] \cup IF isolation[w] = "repeatable read" THEN snapshot[w] ELSE rows

\* Since 0149 the trigger draws again, under the lock.
ByDefault(w) == number[w]                                                \* a mutant
Numbered(w) == IF migrated THEN last + 1 ELSE number[w]

Row(n, prev) == [seq |-> n, prev |-> prev, body |-> n, hash |-> Digest(prev, n)]

Append(w) ==
    /\ pc[w] = "locked"
    /\ pending' = Set(pending, w, pending[w] \cup {Row(Numbered(w), TailHash(Visible(w)))})
    /\ last' = IF Numbered(w) > last THEN Numbered(w) ELSE last
    /\ pc' = Set(pc, w, "open") /\ number' = Set(number, w, 0)
    /\ UNCHANGED <<rows, boundary, migrated, lock, isolation, snapshot, watch, tampered>>

End(w) == /\ pc' = Set(pc, w, "idle") /\ pending' = Set(pending, w, {})
          /\ lock' = IF lock = w THEN Nobody ELSE lock
          /\ isolation' = Set(isolation, w, "read committed")
          /\ snapshot' = Set(snapshot, w, {}) /\ number' = Set(number, w, 0)
          /\ UNCHANGED <<last, boundary, migrated, watch, tampered>>

Commit(w) == pc[w] = "open" /\ rows' = rows \cup pending[w] /\ End(w)

\* The numbers it drew are not given back.
Abort(w) == pc[w] # "idle" /\ End(w) /\ UNCHANGED rows

-----------------------------------------------------------------------------
(* 0149, run with the API stopped, and its downgrade *)

Upgrade ==
    /\ ~migrated /\ Idle
    /\ migrated' = TRUE /\ boundary' = last
    /\ UNCHANGED <<rows, session, last, watch, tampered>>

Downgrade ==
    /\ migrated /\ Idle
    /\ migrated' = FALSE /\ boundary' = NoBoundary
    /\ UNCHANGED <<rows, session, last, watch, tampered>>

\* The operator records the tail a report gave, where this system cannot write.
Record ==
    /\ rows # {} /\ tampered = 0 /\ migrated /\ Idle
    /\ anchor' = {[seq |-> Highest(rows).seq, hash |-> Highest(rows).hash]}
    /\ vouched' = {r \in rows : r.seq > boundary}
    /\ UNCHANGED <<rows, session, last, boundary, migrated, tampered>>

-----------------------------------------------------------------------------
(* What the table's owner can do to a committed row with the trigger       *)
(* aside, while nobody appends                                             *)

Change(r, q) == rows' = (rows \ {r}) \cup {q}

Remove(r)     == rows' = rows \ {r}
Edit(r)       == Change(r, [r EXCEPT !.body = 0])
Relink(r, p)  == Change(r, [r EXCEPT !.prev = p])
Rehash(r)     == Change(r, [r EXCEPT !.hash = Digest(r.prev, r.body)])

Tamper(r) ==
    /\ Idle /\ tampered < MaxTampering /\ tampered' = tampered + 1
    /\ \/ Remove(r) \/ Edit(r) \/ Rehash(r)
       \/ \E q \in rows : Relink(r, q.hash)
       \/ Relink(r, Genesis)
    /\ UNCHANGED <<session, last, boundary, migrated, watch>>

-----------------------------------------------------------------------------
Next ==
    \/ \E w \in Writers : \/ \E level \in Levels : Begin(w, level)
                          \/ Draw(w) \/ TakeLock(w) \/ Append(w) \/ Commit(w) \/ Abort(w)
    \/ Upgrade \/ Downgrade \/ Record
    \/ \E r \in rows : Tamper(r)

Spec == Init /\ [][Next]_vars
=============================================================================
