----------------------------- MODULE LedgerProps -----------------------------
(* What the two chains promise whoever verifies them. *)
EXTENDS Ledger

Kept(w) == rows \cup pending[w]

\* The sequence, the boundary and the sessions are what the schema types them;
\* a row keeps its four columns whatever its owner does to it.
TypeOK ==
    /\ last \in Nat /\ boundary \in Nat /\ migrated \in BOOLEAN /\ tampered \in Nat
    /\ lock \in Writers \cup {Nobody}
    /\ pc \in [Writers -> {"idle", "open", "drawn", "locked"}]
    /\ isolation \in [Writers -> Levels] /\ number \in [Writers -> Nat]
    /\ pending = [w \in Writers |-> pending[w]]
    /\ \A w \in Writers : \A r \in Kept(w) :
          /\ r = [seq |-> r.seq, prev |-> r.prev, body |-> r.body, hash |-> r.hash]
          /\ r.seq \in Nat /\ r.body \in Nat

\* Honest history verifies, whatever part of it is reported and whatever
\* raced, rolled back or ran before 0149: no false accusation.
NoFalseAlarm == tampered = 0 => \A S \in SUBSET rows : Intact(S)

\* A row above the boundary names the row with the highest number below its
\* own: number order is chain order.
Below(r) == {q \in rows : q.seq < r.seq}
NumberOrderIsChainOrder == tampered = 0 /\ migrated =>
    \A r \in rows : r.seq > boundary => r.prev = TailHash(Below(r))

\* After the boundary no row is a dead end: of a ledger nobody has touched, a
\* row above it that is not the newest cannot be removed unseen.
RemovalShows == [][
    \A v \in rows \ rows' : tampered = 0 /\ migrated /\ v.seq > boundary /\ rows' \subseteq rows
        => v = Highest(rows) \/ ~Intact(rows)']_vars

\* A full run that is intact and holds an anchor vouches for every row above
\* the boundary when the anchor was recorded, whatever was done to the table
\* since: it is there, unedited and in its place in the chain.
AnchorVouches == Intact(rows) /\ anchor # {} =>
    \A v \in vouched : \E r \in rows : [r EXCEPT !.seq = v.seq] = v

-----------------------------------------------------------------------------
(* Why: what a set of rows keeps as rows are appended to it under the lock *)

\* Rows as the trigger makes them, one to a number; a chain with one start, in
\* which every link leads to a row; above the floor, in the order of numbers.
Sound(V, top, ordered, floor) ==
    /\ \A r \in V : r = Row(r.seq, r.prev) /\ r.seq \in 1..top
    /\ \A r, q \in V : r.seq = q.seq => r = q
    /\ \A r \in V : r.prev = Genesis \/ \E q \in V : q.hash = r.prev
    /\ V # {} => \E r \in V : r.prev = Genesis
    /\ \A r, q \in V : r.prev = Genesis /\ q.prev = Genesis => r = q
    /\ ordered => \A r \in V : r.seq > floor => r.prev = TailHash({q \in V : q.seq < r.seq})

\* Only the holder of the lock has rows to commit, and it sees every row.
LockInv == \A w \in Writers :
    /\ pending[w] # {} => lock = w
    /\ pc[w] = "idle" => pending[w] = {} /\ isolation[w] = "read committed"
    /\ pc[w] = "locked" => lock = w /\ isolation[w] = "read committed"
    /\ ~migrated => isolation[w] = "read committed"

\* Before 0149 the number drawn is the row's: no row and no one else has it.
Holding(w) == pc[w] \in {"drawn", "locked"}
NumberInv == ~migrated => \A w \in Writers : Holding(w) =>
    /\ number[w] \in 1..last
    /\ \A x \in Writers : \A r \in Kept(x) : r.seq # number[w]
    /\ \A x \in Writers \ {w} : Holding(x) => number[x] # number[w]

ChainInv == /\ Sound(rows, last, migrated, boundary)
            /\ \A w \in Writers : Sound(Kept(w), last, migrated, boundary)
AnchorInv == \A a \in anchor : \E r \in rows : r.seq = a.seq /\ r.hash = a.hash

\* The induction behind the two chains: it holds of a table nobody has touched.
IInv == TypeOK /\ LockInv /\ (tampered = 0 => NumberInv /\ ChainInv /\ AnchorInv)
=============================================================================
