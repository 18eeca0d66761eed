---------------------------- MODULE LedgerProofs ----------------------------
(***************************************************************************)
(* What the ledger keeps for any number of writers, rows and statements    *)
(* of the table's owner: IInv is inductive, an untouched ledger verifies   *)
(* whatever part of it is reported, above the boundary number order is     *)
(* chain order, and no row there but the newest is removed unseen.         *)
(***************************************************************************)
EXTENDS LedgerProps, TLAPS, FiniteSetTheorems

USE BoundAssumption

-----------------------------------------------------------------------------
(* Sets of numbers have a least and, under a bound, a greatest member      *)

\* A set of naturals that has a member has a least one: the initial segments
\* below a member are finite, and strict inclusion of them is well founded.
LEMMA Least == ASSUME NEW X, X \subseteq Nat, X # {}
               PROVE \E n \in X : \A m \in X : n <= m
<1>1. PICK x \in X : x \in Nat
  OBVIOUS
<1> DEFINE T == {0..k : k \in {k \in X : k <= x}}
<1>2. IsFiniteSet(0..x)
  BY <1>1, FS_Interval
<1>3. IsWellFoundedOn(StrictSubsetOrdering(0..x), FiniteSubsetsOf(0..x))
  BY <1>2, FS_StrictSubsetOrderingWellFounded
<1>4. T \subseteq FiniteSubsetsOf(0..x) /\ T # {}
  <2>1. \A k \in Nat : IsFiniteSet(0..k)
    BY FS_Interval
  <2>2. QED
    BY <1>1, <2>1 DEF FiniteSubsetsOf
<1>5. PICK t \in T : \A u \in T : <<u, t>> \notin StrictSubsetOrdering(0..x)
  BY <1>3, <1>4, WFMin, Zenon
<1>6. PICK n \in X : n <= x /\ t = 0..n
  OBVIOUS
<1>7. SUFFICES ASSUME NEW m \in X, m < n PROVE FALSE
  BY <1>6
<1>8. 0..m \in T /\ 0..m \subseteq t /\ 0..m # t
  BY <1>1, <1>6, <1>7
<1>9. 0..m \in SUBSET (0..x) /\ t \in SUBSET (0..x)
  BY <1>1, <1>6, <1>7
<1>10. \A A, B \in SUBSET (0..x) : A \subseteq B /\ A # B
            => <<A, B>> \in StrictSubsetOrdering(0..x)
  BY Zenon DEF StrictSubsetOrdering
<1>11. <<0..m, t>> \in StrictSubsetOrdering(0..x)
  BY <1>8, <1>9, <1>10, Zenon
<1>12. QED
  BY <1>5, <1>8, <1>11, Zenon

\* The tail the trigger and the verifier read is a row, and none is above it.
LEMMA HighestIs == ASSUME NEW S, NEW top \in Nat, S # {}, \A r \in S : r.seq \in 0..top
                   PROVE Highest(S) \in S /\ \A q \in S : q.seq <= Highest(S).seq
<1> DEFINE X == {top - r.seq : r \in S}
<1>1. X \subseteq Nat /\ X # {}
  OBVIOUS
<1>2. PICK n \in X : \A m \in X : n <= m
  BY <1>1, Least
<1>3. PICK r \in S : n = top - r.seq
  OBVIOUS
<1>4. \A q \in S : q.seq <= r.seq
  <2> TAKE q \in S
  <2>1. top - r.seq <= top - q.seq
    BY <1>2, <1>3
  <2>2. r.seq \in Nat /\ q.seq \in Nat
    OBVIOUS
  <2>3. QED
    BY <2>1, <2>2
<1>5. QED
  BY <1>3, <1>4 DEF Highest

-----------------------------------------------------------------------------
(* What an append, a commit and a migration leave of a sound set of rows   *)

\* The first row of a chain is told from every other: a digest is never NULL.
LEMMA NeverGenesis == \A p, b : Digest(p, b) # Genesis
  BY DEF Digest, Genesis

\* Two rows of a sound set with one hash are one row: the digest takes in the
\* payload, and no two rows share a number.
LEMMA OneRowPerHash == ASSUME NEW V, NEW top, NEW m, NEW b, Sound(V, top, m, b),
                              NEW r \in V, NEW q \in V, r.hash = q.hash
                       PROVE r = q
<1>1. r.hash = <<r.prev, r.seq>> /\ q.hash = <<q.prev, q.seq>>
  BY DEF Sound, Row, Digest
<1>2. \A w, x, y, z : <<w, x>> = <<y, z>> => x = z
  OBVIOUS
<1>3. r.seq = q.seq
  BY <1>1, <1>2, Zenon
<1>4. QED
  BY <1>3 DEF Sound

\* Soundness is kept when the sequence moves on.
LEMMA SoundUp == ASSUME NEW V, NEW top \in Nat, NEW up \in Nat, top <= up, NEW m, NEW b,
                        Sound(V, top, m, b)
                 PROVE Sound(V, up, m, b)
  BY DEF Sound

\* 0149 sets its floor at the top: nothing is above it yet.
LEMMA SoundMigrate == ASSUME NEW V, NEW top \in Nat, NEW m, NEW b, Sound(V, top, m, b)
                      PROVE Sound(V, top, TRUE, top)
  BY DEF Sound

\* The downgrade promises less.
LEMMA SoundRevert == ASSUME NEW V, NEW top, NEW m, NEW b, NEW c, Sound(V, top, m, b)
                     PROVE Sound(V, top, FALSE, c)
  BY DEF Sound

\* The trigger's row: linked to the highest row seen, under a number no row has
\* and, once numbers are drawn under the lock, above every one.
LEMMA SoundAppend ==
    ASSUME NEW V, NEW top \in Nat, NEW up \in Nat, top <= up, NEW n \in 1..up,
           NEW m, NEW b, Sound(V, top, m, b),
           \A r \in V : r.seq # n, m => n > top
    PROVE  Sound(V \cup {Row(n, TailHash(V))}, up, m, b)
<1> DEFINE new == Row(n, TailHash(V))
<1> DEFINE W == V \cup {new}
<1>1. /\ new.seq = n /\ new.prev = TailHash(V)
      /\ new = Row(new.seq, new.prev)
  BY DEF Row
<1>2. \A r \in V : r = Row(r.seq, r.prev) /\ r.seq \in 1..top
  BY DEF Sound
<1>3. V # {} => Highest(V) \in V /\ \A q \in V : q.seq <= Highest(V).seq
  BY <1>2, HighestIs
<1>4. \A r \in V : r.hash # Genesis
  BY <1>2, NeverGenesis DEF Row
<1>5. V # {} => new.prev = Highest(V).hash /\ new.prev # Genesis
  BY <1>1, <1>3, <1>4 DEF TailHash
<1>6. V = {} => new.prev = Genesis
  BY <1>1 DEF TailHash
<1> HIDE DEF new
<1>7. \A r \in W : r = Row(r.seq, r.prev) /\ r.seq \in 1..up
  BY <1>1, <1>2
<1>8. \A r, q \in W : r.seq = q.seq => r = q
  BY <1>1 DEF Sound
<1>9. \A r \in W : r.prev = Genesis \/ \E q \in W : q.hash = r.prev
  <2>1. \A r \in V : r.prev = Genesis \/ \E q \in V : q.hash = r.prev
    BY DEF Sound
  <2>2. QED
    BY <2>1, <1>3, <1>5, <1>6
<1>10. \E r \in W : r.prev = Genesis
  <2>1. V # {} => \E r \in V : r.prev = Genesis
    BY DEF Sound
  <2>2. QED
    BY <2>1, <1>6
<1>11. \A r, q \in W : r.prev = Genesis /\ q.prev = Genesis => r = q
  <2>1. \A r, q \in V : r.prev = Genesis /\ q.prev = Genesis => r = q
    BY DEF Sound
  <2>2. QED
    BY <2>1, <1>5
<1>12. m => \A r \in W : r.seq > b => r.prev = TailHash({q \in W : q.seq < r.seq})
  <2> SUFFICES ASSUME m, NEW r \in W, r.seq > b
               PROVE r.prev = TailHash({q \in W : q.seq < r.seq})
    OBVIOUS
  <2>1. CASE r = new
    <3>1. {q \in W : q.seq < r.seq} = V
      BY <2>1, <1>1, <1>2
    <3>2. QED
      BY <3>1, <2>1, <1>1
  <2>2. CASE r \in V
    <3>1. {q \in W : q.seq < r.seq} = {q \in V : q.seq < r.seq}
      BY <2>2, <1>1, <1>2
    <3>2. r.prev = TailHash({q \in V : q.seq < r.seq})
      BY <2>2 DEF Sound
    <3>3. QED
      BY <3>1, <3>2
  <2>3. QED
    BY <2>1, <2>2
<1>13. Sound(W, up, m, b)
  BY <1>7, <1>8, <1>9, <1>10, <1>11, <1>12 DEF Sound
<1>14. QED
  BY <1>13 DEF new

-----------------------------------------------------------------------------
(* The induction, action by action                                         *)

\* No row, no session, nothing recorded: 0013 and 0024 start so.
LEMMA InitInv == Init => IInv
<1> SUFFICES ASSUME Init PROVE IInv
  OBVIOUS
<1>1. TypeOK
  BY DEF Init, TypeOK, Levels, NoBoundary, Kept
<1>2. LockInv
  BY DEF Init, LockInv
<1>3. NumberInv /\ AnchorInv
  BY DEF Init, NumberInv, AnchorInv, Holding
<1>4. ChainInv
  BY DEF Init, ChainInv, Sound, Kept
<1>5. QED
  BY <1>1, <1>2, <1>3, <1>4 DEF IInv

\* What a step leaves alone keeps its invariant.
LEMMA SameChain == ASSUME ChainInv, UNCHANGED <<rows, pending, migrated, boundary>>,
                          last \in Nat, last' \in Nat, last <= last'
                   PROVE ChainInv'
<1>1. \A w \in Writers : Kept(w)' = Kept(w)
  BY DEF Kept
<1>2. Sound(rows, last', migrated, boundary)
  BY SoundUp DEF ChainInv
<1>3. \A w \in Writers : Sound(Kept(w), last', migrated, boundary)
  BY SoundUp DEF ChainInv
<1>4. Sound(rows, last, migrated, boundary)'
  BY <1>2
<1>5. ASSUME NEW w \in Writers PROVE Sound(Kept(w), last, migrated, boundary)'
  <2>1. Sound(Kept(w), last', migrated, boundary)
    BY <1>3
  <2>2. QED
    BY <2>1, <1>1
<1>6. QED
  BY <1>4, <1>5 DEF ChainInv

LEMMA SameLedger == ASSUME ChainInv, UNCHANGED <<rows, pending, migrated, boundary, last>>
                    PROVE ChainInv'
  BY DEF ChainInv, Kept

LEMMA BeginInv == ASSUME IInv, NEW w \in Writers, NEW level \in Levels, Begin(w, level)
                  PROVE IInv'
<1> USE DEF Begin, Set
<1>1. TypeOK'
  BY DEF IInv, TypeOK, Kept
<1>2. LockInv'
  BY DEF IInv, TypeOK, LockInv, Levels
<1>3. tampered = 0 => NumberInv'
  BY DEF IInv, TypeOK, NumberInv, Holding, Kept
<1>4. tampered = 0 => ChainInv'
  BY SameLedger DEF IInv
<1>5. tampered = 0 => AnchorInv'
  BY DEF IInv, AnchorInv, watch
<1>6. QED
  BY <1>1, <1>2, <1>3, <1>4, <1>5 DEF IInv

LEMMA DrawInv == ASSUME IInv, NEW w \in Writers, Draw(w) PROVE IInv'
<1> USE DEF Draw, Set
<1>1. TypeOK'
  BY DEF IInv, TypeOK, Kept
<1>2. LockInv'
  BY DEF IInv, TypeOK, LockInv
<1>3. ASSUME tampered = 0 PROVE NumberInv'
  <2> SUFFICES ASSUME ~migrated, NEW v \in Writers, Holding(v)'
               PROVE /\ number'[v] \in 1..last'
                     /\ \A x \in Writers : \A r \in Kept(x) : r.seq # number'[v]
                     /\ \A x \in Writers \ {v} : Holding(x)' => number'[x] # number'[v]
    BY DEF NumberInv, Kept
  <2>1. \A x \in Writers \ {w} : (Holding(x)' <=> Holding(x)) /\ number'[x] = number[x]
    BY DEF Holding, IInv, TypeOK
  <2>2. number'[w] = last + 1 /\ last \in Nat /\ last' = last + 1
    BY DEF IInv, TypeOK
  <2>3. \A x \in Writers : \A r \in Kept(x) : r.seq \in 1..last
    BY <1>3 DEF IInv, ChainInv, Sound
  <2>4. \A x \in Writers : Holding(x) => number[x] \in 1..last
    BY <1>3 DEF IInv, NumberInv
  <2>5. CASE v = w
    BY <2>1, <2>2, <2>3, <2>4, <2>5
  <2>6. CASE v # w
    <3>1. Holding(v) /\ number'[v] = number[v] /\ number[v] \in 1..last
      BY <2>1, <2>4, <2>6
    <3>2. number'[v] \in 1..last' /\ number'[w] # number'[v]
      BY <3>1, <2>2
    <3>3. \A x \in Writers : \A r \in Kept(x) : r.seq # number'[v]
      BY <3>1, <1>3 DEF IInv, NumberInv
    <3>4. \A x \in Writers \ {v} : Holding(x) => number[x] # number[v]
      BY <3>1, <1>3 DEF IInv, NumberInv
    <3>5. QED
      BY <3>1, <3>2, <3>3, <3>4, <2>1
  <2>7. QED
    BY <2>5, <2>6
<1>4. tampered = 0 => ChainInv'
  <2>1. last \in Nat /\ last' \in Nat /\ last <= last'
    BY DEF IInv, TypeOK
  <2>2. QED
    BY <2>1, SameChain DEF IInv
<1>5. tampered = 0 => AnchorInv'
  BY DEF IInv, AnchorInv, watch
<1>6. QED
  BY <1>1, <1>2, <1>3, <1>4, <1>5 DEF IInv

LEMMA TakeLockInv == ASSUME IInv, NEW w \in Writers, TakeLock(w) PROVE IInv'
<1> USE DEF TakeLock, Set
<1>1. TypeOK'
  BY DEF IInv, TypeOK, Kept
<1>2. LockInv'
  BY DEF IInv, TypeOK, LockInv, MayAppend
<1>3. tampered = 0 => NumberInv'
  <2>1. \A x \in Writers : Holding(x)' <=> Holding(x)
    BY DEF Holding, IInv, TypeOK
  <2>2. \A x \in Writers : Kept(x)' = Kept(x)
    BY DEF Kept
  <2>3. QED
    BY <2>1, <2>2 DEF IInv, NumberInv
<1>4. tampered = 0 => ChainInv'
  BY SameLedger DEF IInv
<1>5. tampered = 0 => AnchorInv'
  BY DEF IInv, AnchorInv, watch
<1>6. QED
  BY <1>1, <1>2, <1>3, <1>4, <1>5 DEF IInv

\* The row that is appended is of the shape, and the number, the trigger gives.
LEMMA NewRow == ASSUME IInv, NEW w \in Writers, Append(w)
                PROVE /\ tampered = 0 => TailHash(Visible(w)) = TailHash(Kept(w))
                      /\ Numbered(w) \in Nat /\ last \in Nat /\ last' \in Nat
                      /\ last <= last' /\ Numbered(w) <= last' /\ lock = w
<1>1. isolation[w] = "read committed" /\ lock = w
  BY DEF IInv, LockInv, Append
<1>2. Visible(w) = Kept(w)
  BY <1>1 DEF Visible, Kept
<1>3. number[w] \in Nat /\ last \in Nat
  BY DEF IInv, TypeOK
<1>4. Numbered(w) \in Nat
  BY <1>3 DEF Numbered
<1>5. last' = IF Numbered(w) > last THEN Numbered(w) ELSE last
  BY DEF Append
<1>6. last' \in Nat /\ last <= last' /\ Numbered(w) <= last'
  <2> HIDE DEF Append
  <2>1. CASE Numbered(w) > last
    BY <1>3, <1>4, <1>5, <2>1
  <2>2. CASE ~(Numbered(w) > last)
    BY <1>3, <1>4, <1>5, <2>2
  <2>3. QED
    BY <2>1, <2>2
<1>7. QED
  BY <1>1, <1>2, <1>3, <1>4, <1>6, Zenon

LEMMA AppendInv == ASSUME IInv, NEW w \in Writers, Append(w) PROVE IInv'
<1> DEFINE n == Numbered(w)
<1> DEFINE new == Row(n, TailHash(Visible(w)))
<1>1. /\ tampered = 0 => TailHash(Visible(w)) = TailHash(Kept(w))
      /\ n \in Nat /\ last \in Nat /\ last' \in Nat
      /\ last <= last' /\ n <= last' /\ lock = w
  BY NewRow
<1>2. /\ pending' = [pending EXCEPT ![w] = pending[w] \cup {new}]
      /\ pc' = [pc EXCEPT ![w] = "open"] /\ number' = [number EXCEPT ![w] = 0]
      /\ UNCHANGED <<rows, boundary, migrated, lock, isolation, anchor, tampered>>
  BY DEF Append, Set, watch
<1>3. /\ new.seq = n /\ new.body = n
      /\ new = [seq |-> new.seq, prev |-> new.prev, body |-> new.body, hash |-> new.hash]
  BY DEF Row
<1> HIDE DEF new, n
<1>4. TypeOK
  BY DEF IInv
<1>5. /\ pending'[w] = pending[w] \cup {new} /\ pending' = [x \in Writers |-> pending'[x]]
      /\ \A x \in Writers \ {w} : pending'[x] = pending[x]
  BY <1>2, <1>4 DEF TypeOK
<1>6. Kept(w)' = Kept(w) \cup {new} /\ \A x \in Writers \ {w} : Kept(x)' = Kept(x)
  BY <1>2, <1>5 DEF Kept
<1>7. TypeOK'
  <2>1. ASSUME NEW x \in Writers, NEW r \in Kept(x)'
        PROVE /\ r = [seq |-> r.seq, prev |-> r.prev, body |-> r.body, hash |-> r.hash]
              /\ r.seq \in Nat /\ r.body \in Nat
    <3>1. r = new \/ r \in Kept(x)
      BY <1>6, <2>1
    <3>2. QED
      BY <3>1, <1>1, <1>3, <1>4 DEF TypeOK
  <2>2. /\ last' \in Nat /\ boundary' \in Nat /\ migrated' \in BOOLEAN /\ tampered' \in Nat
        /\ lock' \in Writers \cup {Nobody} /\ isolation' \in [Writers -> Levels]
    BY <1>1, <1>2, <1>4 DEF TypeOK
  <2>3. pc' \in [Writers -> {"idle", "open", "drawn", "locked"}] /\ number' \in [Writers -> Nat]
    BY <1>2, <1>4 DEF TypeOK
  <2>4. QED
    BY <2>1, <2>2, <2>3, <1>5 DEF TypeOK
<1>8. LockInv'
  BY <1>1, <1>2, <1>4, <1>5 DEF IInv, TypeOK, LockInv
<1>9. ASSUME tampered = 0 PROVE NumberInv' /\ ChainInv' /\ AnchorInv'
  <2>1. NumberInv /\ ChainInv /\ AnchorInv
    BY <1>9 DEF IInv
  <2>2. \A r \in Kept(w) : r.seq \in 1..last
    BY <2>1 DEF ChainInv, Sound
  <2>3. Holding(w)
    BY DEF Append, Holding
  <2>4. ~migrated => n = number[w] /\ n \in 1..last /\ \A r \in Kept(w) : r.seq # n
    BY <2>1, <2>3 DEF NumberInv, Numbered, n
  <2>5. migrated => n = last + 1
    BY DEF Numbered, n
  <2>6. n \in 1..last' /\ (\A r \in Kept(w) : r.seq # n) /\ (migrated => n > last)
    BY <2>2, <2>4, <2>5, <1>1
  <2>7. Sound(Kept(w) \cup {Row(n, TailHash(Kept(w)))}, last', migrated, boundary)
    BY <2>1, <2>6, <1>1, SoundAppend DEF ChainInv
  <2>8. new = Row(n, TailHash(Kept(w)))
    BY <1>1, <1>9 DEF new
  <2>9. ChainInv'
    <3>1. \A x \in Writers : Sound(Kept(x), last', migrated, boundary)
      BY <2>1, <1>1, SoundUp DEF ChainInv
    <3>2. Sound(rows, last', migrated, boundary)
      BY <2>1, <1>1, SoundUp DEF ChainInv
    <3>3. ASSUME NEW x \in Writers PROVE Sound(Kept(x), last, migrated, boundary)'
      <4>1. Sound(Kept(x)', last', migrated, boundary)
        BY <3>1, <2>7, <2>8, <1>6
      <4>2. QED
        BY <4>1, <1>2
    <3>4. Sound(rows, last, migrated, boundary)'
      BY <3>2, <1>2
    <3>5. QED
      BY <3>3, <3>4 DEF ChainInv
  <2>10. NumberInv'
    <3> SUFFICES ASSUME ~migrated', NEW v \in Writers, Holding(v)'
                 PROVE /\ number'[v] \in 1..last'
                       /\ \A x \in Writers : \A r \in Kept(x)' : r.seq # number'[v]
                       /\ \A x \in Writers \ {v} : Holding(x)' => number'[x] # number'[v]
      BY DEF NumberInv
    <3>1. v # w /\ ~migrated
      BY <1>2, <1>4 DEF Holding, TypeOK
    <3>2. \A x \in Writers \ {w} : (Holding(x)' <=> Holding(x)) /\ number'[x] = number[x]
      BY <1>2, <1>4 DEF Holding, TypeOK
    <3>3. ~Holding(w)'
      BY <1>2, <1>4 DEF Holding, TypeOK
    <3>4. /\ number[v] \in 1..last
          /\ \A x \in Writers : \A r \in Kept(x) : r.seq # number[v]
          /\ \A x \in Writers \ {v} : Holding(x) => number[x] # number[v]
      BY <2>1, <3>1, <3>2 DEF NumberInv
    <3>5. n # number[v]
      BY <3>4, <3>1, <2>3, <2>4
    <3>6. \A x \in Writers : \A r \in Kept(x)' : r.seq # number[v]
      BY <3>4, <3>5, <1>3, <1>6
    <3>7. number[v] \in 1..last'
      BY <3>4, <1>1
    <3>8. QED
      BY <3>1, <3>2, <3>3, <3>4, <3>6, <3>7
  <2>11. AnchorInv'
    BY <2>1, <1>2 DEF AnchorInv
  <2>12. QED
    BY <2>9, <2>10, <2>11
<1>10. QED
  BY <1>2, <1>7, <1>8, <1>9 DEF IInv

\* A transaction that ends gives back the lock; its numbers are spent.
LEMMA EndInv == ASSUME IInv, NEW w \in Writers, End(w),
                       \A x \in Writers \ {w} : Kept(x)' \subseteq rows' \cup Kept(x),
                       rows \subseteq rows', rows' \subseteq Kept(w),
                       tampered = 0 => Sound(rows', last, migrated, boundary),
                       tampered = 0 => \A x \in Writers : Sound(Kept(x)', last, migrated, boundary)
                PROVE IInv'
<1>1. TypeOK
  BY DEF IInv
<1>2. /\ pending' = [pending EXCEPT ![w] = {}] /\ pc' = [pc EXCEPT ![w] = "idle"]
      /\ number' = [number EXCEPT ![w] = 0]
      /\ isolation' = [isolation EXCEPT ![w] = "read committed"]
      /\ lock' = IF lock = w THEN Nobody ELSE lock
      /\ UNCHANGED <<last, boundary, migrated, anchor, tampered>>
  BY DEF End, Set, watch
<1>3. pending'[w] = {} /\ pending' = [x \in Writers |-> pending'[x]]
      /\ \A x \in Writers \ {w} : pending'[x] = pending[x]
  BY <1>1, <1>2 DEF TypeOK
<1>4. \A x \in Writers : \A r \in Kept(x)' : \E y \in Writers : r \in Kept(y)
  BY <1>3 DEF Kept
<1>5. TypeOK'
  <2>1. /\ last' \in Nat /\ boundary' \in Nat /\ migrated' \in BOOLEAN /\ tampered' \in Nat
        /\ lock' \in Writers \cup {Nobody}
    BY <1>1, <1>2 DEF TypeOK
  <2>2. /\ pc' \in [Writers -> {"idle", "open", "drawn", "locked"}]
        /\ number' \in [Writers -> Nat] /\ isolation' \in [Writers -> Levels]
    BY <1>1, <1>2 DEF TypeOK, Levels
  <2>3. \A x \in Writers : \A r \in Kept(x)' :
          /\ r = [seq |-> r.seq, prev |-> r.prev, body |-> r.body, hash |-> r.hash]
          /\ r.seq \in Nat /\ r.body \in Nat
    BY <1>1, <1>4 DEF TypeOK
  <2>4. QED
    BY <2>1, <2>2, <2>3, <1>3 DEF TypeOK
<1>6. LockInv'
  BY <1>1, <1>2, <1>3 DEF IInv, TypeOK, LockInv
<1>7. ASSUME tampered = 0 PROVE NumberInv'
  <2> SUFFICES ASSUME ~migrated', NEW v \in Writers, Holding(v)'
               PROVE /\ number'[v] \in 1..last'
                     /\ \A x \in Writers : \A r \in Kept(x)' : r.seq # number'[v]
                     /\ \A x \in Writers \ {v} : Holding(x)' => number'[x] # number'[v]
    BY DEF NumberInv
  <2>1. v # w /\ ~migrated /\ ~Holding(w)'
    BY <1>1, <1>2 DEF Holding, TypeOK
  <2>2. \A x \in Writers \ {w} : (Holding(x)' <=> Holding(x)) /\ number'[x] = number[x]
    BY <1>1, <1>2 DEF Holding, TypeOK
  <2>3. /\ number[v] \in 1..last
        /\ \A x \in Writers : \A r \in Kept(x) : r.seq # number[v]
        /\ \A x \in Writers \ {v} : Holding(x) => number[x] # number[v]
    BY <1>7, <2>1, <2>2 DEF IInv, NumberInv
  <2>4. QED
    BY <1>2, <1>4, <2>1, <2>2, <2>3
<1>8. ASSUME tampered = 0 PROVE ChainInv'
  <2>1. ASSUME NEW x \in Writers PROVE Sound(Kept(x), last, migrated, boundary)'
    BY <1>2, <1>8
  <2>2. Sound(rows, last, migrated, boundary)'
    BY <1>2, <1>8
  <2>3. QED
    BY <2>1, <2>2 DEF ChainInv
<1>9. ASSUME tampered = 0 PROVE AnchorInv'
  BY <1>2, <1>9 DEF IInv, AnchorInv
<1>10. QED
  BY <1>2, <1>5, <1>6, <1>7, <1>8, <1>9 DEF IInv

LEMMA CommitInv == ASSUME IInv, NEW w \in Writers, Commit(w) PROVE IInv'
<1>1. End(w) /\ rows' = Kept(w)
  BY DEF Commit, Kept
<1>2. pending'[w] = {} /\ \A x \in Writers \ {w} : pending'[x] = pending[x]
  BY <1>1 DEF IInv, TypeOK, End, Set
<1>3. Kept(w)' = rows'
  BY <1>2 DEF Kept
<1>4. ASSUME NEW x \in Writers \ {w} PROVE Kept(x)' = rows' \/ (Kept(x)' = Kept(x) /\ rows' = rows)
  <2>1. CASE pending[w] = {}
    BY <1>1, <1>2, <2>1 DEF Kept
  <2>2. CASE pending[w] # {}
    <3>1. pending[x] = {}
      BY <2>2 DEF IInv, LockInv
    <3>2. QED
      BY <3>1, <1>2 DEF Kept
  <2>3. QED
    BY <2>1, <2>2
<1>5. ASSUME tampered = 0 PROVE /\ Sound(rows', last, migrated, boundary)
                                /\ \A x \in Writers : Sound(Kept(x)', last, migrated, boundary)
  <2>1. ChainInv
    BY <1>5 DEF IInv
  <2>2. Sound(rows', last, migrated, boundary)
    BY <2>1, <1>1 DEF ChainInv
  <2>3. QED
    BY <2>1, <2>2, <1>3, <1>4 DEF ChainInv
<1>6. rows \subseteq rows' /\ rows' \subseteq Kept(w)
  BY <1>1 DEF Kept
<1>7. \A x \in Writers \ {w} : Kept(x)' \subseteq rows' \cup Kept(x)
  BY <1>4
<1>8. QED
  BY <1>1, <1>5, <1>6, <1>7, EndInv

LEMMA AbortInv == ASSUME IInv, NEW w \in Writers, Abort(w) PROVE IInv'
<1>1. End(w) /\ rows' = rows
  BY DEF Abort
<1>2. pending'[w] = {} /\ \A x \in Writers \ {w} : pending'[x] = pending[x]
  BY <1>1 DEF IInv, TypeOK, End, Set
<1>3. Kept(w)' = rows /\ \A x \in Writers \ {w} : Kept(x)' = Kept(x)
  BY <1>1, <1>2 DEF Kept
<1>4. ASSUME tampered = 0 PROVE /\ Sound(rows', last, migrated, boundary)
                                /\ \A x \in Writers : Sound(Kept(x)', last, migrated, boundary)
  <2>1. ChainInv
    BY <1>4 DEF IInv
  <2>2. QED
    BY <2>1, <1>1, <1>3 DEF ChainInv
<1>5. rows \subseteq rows' /\ rows' \subseteq Kept(w)
  BY <1>1 DEF Kept
<1>6. \A x \in Writers \ {w} : Kept(x)' \subseteq rows' \cup Kept(x)
  BY <1>3
<1>7. QED
  BY <1>1, <1>4, <1>5, <1>6, EndInv

\* 0149 and its downgrade run with nobody inside a transaction.
LEMMA MigrateInv == ASSUME IInv, Upgrade \/ Downgrade PROVE IInv'
<1>1. /\ UNCHANGED <<rows, pending, lock, pc, isolation, number, last, anchor, tampered>>
      /\ \A w \in Writers : pc[w] = "idle"
      /\ boundary' \in {last, NoBoundary} /\ migrated' \in BOOLEAN
      /\ migrated' => boundary' = last
  BY DEF Upgrade, Downgrade, session, watch, Idle
<1>2. \A w \in Writers : Kept(w)' = Kept(w)
  BY <1>1 DEF Kept
<1>3. TypeOK'
  BY <1>1, <1>2 DEF IInv, TypeOK, NoBoundary
<1>4. LockInv'
  BY <1>1 DEF IInv, LockInv
<1>5. NumberInv'
  BY <1>1 DEF NumberInv, Holding
<1>6. ASSUME tampered = 0 PROVE ChainInv'
  <2>1. ChainInv /\ last \in Nat
    BY <1>6 DEF IInv, TypeOK
  <2>2. ASSUME NEW V, Sound(V, last, migrated, boundary) PROVE Sound(V, last, migrated', boundary')
    <3>1. CASE migrated' = TRUE
      BY <1>1, <2>1, <2>2, <3>1, SoundMigrate
    <3>2. CASE migrated' = FALSE
      BY <1>1, <2>2, <3>2, SoundRevert
    <3>3. QED
      BY <1>1, <3>1, <3>2
  <2>3. ASSUME NEW w \in Writers PROVE Sound(Kept(w), last, migrated, boundary)'
    <3>1. Sound(Kept(w), last, migrated', boundary')
      BY <2>1, <2>2 DEF ChainInv
    <3>2. QED
      BY <3>1, <1>1, <1>2
  <2>4. Sound(rows, last, migrated, boundary)'
    <3>1. Sound(rows, last, migrated', boundary')
      BY <2>1, <2>2 DEF ChainInv
    <3>2. QED
      BY <3>1, <1>1
  <2>5. QED
    BY <2>3, <2>4 DEF ChainInv
<1>7. tampered = 0 => AnchorInv'
  BY <1>1 DEF IInv, AnchorInv
<1>8. QED
  BY <1>1, <1>3, <1>4, <1>5, <1>6, <1>7 DEF IInv

LEMMA RecordInv == ASSUME IInv, Record PROVE IInv'
<1>1. /\ UNCHANGED <<rows, pending, lock, pc, isolation, number, last, boundary, migrated, tampered>>
      /\ rows # {} /\ tampered = 0
      /\ anchor' = {[seq |-> Highest(rows).seq, hash |-> Highest(rows).hash]}
  BY DEF Record, session
<1>2. Sound(rows, last, migrated, boundary) /\ last \in Nat
  BY <1>1 DEF IInv, TypeOK, ChainInv
<1>3. \A r \in rows : r.seq \in 0..last
  BY <1>2 DEF Sound
<1>4. Highest(rows) \in rows
  BY <1>1, <1>2, <1>3, HighestIs
<1>5. AnchorInv'
  BY <1>1, <1>4 DEF AnchorInv
<1>6. \A w \in Writers : Kept(w)' = Kept(w)
  BY <1>1 DEF Kept
<1>7. TypeOK'
  BY <1>1, <1>6 DEF IInv, TypeOK
<1>8. LockInv'
  BY <1>1 DEF IInv, LockInv
<1>9. NumberInv'
  BY <1>1, <1>6 DEF IInv, NumberInv, Holding
<1>10. ChainInv'
  BY <1>1, SameLedger DEF IInv
<1>11. QED
  BY <1>5, <1>7, <1>8, <1>9, <1>10 DEF IInv

\* A tampered table owes nothing but its shape.
LEMMA TamperInv == ASSUME IInv, NEW r \in rows, Tamper(r) PROVE IInv'
<1>1. /\ UNCHANGED <<pending, lock, pc, isolation, number, last, boundary, migrated, anchor>>
      /\ \A w \in Writers : pc[w] = "idle"
      /\ tampered' = tampered + 1
      /\ Remove(r) \/ Edit(r) \/ Rehash(r) \/ \E p \in {q.hash : q \in rows} \cup {Genesis} : Relink(r, p)
  BY DEF Tamper, session, watch, Idle
<1>2. tampered' # 0
  BY <1>1 DEF IInv, TypeOK
<1>3. LockInv'
  BY <1>1 DEF IInv, LockInv
<1>4. TypeOK'
  <2> DEFINE Shaped(q) == /\ q = [seq |-> q.seq, prev |-> q.prev, body |-> q.body, hash |-> q.hash]
                          /\ q.seq \in Nat /\ q.body \in Nat
  <2>1. \A w \in Writers : \A q \in Kept(w) : Shaped(q)
    BY DEF IInv, TypeOK
  <2>2. ASSUME NEW w \in Writers, NEW q \in Kept(w)' PROVE Shaped(q)
    <3>1. Shaped(r)
      BY <2>1 DEF Kept
    <3>2. \A p : Shaped([r EXCEPT !.prev = p]) /\ Shaped([r EXCEPT !.hash = p])
      BY <3>1
    <3>3. Shaped([r EXCEPT !.body = 0])
      BY <3>1
    <3> HIDE DEF Shaped
    <3>4. q \in Kept(w) \/ \E p : q \in {[r EXCEPT !.prev = p], [r EXCEPT !.hash = p], [r EXCEPT !.body = 0]}
      BY <1>1 DEF Remove, Edit, Rehash, Relink, Change, Kept
    <3>5. QED
      BY <2>1, <3>2, <3>3, <3>4
  <2>3. QED
    BY <1>1, <2>2 DEF IInv, TypeOK
<1>5. QED
  BY <1>2, <1>3, <1>4 DEF IInv

-----------------------------------------------------------------------------
\* The induction: the sequence, the lock and the trigger keep IInv whatever
\* races, rolls back, is migrated or is done to the table.
THEOREM LedgerInvariant == Spec => []IInv
<1>1. ASSUME IInv, [Next]_vars PROVE IInv'
  <2>1. CASE UNCHANGED vars
    <3>1. UNCHANGED <<rows, pending, lock, pc, isolation, number, last, boundary, migrated, anchor, tampered>>
      BY <2>1 DEF vars
    <3>2. \A w \in Writers : Kept(w)' = Kept(w)
      BY <3>1 DEF Kept
    <3>3. TypeOK'
      BY <1>1, <3>1, <3>2 DEF IInv, TypeOK
    <3>4. LockInv'
      BY <1>1, <3>1 DEF IInv, LockInv
    <3>5. tampered = 0 => NumberInv' /\ ChainInv' /\ AnchorInv'
      BY <1>1, <3>1, <3>2, SameLedger DEF IInv, NumberInv, AnchorInv, Holding
    <3>6. QED
      BY <3>1, <3>3, <3>4, <3>5 DEF IInv
  <2>2. ASSUME NEW w \in Writers, NEW level \in Levels, Begin(w, level) PROVE IInv'
    BY <1>1, <2>2, BeginInv
  <2>3. ASSUME NEW w \in Writers, Draw(w) PROVE IInv'
    BY <1>1, <2>3, DrawInv
  <2>4. ASSUME NEW w \in Writers, TakeLock(w) PROVE IInv'
    BY <1>1, <2>4, TakeLockInv
  <2>5. ASSUME NEW w \in Writers, Append(w) PROVE IInv'
    BY <1>1, <2>5, AppendInv
  <2>6. ASSUME NEW w \in Writers, Commit(w) PROVE IInv'
    BY <1>1, <2>6, CommitInv
  <2>7. ASSUME NEW w \in Writers, Abort(w) PROVE IInv'
    BY <1>1, <2>7, AbortInv
  <2>8. CASE Upgrade \/ Downgrade
    BY <1>1, <2>8, MigrateInv
  <2>9. CASE Record
    BY <1>1, <2>9, RecordInv
  <2>10. ASSUME NEW r \in rows, Tamper(r) PROVE IInv'
    BY <1>1, <2>10, TamperInv
  <2>11. QED
    BY <1>1, <2>1, <2>2, <2>3, <2>4, <2>5, <2>6, <2>7, <2>8, <2>9, <2>10, Zenon DEF Next
<1>2. QED
  BY InitInv, <1>1, PTL DEF Spec

\* Above the boundary a row names the row with the highest number below it.
THEOREM OrderHolds == Spec => []NumberOrderIsChainOrder
<1>1. IInv => NumberOrderIsChainOrder
  BY DEF IInv, ChainInv, Sound, NumberOrderIsChainOrder, Below
<1>2. QED
  BY LedgerInvariant, <1>1, PTL

-----------------------------------------------------------------------------
(* What the verifier says of a sound table, and of one with a row missing  *)

\* The highest of some rows of a sound set, and that it is one of them.
LEMMA TailIsRow == ASSUME NEW V, NEW top \in Nat, NEW m, NEW b, Sound(V, top, m, b),
                          NEW S, S \subseteq V, S # {}
                   PROVE /\ Highest(S) \in S /\ \A q \in S : q.seq <= Highest(S).seq
                         /\ TailHash(S) = Highest(S).hash
<1>1. \A r \in S : r.seq \in 0..top
  BY DEF Sound
<1>2. QED
  BY <1>1, HighestIs DEF TailHash

\* Above the floor no two rows claim one predecessor.
LEMMA NoFreshFork == ASSUME NEW V, NEW top \in Nat, NEW b \in Nat, Sound(V, top, TRUE, b),
                            NEW r \in V, NEW q \in V, r.seq > b, q.seq > b,
                            r.prev = q.prev, r.prev # Genesis
                     PROVE r = q
<1>1. ASSUME NEW x \in V, NEW y \in V, x.seq > b, y.seq > b, x.prev = y.prev, x.prev # Genesis,
             x.seq < y.seq
      PROVE FALSE
  <2> DEFINE Lower(z) == {v \in V : v.seq < z.seq}
  <2>1. x.prev = TailHash(Lower(x)) /\ y.prev = TailHash(Lower(y))
    BY <1>1 DEF Sound
  <2>2. Lower(x) # {} /\ x \in Lower(y)
    BY <1>1, <2>1 DEF TailHash
  <2>3. /\ Highest(Lower(x)) \in Lower(x) /\ x.prev = Highest(Lower(x)).hash
        /\ Highest(Lower(y)) \in Lower(y) /\ y.prev = Highest(Lower(y)).hash
        /\ x.seq <= Highest(Lower(y)).seq
    BY <2>1, <2>2, TailIsRow
  <2>4. Highest(Lower(x)) = Highest(Lower(y))
    BY <1>1, <2>3, OneRowPerHash
  <2>5. Highest(Lower(x)).seq < x.seq /\ Highest(Lower(x)).seq \in Nat /\ x.seq \in Nat
    BY <2>3 DEF Sound
  <2>6. QED
    BY <2>3, <2>4, <2>5
<1>2. r.seq \in Nat /\ q.seq \in Nat
  BY DEF Sound
<1>3. r.seq = q.seq
  BY <1>1, <1>2
<1>4. QED
  BY <1>3 DEF Sound

\* No honest history is accused: whatever raced, rolled back, or ran before 0149,
\* an untouched table verifies in every part.
THEOREM HonestHistoryVerifies == Spec => []NoFalseAlarm
<1>1. ASSUME IInv PROVE NoFalseAlarm
  <2> SUFFICES ASSUME tampered = 0, NEW S \in SUBSET rows PROVE Intact(S)
    BY DEF NoFalseAlarm
  <2>1. /\ Sound(rows, last, migrated, boundary) /\ AnchorInv
        /\ last \in Nat /\ boundary \in Nat /\ migrated \in BOOLEAN
    BY <1>1 DEF IInv, TypeOK, ChainInv
  <2>2. ASSUME NEW r \in S PROVE ~LinkBroken(S, r) /\ ~ContentBroken(r)
    <3>1. r \in rows
      OBVIOUS
    <3>2. ~LinkBroken(S, r)
      BY <2>1, <3>1 DEF LinkBroken, Known, Sound
    <3>3. r = Row(r.seq, r.prev)
      BY <2>1, <3>1 DEF Sound
    <3>4. \A n, p : LET t == Row(n, p) IN t.hash = Digest(t.prev, t.body)
      BY DEF Row
    <3>5. QED
      BY <3>2, <3>3, <3>4 DEF ContentBroken
  <2>3. ASSUME NEW r \in S PROVE ~FreshFork(r)
    <3> SUFFICES ASSUME migrated, r.prev # Genesis, \A q \in Claimants(r.prev) : q.seq > boundary
                 PROVE Claimants(r.prev) = {r}
      BY DEF FreshFork, Forked
    <3>1. r \in Claimants(r.prev)
      BY DEF Claimants
    <3>2. ASSUME NEW q \in Claimants(r.prev) PROVE q = r
      <4>1. q \in rows /\ r \in rows /\ q.prev = r.prev /\ q.seq > boundary /\ r.seq > boundary
        BY <3>1, <3>2 DEF Claimants
      <4>2. Sound(rows, last, TRUE, boundary)
        BY <2>1
      <4>3. last \in Nat /\ boundary \in Nat
        BY <2>1
      <4>4. QED
        BY <4>1, <4>2, <4>3, NoFreshFork
    <3>3. QED
      BY <3>1, <3>2
  <2>4. ~GenesisBroken
    <3> SUFFICES ASSUME rows # {} PROVE Cardinality(Claimants(Genesis)) = 1
      BY DEF GenesisBroken
    <3>1. PICK r \in rows : r.prev = Genesis
      BY <2>1 DEF Sound
    <3>2. Claimants(Genesis) = {r}
      BY <2>1, <3>1 DEF Sound, Claimants
    <3>3. QED
      BY <3>2, FS_Singleton
  <2>5. ASSUME NEW a \in anchor PROVE AnchorStatus(a) = "HELD"
    <3>1. \E r \in rows : r.hash = a.hash /\ r.seq = a.seq
      BY <2>1 DEF AnchorInv
    <3>2. QED
      BY <3>1 DEF AnchorStatus
  <2>6. Broken(S) = {}
    BY <2>2, <2>3 DEF Broken
  <2>7. QED
    BY <2>4, <2>5, <2>6 DEF Intact
<1>2. QED
  BY LedgerInvariant, <1>1, PTL

\* Above the floor a row that is not the highest is named by one above it.
LEMMA NextNames == ASSUME NEW V, NEW top \in Nat, NEW b \in Nat, Sound(V, top, TRUE, b),
                          NEW v \in V, v.seq > b, v # Highest(V)
                   PROVE \E s \in V : v.seq < s.seq /\ s.prev = v.hash
<1>1. \A r \in V : r.seq \in Nat
  BY DEF Sound
<1>2. Highest(V) \in V /\ v.seq <= Highest(V).seq
  BY TailIsRow
<1>3. v.seq < Highest(V).seq
  BY <1>1, <1>2 DEF Sound
<1> DEFINE Above == {q.seq : q \in {q \in V : v.seq < q.seq}}
<1>4. Above \subseteq Nat /\ Above # {}
  BY <1>1, <1>2, <1>3
<1>5. PICK n \in Above : \A m \in Above : n <= m
  BY <1>4, Least
<1>6. PICK s \in V : s.seq = n /\ v.seq < s.seq
  OBVIOUS
<1> DEFINE Lower == {q \in V : q.seq < s.seq}
<1>7. \A q \in Lower : q.seq <= v.seq
  BY <1>1, <1>5, <1>6
<1>8. v \in Lower
  BY <1>6
<1>9. Highest(Lower) \in Lower /\ v.seq <= Highest(Lower).seq /\ TailHash(Lower) = Highest(Lower).hash
  BY <1>8, TailIsRow
<1>10. Highest(Lower).seq = v.seq
  BY <1>1, <1>7, <1>9
<1>11. Highest(Lower) = v
  BY <1>9, <1>10 DEF Sound
<1>12. s.seq > b
  BY <1>1, <1>6
<1>13. s.prev = TailHash(Lower)
  BY <1>12 DEF Sound
<1>14. QED
  BY <1>6, <1>9, <1>11, <1>13

\* Why a removal shows: the row that names the one removed is left without it.
LEMMA MissingLink == ASSUME IInv, tampered = 0, migrated, NEW v \in rows, v.seq > boundary,
                            v # Highest(rows), rows' = rows \ {v}
                     PROVE ~Intact(rows)'
<1>1. /\ Sound(rows, last, migrated, boundary) /\ Sound(rows, last, TRUE, boundary)
      /\ last \in Nat /\ boundary \in Nat
  BY DEF IInv, TypeOK, ChainInv
<1>2. PICK s \in rows : v.seq < s.seq /\ s.prev = v.hash
  BY <1>1, NextNames
<1>3. s.prev # Genesis
  BY <1>1, <1>2, NeverGenesis DEF Sound, Row
<1>4. \A q \in rows' : q.hash # v.hash
  BY <1>1, OneRowPerHash
<1>5. v.seq \in Nat
  BY <1>1 DEF Sound
<1>6. s \in rows'
  BY <1>2, <1>5
<1>7. LinkBroken(rows, s)'
  BY <1>2, <1>3, <1>4 DEF LinkBroken, Known
<1>8. QED
  BY <1>6, <1>7 DEF Intact, Broken

\* Of a ledger nobody has touched, a row above the boundary that is not the newest
\* cannot be removed unseen.
THEOREM RemovalIsSeen == Spec => RemovalShows
<1>1. ASSUME IInv, [Next]_vars
      PROVE \A v \in rows \ rows' : tampered = 0 /\ migrated /\ v.seq > boundary /\ rows' \subseteq rows
                => v = Highest(rows) \/ ~Intact(rows)'
  <2> SUFFICES ASSUME NEW v \in rows, v \notin rows', tampered = 0, migrated, v.seq > boundary,
                      rows' \subseteq rows, v # Highest(rows)
               PROVE ~Intact(rows)'
    OBVIOUS
  <2>1. PICK r \in rows : Tamper(r)
    <3>1. rows' # rows /\ ~(rows \subseteq rows')
      OBVIOUS
    <3>2. \A w \in Writers : /\ \A level \in Levels : ~Begin(w, level)
                             /\ ~Draw(w) /\ ~TakeLock(w) /\ ~Append(w) /\ ~Commit(w) /\ ~Abort(w)
      BY <3>1 DEF Begin, Draw, TakeLock, Append, Commit, Abort
    <3>3. ~Upgrade /\ ~Downgrade /\ ~Record /\ ~UNCHANGED vars
      BY <3>1 DEF Upgrade, Downgrade, Record, vars
    <3>4. QED
      BY <1>1, <3>2, <3>3, Zenon DEF Next
  <2>2. /\ \A q, p \in rows : q.seq = p.seq => q = p
        /\ \A q \in rows : q = [seq |-> q.seq, prev |-> q.prev, body |-> q.body, hash |-> q.hash]
    <3>1. Sound(rows, last, migrated, boundary)
      BY <1>1 DEF IInv, ChainInv
    <3>2. \A q \in rows : q = Row(q.seq, q.prev)
      BY <3>1 DEF Sound
    <3>3. \A n, p : LET t == Row(n, p)
                    IN t = [seq |-> t.seq, prev |-> t.prev, body |-> t.body, hash |-> t.hash]
      BY DEF Row
    <3>4. \A q \in rows : q = [seq |-> q.seq, prev |-> q.prev, body |-> q.body, hash |-> q.hash]
      BY <3>2, <3>3
    <3>5. QED
      BY <3>1, <3>4 DEF Sound
  <2>3. \A p : [r EXCEPT !.body = p].seq = r.seq /\ [r EXCEPT !.prev = p].seq = r.seq
               /\ [r EXCEPT !.hash = p].seq = r.seq
    BY <2>2
  <2>4. rows' = rows \ {v}
    <3>1. Remove(r) \/ \E q : Change(r, q) /\ q.seq = r.seq
      <4>1. \/ Remove(r) \/ Change(r, [r EXCEPT !.body = 0])
            \/ \E p : Change(r, [r EXCEPT !.hash = p]) \/ Change(r, [r EXCEPT !.prev = p])
        BY <2>1, Zenon DEF Tamper, Edit, Rehash, Relink
      <4>2. QED
        BY <4>1, <2>3, Zenon
    <3>2. CASE Remove(r)
      BY <3>2 DEF Remove
    <3>3. ASSUME NEW q, Change(r, q), q.seq = r.seq PROVE FALSE
      <4>1. v = r /\ q \in rows'
        BY <3>3 DEF Change
      <4>2. QED
        BY <4>1, <3>3, <2>2
    <3>4. QED
      BY <3>1, <3>2, <3>3
  <2>5. QED
    BY <1>1, <2>4, MissingLink
<1>2. QED
  BY LedgerInvariant, <1>1, PTL DEF Spec, RemovalShows

-----------------------------------------------------------------------------
(* What an anchor vouches for: the hashes lead down from it, row by row    *)

\* Each row vouched for is the anchor's, or is named by one above it.
VouchInv ==
    /\ \A v \in vouched : /\ v.seq \in 0..last /\ v.hash = Digest(v.prev, v.body)
                          /\ v = [seq |-> v.seq, prev |-> v.prev, body |-> v.body, hash |-> v.hash]
    /\ \A v \in vouched : \/ \E a \in anchor : a.hash = v.hash
                           \/ \E u \in vouched : v.seq < u.seq /\ u.prev = v.hash

LEMMA VouchInduction == Spec => []VouchInv
<1>1. Init => VouchInv
  BY DEF Init, VouchInv
<1>2. ASSUME IInv, VouchInv, [Next]_vars PROVE VouchInv'
  <2>1. CASE Record
    <3>1. /\ last' = last /\ rows # {} /\ migrated /\ tampered = 0
          /\ anchor' = {[seq |-> Highest(rows).seq, hash |-> Highest(rows).hash]}
          /\ vouched' = {r \in rows : r.seq > boundary}
      BY <2>1 DEF Record
    <3>2. Sound(rows, last, TRUE, boundary) /\ last \in Nat /\ boundary \in Nat
      BY <1>2, <3>1 DEF IInv, TypeOK, ChainInv
    <3>3. ASSUME NEW v \in vouched'
          PROVE /\ v.seq \in 0..last /\ v.hash = Digest(v.prev, v.body)
                /\ v = [seq |-> v.seq, prev |-> v.prev, body |-> v.body, hash |-> v.hash]
      <4>1. v = Row(v.seq, v.prev) /\ v.seq \in 1..last
        BY <3>1, <3>2 DEF Sound
      <4>2. \A n, p : LET t == Row(n, p)
                      IN /\ t = [seq |-> t.seq, prev |-> t.prev, body |-> t.body, hash |-> t.hash]
                         /\ t.hash = Digest(t.prev, t.body)
        BY DEF Row
      <4>3. QED
        BY <4>1, <4>2, <3>2
    <3>4. ASSUME NEW v \in vouched'
          PROVE \/ \E a \in anchor' : a.hash = v.hash
                \/ \E u \in vouched' : v.seq < u.seq /\ u.prev = v.hash
      <4>1. CASE v = Highest(rows)
        BY <3>1, <4>1
      <4>2. CASE v # Highest(rows)
        <5>1. v \in rows /\ v.seq > boundary
          BY <3>1
        <5>2. PICK s \in rows : v.seq < s.seq /\ s.prev = v.hash
          BY <3>2, <4>2, <5>1, NextNames
        <5>3. v.seq \in Nat /\ s.seq \in Nat
          BY <3>2, <5>1 DEF Sound
        <5>4. s \in vouched'
          BY <3>1, <3>2, <5>1, <5>2, <5>3
        <5>5. QED
          BY <5>2, <5>4
      <4>3. QED
        BY <4>1, <4>2
    <3>5. QED
      BY <3>1, <3>3, <3>4 DEF VouchInv
  <2>2. CASE ~Record
    <3>1. UNCHANGED <<anchor, vouched>>
      BY <1>2, <2>2 DEF Next, Begin, Draw, TakeLock, Append, Commit, Abort, End, Upgrade, Downgrade,
                        Tamper, watch, vars
    <3>2. last \in Nat
      BY <1>2 DEF IInv, TypeOK
    <3>3. last' \in Nat /\ last <= last'
      <4>1. CASE \E w \in Writers : Draw(w)
        BY <3>2, <4>1 DEF Draw
      <4>2. CASE \E w \in Writers : Append(w)
        BY <1>2, <4>2, NewRow
      <4>3. CASE ~\E w \in Writers : Draw(w) \/ Append(w)
        <5>1. last' = last
          BY <1>2, <2>2, <4>3 DEF Next, Begin, TakeLock, Commit, Abort, End, Upgrade, Downgrade,
                                  Tamper, vars
        <5>2. QED
          BY <5>1, <3>2
      <4>4. QED
        BY <4>1, <4>2, <4>3
    <3>4. \A v \in vouched : v.seq \in 0..last'
      BY <1>2, <3>2, <3>3 DEF VouchInv
    <3>5. QED
      BY <1>2, <3>1, <3>4 DEF VouchInv
  <2>3. QED
    BY <2>1, <2>2
<1>3. QED
  BY LedgerInvariant, <1>1, <1>2, PTL DEF Spec

\* Two digests are one only of the same predecessor and the same payload.
LEMMA DigestInjective == \A p, b, q, c : Digest(p, b) = Digest(q, c) => p = q /\ b = c
  BY DEF Digest

\* An anchor reported held is a row of the table.
LEMMA HeldIsFound == ASSUME NEW a, AnchorStatus(a) = "HELD" PROVE \E r \in rows : r.hash = a.hash
<1> DEFINE P == \E r \in rows : r.hash = a.hash /\ r.seq = a.seq
<1> DEFINE Q == \E r \in rows : r.hash = a.hash /\ ~\E q \in rows : q.hash = a.hash /\ q.seq = a.seq
<1> DEFINE R == ~(\E r \in rows : r.hash = a.hash) /\ (\E r \in rows : r.seq = a.seq)
<1>1. AnchorStatus(a) = CASE P -> "HELD" [] Q -> "MOVED" [] R -> "REWRITTEN" [] OTHER -> "MISSING"
  BY DEF AnchorStatus
<1>2. P \/ Q \/ R \/ ~(P \/ Q \/ R)
  OBVIOUS
<1>3. P => \E r \in rows : r.hash = a.hash
  OBVIOUS
<1>4. Q => ~P /\ ~R
  OBVIOUS
<1>5. R => ~P /\ ~Q
  OBVIOUS
<1> HIDE DEF P, Q, R
<1>6. ~P => AnchorStatus(a) # "HELD"
  BY <1>1, <1>4, <1>5
<1>7. QED
  BY <1>3, <1>6

\* Whatever was done to the table since, an intact full run that holds an anchor
\* vouches for every row above the boundary when the anchor was recorded.
THEOREM AnchorVouchesForAll == Spec => []AnchorVouches
<1>1. ASSUME IInv, VouchInv PROVE AnchorVouches
  <2> SUFFICES ASSUME Intact(rows), anchor # {}
               PROVE \A v \in vouched : \E r \in rows : [r EXCEPT !.seq = v.seq] = v
    BY DEF AnchorVouches
  <2> DEFINE Found(v) == \E r \in rows : r.hash = v.hash /\ r.prev = v.prev /\ r.body = v.body
  <2>1. \A r \in rows : r.hash = Digest(r.prev, r.body) /\ ~LinkBroken(rows, r)
    BY DEF Intact, Broken, ContentBroken
  <2>2. ASSUME NEW v \in vouched, NEW r \in rows, r.hash = v.hash PROVE Found(v)
    <3>1. r.hash = Digest(r.prev, r.body) /\ v.hash = Digest(v.prev, v.body)
      BY <1>1, <2>1 DEF VouchInv
    <3>2. Digest(r.prev, r.body) = Digest(v.prev, v.body)
      BY <2>2, <3>1
    <3>3. r.prev = v.prev /\ r.body = v.body
      BY <3>2, DigestInjective
    <3>4. QED
      BY <2>2, <3>3
  <2>3. ASSUME NEW a \in anchor PROVE \E r \in rows : r.hash = a.hash
    <3>1. AnchorStatus(a) = "HELD"
      BY DEF Intact
    <3>2. QED
      BY <3>1, HeldIsFound
  <2> DEFINE Lost == {v \in vouched : ~Found(v)}
  <2>4. last \in Nat /\ \A v \in Lost : v.seq \in 0..last
    BY <1>1 DEF IInv, TypeOK, VouchInv
  <2> HIDE DEF Found
  <2>5. Lost = {}
    <3> SUFFICES ASSUME Lost # {} PROVE FALSE
      OBVIOUS
    <3> DEFINE v == Highest(Lost)
    <3>1. v \in Lost /\ \A q \in Lost : q.seq <= v.seq
      BY <2>4, HighestIs
    <3> HIDE DEF v
    <3>2. \A r \in rows : r.hash # v.hash
      BY <2>2, <3>1
    <3>3. PICK u \in vouched : v.seq < u.seq /\ u.prev = v.hash
      BY <1>1, <2>3, <3>1, <3>2 DEF VouchInv
    <3>4. u.seq \in 0..last /\ v.seq \in 0..last
      BY <1>1, <3>1 DEF VouchInv
    <3>5. Found(u)
      BY <2>4, <3>1, <3>3, <3>4
    <3>6. PICK r \in rows : r.prev = v.hash
      BY <3>3, <3>5 DEF Found
    <3>7. v.hash # Genesis
      BY <1>1, <3>1, NeverGenesis DEF VouchInv
    <3>8. QED
      BY <2>1, <3>2, <3>6, <3>7 DEF LinkBroken, Known
  <2>6. ASSUME NEW v \in vouched PROVE \E r \in rows : [r EXCEPT !.seq = v.seq] = v
    <3>1. PICK r \in rows : r.hash = v.hash /\ r.prev = v.prev /\ r.body = v.body
      BY <2>5 DEF Found
    <3>2. r = [seq |-> r.seq, prev |-> r.prev, body |-> r.body, hash |-> r.hash]
      <4>1. PICK w \in Writers : TRUE
        OBVIOUS
      <4>2. QED
        BY <1>1, <4>1 DEF IInv, TypeOK, Kept
    <3>3. v = [seq |-> v.seq, prev |-> v.prev, body |-> v.body, hash |-> v.hash]
      BY <1>1 DEF VouchInv
    <3>4. [r EXCEPT !.seq = v.seq] = v
      BY <3>1, <3>2, <3>3
    <3>5. QED
      BY <3>4
  <2>7. QED
    BY <2>6
<1>2. QED
  BY LedgerInvariant, VouchInduction, <1>1, PTL
=============================================================================
