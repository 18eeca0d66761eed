----------------------------- MODULE Proposals -----------------------------
(***************************************************************************)
(* Triage (extraction.py, proposals.py) and the selector index it feeds    *)
(* (selectors.py, graph.py): a paste raises proposals for the selectors it *)
(* holds, reviewers accept, reject or defer them, an accept creates an     *)
(* entity and records its selector, and entities are entered by hand,      *)
(* relabelled and retired beside it.                                       *)
(*                                                                         *)
(* One case, whose material is all at one label, and one selector type.    *)
(* A call's statements read what is committed; its own writes are in       *)
(* `draft' and in what its step says of its entity until it commits.       *)
(* Proposals are of a NODE whose label is a selector; an EDGE or ATTRIBUTE *)
(* is accepted by the same steps with no row to record.  Merges, and       *)
(* selectors recorded by themselves, are left out.                         *)
(***************************************************************************)
EXTENDS Naturals, FiniteSets

CONSTANTS
    Calls,      \* requests in progress
    Values,     \* canonical forms of selectors
    Entities,   \* ids of core.node rows
    Texts,      \* what may be pasted
    HitsOf,     \* [Texts -> SUBSET Values]: the selectors found in each
    MaxPastes   \* bound on pastes

Nobody == "nobody"

ASSUME TriageAssumption ==
    /\ HitsOf \in [Texts -> SUBSET Values] /\ MaxPastes \in Nat
    /\ Nobody \notin Calls \cup Entities \cup Values

Proposed == (1..MaxPastes) \X Values     \* one for each value a paste raises
NoProposal == <<0, Nobody>>

\* The rows of three tables.
ASSUME RowAssumption == Values \cap Entities = {} /\ Proposed \cap (Values \cup Entities) = {}

VARIABLES
    state,      \* of each proposal; "none" until it is raised
    applied,    \* applied_node_id
    life,       \* of each entity: "none", "open" (not committed), "live", "retired"
    label,
    origin,     \* ghost: the proposal an entity was created for
    indexed,    \* values core.selector has a row for
    owner,      \* core.selector.node_id
    documents,  \* live documents of each text
    pastes,     \* so far
    locks,      \* row locks: <<call, row>>
    draft,      \* the owner a row's locker has given it, not committed
    pc, act,    \* what each call does next, and for whom
    prop, node, word, paste, todo, fresh,
    raced,      \* ghost: values whose row was handed to an entity that was being edited
    left,       \* ghost: values a relabelled owner let go while another entity carried them
    met         \* ghost: pairs of pastes that overlapped

graph  == <<life, label, origin>>
index  == <<indexed, owner, draft>>
queue  == <<state, applied>>
desk   == <<documents, pastes, paste, todo, fresh, met>>
ghosts == <<raced, left>>
job    == <<act, prop, node, word>>
vars   == <<state, applied, life, label, origin, indexed, owner, documents, pastes, locks, draft,
            pc, act, prop, node, word, paste, todo, fresh, raced, left, met>>

Row(r) == {l \in locks : l[2] = r}
Free(r) == Row(r) = {}
Lock(c, r) == locks' = locks \cup {<<c, r>>}
Holds(c, r) == <<c, r>> \in locks
Set(f, c, v) == [f EXCEPT ![c] = v]
Goto(c, l) == pc' = Set(pc, c, l)
Begin(c, a, p, n, v) ==
    /\ act' = Set(act, c, a) /\ prop' = Set(prop, c, p)
    /\ node' = Set(node, c, n) /\ word' = Set(word, c, v)

\* Committed or rolled back.
End(c) ==
    /\ Goto(c, "idle") /\ Begin(c, "none", NoProposal, Nobody, Nobody)
    /\ locks' = {l \in locks : l[1] # c}
    /\ draft' = [v \in Values |-> IF Holds(c, v) THEN Nobody ELSE draft[v]]

Carriers(v) == {n \in Entities : life[n] = "live" /\ label[n] = v}

Init ==
    /\ state = [p \in Proposed |-> "none"] /\ applied = [p \in Proposed |-> Nobody]
    /\ life = [n \in Entities |-> "none"] /\ label = [n \in Entities |-> Nobody]
    /\ origin = [n \in Entities |-> NoProposal]
    /\ indexed = {} /\ owner = [v \in Values |-> Nobody] /\ draft = [v \in Values |-> Nobody]
    /\ documents = [t \in Texts |-> 0] /\ pastes = 0 /\ locks = {}
    /\ pc = [c \in Calls |-> "idle"] /\ act = [c \in Calls |-> "none"]
    /\ prop = [c \in Calls |-> NoProposal] /\ node = [c \in Calls |-> Nobody]
    /\ word = [c \in Calls |-> Nobody] /\ paste = [c \in Calls |-> 0]
    /\ todo = [c \in Calls |-> {}] /\ fresh = [c \in Calls |-> {}]
    /\ raced = {} /\ left = {} /\ met = {}

-----------------------------------------------------------------------------
(* A paste: its document, and in a second transaction its proposals        *)

\* The document of an identical text is read without a lock.
BeginCapture(c, t) ==
    /\ pc[c] = "idle" /\ pastes < MaxPastes
    /\ pastes' = pastes + 1 /\ paste' = Set(paste, c, pastes + 1)
    /\ todo' = Set(todo, c, HitsOf[t]) /\ fresh' = Set(fresh, c, {})
    /\ met' = met \cup {{paste[d], pastes + 1} : d \in {d \in Calls : paste[d] # 0}}
    /\ Begin(c, "capture", NoProposal, Nobody, t)
    /\ Goto(c, IF documents[t] = 0 THEN "land" ELSE "propose")
    /\ UNCHANGED <<queue, graph, index, documents, locks, ghosts>>

Land(c) ==
    /\ pc[c] = "land"
    /\ documents' = Set(documents, word[c], documents[word[c]] + 1)
    /\ Goto(c, "propose")
    /\ UNCHANGED <<queue, graph, index, pastes, paste, todo, fresh, met, locks, job, ghosts>>

\* A value is not asked about when the case's index has it, or a proposal in
\* any state does.
Waiting(v) == \E p \in Proposed : p[2] = v /\ state[p] = "PROPOSED"      \* a mutant
Queued(v) == \E p \in Proposed : p[2] = v /\ state[p] # "none"

ReadHit(c, v) ==
    /\ pc[c] = "propose" /\ v \in todo[c]
    /\ todo' = Set(todo, c, todo[c] \ {v})
    /\ fresh' = IF v \in indexed \/ Queued(v) THEN fresh ELSE Set(fresh, c, fresh[c] \cup {v})
    /\ UNCHANGED <<queue, graph, index, documents, pastes, paste, met, locks, pc, job, ghosts>>

EndCapture(c) ==
    /\ paste' = Set(paste, c, 0) /\ todo' = Set(todo, c, {}) /\ fresh' = Set(fresh, c, {})
    /\ End(c)

Propose(c) ==
    /\ pc[c] = "propose" /\ todo[c] = {}
    /\ state' = [p \in Proposed |-> IF p[1] = paste[c] /\ p[2] \in fresh[c]
                                    THEN "PROPOSED" ELSE state[p]]
    /\ EndCapture(c)
    /\ UNCHANGED <<applied, graph, indexed, owner, documents, pastes, met, ghosts>>

\* The process dies before the proposals' transaction commits.
CaptureDies(c) ==
    /\ pc[c] \in {"land", "propose"} /\ EndCapture(c)
    /\ UNCHANGED <<queue, graph, indexed, owner, documents, pastes, met, ghosts>>

-----------------------------------------------------------------------------
(* Accepting: the state is read, and read again under the row's lock; the  *)
(* entity, its row of the index and the proposal are one transaction       *)

AnyState(p) == TRUE                                                      \* a mutant
Pending(p) == state[p] = "PROPOSED"

BeginAccept(c, p) ==
    /\ pc[c] = "idle" /\ Pending(p) /\ state[p] # "none"
    /\ Begin(c, "accept", p, Nobody, p[2]) /\ Goto(c, "accept")
    /\ UNCHANGED <<queue, graph, index, desk, locks, ghosts>>

LockProposal(c) ==
    LET p == prop[c]
    IN /\ pc[c] = "accept" /\ Free(p)
       /\ \/ /\ ~Pending(p) /\ End(c) /\ UNCHANGED graph
          \/ /\ Pending(p) /\ Lock(c, p) /\ Goto(c, "record")
             /\ \E n \in Entities :
                   /\ life[n] = "none" /\ life' = Set(life, n, "open")
                   /\ label' = Set(label, n, word[c]) /\ origin' = Set(origin, n, p)
                   /\ node' = Set(node, c, n)
             /\ UNCHANGED <<draft, act, prop, word>>
       /\ UNCHANGED <<queue, indexed, owner, desk, ghosts>>

\* An entity entered by hand is created with its selector in one transaction.
Enter(c, v) ==
    /\ pc[c] = "idle"
    /\ \E n \in Entities :
          /\ life[n] = "none" /\ life' = Set(life, n, "open")
          /\ label' = Set(label, n, v)
          /\ Begin(c, "enter", NoProposal, n, v)
    /\ Goto(c, "record")
    /\ UNCHANGED <<queue, origin, index, desk, locks, ghosts>>

\* ON CONFLICT: the first owner stays.  `record' takes the row from an owner
\* that is retired, `record_for_reader' only one that nobody owns.
Repointed(c, v) == node[c]                                               \* a mutant
Upserted(c, v) ==
    IF owner[v] = Nobody \/ (act[c] # "enter" /\ life[owner[v]] = "retired")
    THEN node[c] ELSE owner[v]

Record(c) ==
    LET v == word[c]
    IN /\ pc[c] = "record" /\ (Free(v) \/ Holds(c, v))
       /\ Lock(c, v) /\ draft' = Set(draft, v, Upserted(c, v))
       /\ Goto(c, "commit")
       /\ UNCHANGED <<queue, graph, indexed, owner, desk, job, ghosts>>

-----------------------------------------------------------------------------
(* Rejecting and deferring: the state is read once, without a lock, and    *)
(* the UPDATE names the proposal by its id alone                           *)

BeginDisposition(c, p, s) ==
    /\ pc[c] = "idle" /\ state[p] \notin {"none", "ACCEPTED"}
    /\ Begin(c, s, p, Nobody, Nobody) /\ Goto(c, "dispose")
    /\ UNCHANGED <<queue, graph, index, desk, locks, ghosts>>

Dispose(c) ==
    /\ pc[c] = "dispose" /\ Free(prop[c])
    /\ state' = Set(state, prop[c], act[c])
    /\ End(c)
    /\ UNCHANGED <<applied, graph, indexed, owner, desk, ghosts>>

-----------------------------------------------------------------------------
(* Retiring and relabelling an entity                                      *)

BeginEdit(c, n, v) ==
    /\ pc[c] = "idle" /\ life[n] = "live"
    /\ Begin(c, IF v = Nobody THEN "retire" ELSE "relabel", NoProposal, n, v)
    /\ Goto(c, "edit")
    /\ UNCHANGED <<queue, graph, index, desk, locks, ghosts>>

LockNode(c) ==
    LET n == node[c]
    IN /\ pc[c] = "edit" /\ Free(n)
       /\ IF life[n] = "live"
          THEN /\ Lock(c, n) /\ Goto(c, act[c])
               /\ raced' = raced \cup {v \in Values : draft[v] = n /\ owner[v] # n}
               /\ UNCHANGED <<draft, job>>
          ELSE End(c) /\ UNCHANGED raced
       /\ UNCHANGED <<queue, graph, indexed, owner, desk, left>>

\* release_node: the rows the entity owns go free ...
Release(c) ==
    LET own == {v \in Values : owner[v] = node[c]}
    IN /\ pc[c] = "retire" /\ \A v \in own : Free(v)
       /\ locks' = locks \cup {<<c, v>> : v \in own}
       /\ Goto(c, IF own = {} THEN "commit" ELSE "hand")
       /\ UNCHANGED <<queue, graph, index, desk, job, ghosts>>

\* ... and the row of its own value goes to another that carries it.
NoTwin(c) == {}                                                         \* a mutant
Twins(c) == Carriers(label[node[c]]) \ {node[c]}

Hand(c) ==
    LET v == label[node[c]]
    IN /\ pc[c] = "hand" /\ Goto(c, "commit")
       /\ \/ Twins(c) = {} /\ UNCHANGED <<draft, raced>>
          \/ ~Holds(c, v) /\ UNCHANGED <<draft, raced>>
          \/ \E n \in Twins(c) :
                /\ Holds(c, v) /\ draft' = Set(draft, v, n)
                /\ raced' = IF Free(n) THEN raced ELSE raced \cup {v}
       /\ UNCHANGED <<queue, graph, indexed, owner, desk, locks, job, left>>

\* follow_label: the old value's row goes free, and the new value is recorded.
LetGo(c) ==
    LET n == node[c]
        v == label[n]
    IN /\ pc[c] = "relabel" /\ Goto(c, "record")
       /\ IF v # word[c] /\ owner[v] = n
          THEN Free(v) /\ Lock(c, v)
          ELSE UNCHANGED locks
       /\ UNCHANGED <<queue, graph, index, desk, job, ghosts>>

-----------------------------------------------------------------------------
Commit(c) ==
    LET n == node[c]
        rows == {v \in Values : Holds(c, v)}
    IN /\ pc[c] = "commit"
       /\ owner' = [v \in Values |-> IF v \in rows THEN draft[v] ELSE owner[v]]
       /\ indexed' = indexed \cup rows
       /\ left' = {v \in rows : act[c] = "relabel" /\ owner'[v] = Nobody} \cup (left \ rows)
       /\ life' = Set(life, n, IF act[c] = "retire" THEN "retired" ELSE "live")
       /\ label' = IF act[c] = "retire" THEN label ELSE Set(label, n, word[c])
       /\ IF act[c] = "accept"
          THEN /\ Pending(prop[c])
               /\ state' = Set(state, prop[c], "ACCEPTED")
               /\ applied' = Set(applied, prop[c], n)
          ELSE UNCHANGED queue
       /\ End(c)
       /\ UNCHANGED <<origin, desk, raced>>

\* Refused by the ontology, the labels or the case; a deadlock broken by the
\* database; or the process dies.
Rollback(c) ==
    LET n == node[c]
    IN /\ pc[c] \in {"record", "retire", "hand", "relabel", "commit"}
       /\ IF act[c] \in {"accept", "enter"}
          THEN /\ life' = Set(life, n, "none") /\ label' = Set(label, n, Nobody)
               /\ origin' = Set(origin, n, NoProposal)
          ELSE UNCHANGED graph
       /\ End(c)
       /\ UNCHANGED <<queue, indexed, owner, desk, ghosts>>

-----------------------------------------------------------------------------
Next ==
    \E c \in Calls :
          \/ \E t \in Texts : BeginCapture(c, t)
          \/ \E p \in Proposed : BeginAccept(c, p) \/
                                 \E s \in {"REJECTED", "DISPUTED"} : BeginDisposition(c, p, s)
          \/ \E v \in Values : Enter(c, v) \/ ReadHit(c, v)
          \/ \E n \in Entities, v \in Values \cup {Nobody} : BeginEdit(c, n, v)
          \/ Land(c) \/ Propose(c) \/ CaptureDies(c)
          \/ LockProposal(c) \/ Record(c) \/ Dispose(c)
          \/ LockNode(c) \/ Release(c) \/ Hand(c) \/ LetGo(c)
          \/ Commit(c) \/ Rollback(c)

Spec == Init /\ [][Next]_vars
=============================================================================
