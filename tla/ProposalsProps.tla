--------------------------- MODULE ProposalsProps ---------------------------
(* What triage and the selector index promise. *)
EXTENDS Proposals

QueueTypes ==
    /\ state \in [Proposed -> {"none", "PROPOSED", "ACCEPTED", "REJECTED", "DISPUTED"}]
    /\ applied \in [Proposed -> Entities \cup {Nobody}]
GraphTypes ==
    /\ life \in [Entities -> {"none", "open", "live", "retired"}]
    /\ label \in [Entities -> Values \cup {Nobody}]
    /\ origin \in [Entities -> Proposed \cup {NoProposal}]
IndexTypes ==
    /\ indexed \subseteq Values /\ owner \in [Values -> Entities \cup {Nobody}]
    /\ draft \in [Values -> Entities \cup {Nobody}]
    /\ raced \subseteq Values /\ left \subseteq Values
LockTypes == locks \subseteq Calls \X (Proposed \cup Entities \cup Values)
CallTypes ==
    /\ pc \in [Calls -> {"idle", "land", "propose", "accept", "record", "commit", "dispose",
                         "edit", "retire", "hand", "relabel"}]
    /\ act \in [Calls -> {"none", "capture", "accept", "enter", "REJECTED", "DISPUTED",
                          "retire", "relabel"}]
    /\ prop \in [Calls -> Proposed \cup {NoProposal}]
    /\ node \in [Calls -> Entities \cup {Nobody}]
    /\ word \in [Calls -> Values \cup Texts \cup {Nobody}]
DeskTypes ==
    /\ documents \in [Texts -> Nat] /\ pastes \in 0..MaxPastes
    /\ paste \in [Calls -> 0..MaxPastes]
    /\ todo \in [Calls -> SUBSET Values] /\ fresh \in [Calls -> SUBSET Values]
    /\ met \subseteq SUBSET (1..MaxPastes)
TypeOK == QueueTypes /\ GraphTypes /\ IndexTypes /\ LockTypes /\ CallTypes /\ DeskTypes

\* However many reviewers accept a proposal at once, it brings one entity
\* into the case, and the proposal points at it for ever: no accept leaves an
\* entity that nothing accounts for.
BornOnce == \A p \in Proposed :
    /\ {n \in Entities : life[n] \in {"live", "retired"} /\ origin[n] = p} = {applied[p]} \ {Nobody}
    /\ state[p] = "ACCEPTED" => applied[p] # Nobody

\* The index finds the entity: a row's owner is live and carries its value,
\* and a value that a live entity carries is not owned by nobody, in whatever
\* order accepts, entries, corrections and retirements meet on its row.  Two
\* exceptions: a row that a retirement handed to an entity while that one was
\* corrected or retired, and the row of a value whose owner was relabelled
\* with another entity carrying it.
IndexTells == \A v \in Values \ raced :
    /\ owner[v] # Nobody => owner[v] \in Carriers(v)
    /\ Carriers(v) # {} /\ owner[v] = Nobody => v \in left

\* No automatic merge: whoever records a selector, an entity that is live and
\* keeps its label keeps the row it owns.
FirstOwnerKept == [][
    \A v \in Values : \A n \in Carriers(v) :
        owner[v] = n /\ life'[n] = "live" /\ label'[n] = v => owner'[v] = n]_vars

\* Pasting a text again asks nothing again, whatever became of what the first
\* paste asked, unless the two pastes overlapped.
AskedOnce ==
    /\ \A p, q \in Proposed :
          p[2] = q[2] /\ p[1] # q[1] /\ state[p] # "none" /\ state[q] # "none" => {p[1], q[1]} \in met
    /\ \A t \in Texts : documents[t] <= 1 \/ met # {}

\* An accepted proposal is not dispositioned again: the entity it brought in
\* keeps the record of where it came from.
ElementKeepsItsRecord == \A p \in Proposed : applied[p] # Nobody => state[p] = "ACCEPTED"

-----------------------------------------------------------------------------
(* Why they hold: IInv is inductive                                        *)

\* With an entity of its own, not committed; with the row of one that is.
Opening(c) == act[c] \in {"accept", "enter"} /\ pc[c] \in {"record", "commit"}
Editing(c) == act[c] \in {"retire", "relabel"} /\ pc[c] \notin {"idle", "edit"}
\* About to write a value's row, or having written it.
Writing(c) == pc[c] \in {"record", "commit"} /\ act[c] # "retire"

\* Where a call is tells what it is for.
Job == \A c \in Calls :
    /\ pc[c] = "idle" <=> act[c] = "none"
    /\ act[c] = "capture" => pc[c] \in {"land", "propose"} /\ word[c] \in Texts
    /\ act[c] = "accept" => /\ pc[c] \in {"accept", "record", "commit"}
                            /\ prop[c] \in Proposed /\ word[c] = prop[c][2]
    /\ act[c] = "enter" => pc[c] \in {"record", "commit"} /\ word[c] \in Values
    /\ act[c] \in {"REJECTED", "DISPUTED"} => pc[c] = "dispose" /\ prop[c] \in Proposed
    /\ act[c] = "retire" => pc[c] \in {"edit", "retire", "hand", "commit"} /\ node[c] \in Entities
    /\ act[c] = "relabel" => /\ pc[c] \in {"edit", "relabel", "record", "commit"}
                             /\ node[c] \in Entities /\ word[c] \in Values
    /\ prop[c] # NoProposal => act[c] \in {"accept", "REJECTED", "DISPUTED"} /\ state[prop[c]] # "none"

\* One transaction at a time has a row, and only those it needs where it is.
Alone == \A r \in Proposed \cup Entities \cup Values : \A c, d \in Calls :
    Holds(c, r) /\ Holds(d, r) => c = d
LocksAt == \A c \in Calls :
    /\ \A p \in Proposed : Holds(c, p) <=> act[c] = "accept" /\ Opening(c) /\ prop[c] = p
    /\ \A n \in Entities : Holds(c, n) <=> Editing(c) /\ node[c] = n
    /\ \A v \in Values : Holds(c, v) => \/ Writing(c) /\ pc[c] = "commit" /\ word[c] = v
                                        \/ Writing(c) /\ act[c] = "relabel" /\ word[c] # v
                                        \/ act[c] = "retire" /\ pc[c] \in {"hand", "commit"}
    /\ Writing(c) /\ pc[c] = "commit" => Holds(c, word[c])

\* An entity that is not committed is one call's, for its proposal if it has one.
Born ==
    /\ \A c \in Calls : Opening(c) =>
         /\ node[c] \in Entities /\ life[node[c]] = "open" /\ label[node[c]] = word[c]
         /\ origin[node[c]] = (IF act[c] = "accept" THEN prop[c] ELSE NoProposal)
    /\ \A c \in Calls : Editing(c) => life[node[c]] = "live"
    /\ \A n \in Entities : IF life[n] = "none" THEN origin[n] = NoProposal ELSE label[n] \in Values
    /\ \A c, d \in Calls : Opening(c) /\ Opening(d) /\ node[c] = node[d] => c = d

\* A proposal and the entity it brought in name each other.
Paired == \A p \in Proposed :
    /\ \A n \in Entities : life[n] \in {"live", "retired"} /\ origin[n] = p <=> applied[p] = n
    /\ state[p] \in {"none", "PROPOSED"} => applied[p] = Nobody
    /\ state[p] = "ACCEPTED" => applied[p] # Nobody
    /\ \A c \in Calls : act[c] = "accept" /\ Opening(c) /\ prop[c] = p => state[p] = "PROPOSED"

\* Pastes in progress overlap, and have asked nothing yet.
Pasting ==
    /\ \A c \in Calls : (paste[c] # 0 <=> act[c] = "capture") /\ paste[c] <= pastes
    /\ \A c \in Calls : paste[c] = 0 => todo[c] = {} /\ fresh[c] = {}
    /\ \A c, d \in Calls : c # d /\ paste[c] # 0 /\ paste[d] # 0 =>
         paste[c] # paste[d] /\ {paste[c], paste[d]} \in met
    /\ \A p \in Proposed : state[p] # "none" => p[1] <= pastes /\ \A c \in Calls : p[1] # paste[c]

\* What a paste is about to ask nobody asked, unless beside it.
Fresh ==
    /\ \A c \in Calls : \A q \in Proposed :
         q[2] \in fresh[c] /\ state[q] # "none" => {q[1], paste[c]} \in met
    /\ \A c \in Calls : pc[c] = "land" => documents[word[c]] = 0 \/ met # {}

\* A row's draft is for its locker alone, and says whose the row will be.
Drafts ==
    /\ \A v \in Values : Free(v) => draft[v] = Nobody
    /\ \A c \in Calls : \A v \in Values : Holds(c, v) =>
         /\ act[c] # "retire" /\ word[c] = v => \/ draft[v] = owner[v] /\ owner[v] # Nobody
                                                \/ /\ draft[v] = node[c]
                                                   /\ owner[v] # Nobody => life[owner[v]] = "retired"
         /\ act[c] = "relabel" /\ word[c] # v => /\ draft[v] = Nobody
                                                 /\ owner[v] = node[c] /\ label[node[c]] = v
         /\ act[c] = "retire" => owner[v] = node[c] /\ draft[v] # node[c]

\* An owner that goes has its rows; who is handed one keeps still.
Handing == \A c \in Calls : \A v \in Values \ raced :
    /\ act[c] = "retire" /\ Holds(c, v) => /\ pc[c] = "hand" => draft[v] = Nobody
                                           /\ draft[v] # Nobody => draft[v] \in Carriers(v) /\ Free(draft[v])
                                           /\ pc[c] = "commit" /\ draft[v] = Nobody => Carriers(v) \subseteq {node[c]}
    /\ owner[v] = node[c] /\ node[c] # Nobody =>
         /\ act[c] = "retire" /\ pc[c] \in {"hand", "commit"} => Holds(c, v)
         /\ act[c] = "relabel" /\ Writing(c) /\ word[c] # v => Holds(c, v)

IInv == /\ TypeOK /\ Job /\ Alone /\ LocksAt /\ Born /\ Paired /\ Pasting /\ Fresh
        /\ AskedOnce /\ Drafts /\ Handing /\ IndexTells
=============================================================================
