-------------------------- MODULE CaseSwitchProps --------------------------
(* What the second signature on a case's merges promises. *)
EXTENDS CaseSwitch

Places == {"idle", "insert", "decide", "mode", "switch", "alone", "approval", "spend",
           "tighten", "policyMode", "policySigner", "relax"}

RowTypes ==
    /\ state \in [Requests -> {"NONE", "PENDING", "APPROVED", "REJECTED",
                               "WITHDRAWN", "CONSUMED"}]
    /\ what \in [Requests -> Payloads \cup {Nothing}]
    /\ by \in [Requests -> Users \cup {NoUser}]
    /\ signer \in [Requests -> Users \cup {NoUser}]
    /\ left \in [Requests -> 0..TTL]
    /\ since \in [Requests -> 0..TTL]

CaseTypes ==
    /\ on \in BOOLEAN
    /\ epoch \in 0..(MaxEpoch + 1)
    /\ mode \in {"PER_CASE", "ALWAYS"}
    /\ held \in [Users -> {NotHeld} \cup Clocks]
    /\ merged \subseteq Pairs
    /\ uses \in [Requests -> Nat]
    /\ late \subseteq Requests /\ fresh \subseteq Requests

CallTypes ==
    /\ pc \in [Calls -> Places]
    /\ actor \in [Calls -> Users \cup {NoUser}]
    /\ req \in [Calls -> Requests \cup {NoRequest}]
    /\ arg \in [Calls -> Payloads \cup {Nothing}]
    /\ yes \in [Calls -> BOOLEAN]

TypeOK == RowTypes /\ CaseTypes /\ CallTypes

\* An approval is spent with what it authorises or not at all: whatever calls
\* present it at once, and however many merges fail under it, it is CONSUMED
\* exactly when one operation committed under it.
SpentOnce == \A r \in Requests : uses[r] = (IF state[r] = "CONSUMED" THEN 1 ELSE 0)

\* Turning the switch off takes two people and this very "on": an approval
\* raised before the switch went off and on again is not enough.
OffByTwoForThisOn ==
    [][on /\ ~on' => \E r \in Requests :
          /\ state[r] = "APPROVED" /\ state'[r] = "CONSUMED"
          /\ what[r] = Relax(epoch)
          /\ signer[r] \notin {by[r], NoUser}]_vars

\* A decision that landed after the request had expired is worth nothing.
LateDecisionIsWorthless == \A r \in late : state[r] # "CONSUMED"

\* The second person on a relaxation had held the case for the window when
\* they signed, even if they lost and regained it between the check and the
\* signature, or since: "the spend is judged again at the instant they
\* approved".
SignedBySeasoned == \A r \in fresh : state[r] # "CONSUMED"

\* A request is decided once: a withdrawn or rejected one never comes back,
\* and who decided never changes, whatever races.
DecidedOnce ==
    [][\A r \in Requests :
          /\ state[r] \in {"REJECTED", "WITHDRAWN", "CONSUMED"} => state'[r] = state[r]
          /\ signer[r] # NoUser => signer'[r] = signer[r]]_vars

\* "Under ALWAYS a case cannot turn it off at all."  A relaxation that read the
\* mode before it changed breaks this; no run checks it.
NeverRelaxedUnderAlways == [][on /\ ~on' => mode # "ALWAYS"]_vars

-----------------------------------------------------------------------------
(* The calls implement the second signature as it is promised. *)

Ticket == [r \in Requests |->
    CASE state[r] = "NONE" -> "none"
      [] state[r] = "PENDING" -> "asked"
      [] state[r] = "APPROVED" -> "signed"
      [] state[r] = "CONSUMED" -> "used"
      [] OTHER -> "dead"]

EraOf == [r \in Requests |-> IF what[r] \in RelaxPayloads THEN what[r].epoch ELSE 0]

Promise == INSTANCE SecondSignature WITH
    Tickets <- Requests, Eras <- 0..MaxEpoch,
    ticket <- Ticket, era <- EraOf, on <- on, now <- epoch

\* Every step of the calls is a step of the promise, or one it does not see.
KeepsThePromise == Promise!Spec

-----------------------------------------------------------------------------
(* The inductive invariant of the proofs. *)

\* Who decided a request is on its row from the decision on, and is not its asker.
RowInv == \A r \in Requests :
    /\ state[r] \in {"NONE", "PENDING", "WITHDRAWN"} => signer[r] = NoUser
    /\ state[r] \in {"APPROVED", "REJECTED", "CONSUMED"} => signer[r] \in Users \ {by[r]}

\* What a call has read stays true of rows that only move forward.
CallInv == \A c \in Calls :
    /\ pc[c] \in {"insert", "decide"} => actor[c] \in Users
    /\ pc[c] \in {"decide", "spend", "policySigner", "relax"} => req[c] \in Requests
    /\ pc[c] = "insert" => arg[c] \in Payloads
    /\ pc[c] = "insert" /\ arg[c] \in RelaxPayloads => arg[c].epoch <= epoch
    /\ pc[c] \in {"mode", "switch", "alone"} => arg[c] \in MergePayloads
    /\ pc[c] = "decide" => state[req[c]] # "NONE" /\ by[req[c]] # actor[c]

\* A late decision is approved or rejected on a row whose time is up.
LateInv == \A r \in late : state[r] \in {"APPROVED", "REJECTED"} /\ Expired(r)

EpochInv == on => epoch <= MaxEpoch

SwitchInv == TypeOK /\ RowInv /\ CallInv /\ LateInv /\ EpochInv /\ SpentOnce

\* While calls come one at a time: a relaxation approved by an unseasoned
\* account stays refused as long as it could be spent, because the two clocks
\* the rule compares run alike until it expires.
FreshInv == \A r \in fresh :
    /\ what[r] \in RelaxPayloads /\ signer[r] \in Users /\ state[r] \in {"APPROVED", "REJECTED"}
    /\ Expired(r) \/ (since[r] + left[r] <= TTL /\ ~Seasoned(signer[r], since[r]))
RelaxInv == \A c \in Calls : pc[c] = "relax" /\ req[c] \in fresh => Expired(req[c])
SeasonInv == SwitchInv /\ FreshInv /\ RelaxInv
=============================================================================
