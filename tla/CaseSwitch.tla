----------------------------- MODULE CaseSwitch -----------------------------
(***************************************************************************)
(* Four-eyes approval of one case's merges: core.approval_request (0028,   *)
(* 0074), the case's merge switch and its epoch (0076), the deployment's   *)
(* mode, and the HTTP calls that raise, decide, withdraw and spend a       *)
(* request (approvals.py, routers/approvals.py, routers/merges.py).        *)
(*                                                                         *)
(* Connections are autocommit: a statement outside a transaction is one    *)
(* step, and so is a transaction, whose writes hold their rows' locks to   *)
(* its commit.  Between two steps of a call anything else may happen.      *)
(*                                                                         *)
(* Time is kept per row: left[r] is expires_at - now, counted down to 0    *)
(* (expired); since[r] is now - decided_at, counted up to TTL; held[u] is  *)
(* now - granted_at of u's assignment, counted up to TTL + Window, after   *)
(* which no comparison can change.                                         *)
(***************************************************************************)
EXTENDS Integers

CONSTANTS
    Requests,  \* ids of approval rows; a row is never deleted
    Users,     \* accounts
    Pairs,     \* (source, target) pairs of entities a merge can name
    Calls,     \* HTTP calls in progress
    TTL,       \* Operation.ttl, in ticks
    Window,    \* relax_seasoning_days(), in ticks
    MaxEpoch   \* bound on the changes of the switch

NoRequest == "no request"
NoUser    == "no user"
NotHeld   == -1          \* no live assignment to the case

ASSUME ClockAssumption == TTL \in Nat \ {0} /\ Window \in Nat /\ MaxEpoch \in Nat
ASSUME NullAssumption == NoRequest \notin Requests /\ NoUser \notin Users

Merge(p) == [op |-> "node.merge", pair |-> p]
Relax(e) == [op |-> "case.policy.relax", epoch |-> e]     \* relax_payload
Nothing  == [op |-> "nothing"]

MergePayloads == {Merge(p) : p \in Pairs}
RelaxPayloads == {Relax(e) : e \in 0..MaxEpoch}
Payloads == MergePayloads \cup RelaxPayloads

Clocks == 0..(TTL + Window)

VARIABLES
    state, what, by, signer, left, since,     \* core.approval_request
    on, epoch,                                \* dual_control_merge and its epoch
    mode,                                     \* iam.dual_control_operation
    held,                                     \* iam.case_assignment
    merged,                                   \* pairs with a live merge
    pc, actor, req, arg, yes,                 \* the calls
    uses,     \* ghost: merges made, or switches set, under each request
    late,     \* ghost: requests decided after they expired
    fresh     \* ghost: relax requests approved by an unseasoned account

rows  == <<state, what, by, signer, left, since>>
call  == <<actor, req, arg, yes>>
ghost == <<uses, late, fresh>>
case  == <<on, epoch, merged>>
vars  == <<state, what, by, signer, left, since, on, epoch, mode, held, merged,
           pc, actor, req, arg, yes, uses, late, fresh>>

-----------------------------------------------------------------------------
Expired(r) == left[r] = 0
Held(u)    == held[u] # NotHeld

\* The same payload is waiting for a decision: approval_one_pending_per_payload.
AwaitingTwin(w) == \E r \in Requests : state[r] = "PENDING" /\ what[r] = w

\* assignment_block: how long the signer had held the case, ago ticks back.
\* With a window of 0 the rule is off and is not asked.
Seasoned(u, ago) == Window = 0 \/ (Held(u) /\ held[u] - ago >= Window)

\* The rows the UPDATEs keep.
DecideAnyOpen(r) == state[r] \in {"PENDING", "WITHDRAWN"}                \* a mutant
Undecided(r) == state[r] = "PENDING"

SpendAgain(r, u, op) == state[r] \in {"APPROVED", "CONSUMED"} /\ ~Expired(r)
                        /\ by[r] = u /\ what[r].op = op                  \* a mutant
SpendExpired(r, u, op) == state[r] = "APPROVED" /\ by[r] = u /\ what[r].op = op \* a mutant
Consumable(r, u, op) ==
    /\ state[r] = "APPROVED" /\ ~Expired(r)
    /\ by[r] = u /\ what[r].op = op

\* refuse_unseasoned_spend: silent for a request nobody has decided.
SpendUnasked(r) == TRUE                                                  \* a mutant
SignedSeasoned(r) == signer[r] = NoUser \/ Seasoned(signer[r], since[r])

\* guard_case_merge_switch, of an UPDATE that turns the switch off.
AnyRelax(r) == TRUE                                                      \* a mutant
ForThisEpoch(r) == what[r] = Relax(epoch)

\* Its last line: the epoch moves by one with every change of the switch, and
\* an UPDATE that sets what is set already does not fire the trigger.
EpochAfter(v) == IF v = on THEN epoch ELSE epoch + 1

Goto(c, l) == pc' = [pc EXCEPT ![c] = l]

\* The call answers: its locals are gone.
Answer(c) ==
    /\ Goto(c, "idle")
    /\ actor' = [actor EXCEPT ![c] = NoUser]
    /\ req' = [req EXCEPT ![c] = NoRequest]
    /\ arg' = [arg EXCEPT ![c] = Nothing]
    /\ yes' = [yes EXCEPT ![c] = FALSE]

\* A call starts for u, who passes the route's gate by an assignment.
Start(c, u, l, r, w, v) ==
    /\ pc[c] = "idle" /\ Held(u)
    /\ Goto(c, l)
    /\ actor' = [actor EXCEPT ![c] = u]
    /\ req' = [req EXCEPT ![c] = r]
    /\ arg' = [arg EXCEPT ![c] = w]
    /\ yes' = [yes EXCEPT ![c] = v]

-----------------------------------------------------------------------------
Init ==
    /\ state = [r \in Requests |-> "NONE"]
    /\ what = [r \in Requests |-> Nothing]
    /\ by = [r \in Requests |-> NoUser]
    /\ signer = [r \in Requests |-> NoUser]
    /\ left = [r \in Requests |-> 0]
    /\ since = [r \in Requests |-> 0]
    /\ on = FALSE /\ epoch = 0
    /\ mode \in {"PER_CASE", "ALWAYS"}
    /\ held \in [Users -> {NotHeld, 0, TTL + Window}]
    /\ merged = {}
    /\ pc = [c \in Calls |-> "idle"]
    /\ actor = [c \in Calls |-> NoUser]
    /\ req = [c \in Calls |-> NoRequest]
    /\ arg = [c \in Calls |-> Nothing]
    /\ yes = [c \in Calls |-> FALSE]
    /\ uses = [r \in Requests |-> 0]
    /\ late = {} /\ fresh = {}

-----------------------------------------------------------------------------
(* raise_request: the payload check, then the INSERT *)

\* _relax_payload_problem.  The console sends the epoch it last read.
BeginRaise(c, u, w) ==
    /\ w \in RelaxPayloads => on /\ mode # "ALWAYS" /\ w.epoch = epoch
    /\ Start(c, u, "insert", NoRequest, w, FALSE)
    /\ UNCHANGED <<rows, case, mode, held, ghost>>

InsertRequest(c) ==
    /\ pc[c] = "insert"
    /\ IF AwaitingTwin(arg[c])
       THEN UNCHANGED rows
       ELSE \E r \in Requests :
            /\ state[r] = "NONE"
            /\ state' = [state EXCEPT ![r] = "PENDING"]
            /\ what' = [what EXCEPT ![r] = arg[c]]
            /\ by' = [by EXCEPT ![r] = actor[c]]
            /\ left' = [left EXCEPT ![r] = TTL]
            /\ UNCHANGED <<signer, since>>
    /\ Answer(c)
    /\ UNCHANGED <<case, mode, held, ghost>>

-----------------------------------------------------------------------------
(* decide: the refusals are read, then one UPDATE guarded on PENDING.      *)
(* Nothing asks again whether the request has expired, or whether the      *)
(* approver is still seasoned.                                             *)

BeginDecide(c, u, r, approve) ==
    /\ state[r] = "PENDING" /\ ~Expired(r) /\ u # by[r]
    /\ approve /\ what[r] \in RelaxPayloads => Seasoned(u, 0)
    /\ Start(c, u, "decide", r, Nothing, approve)
    /\ UNCHANGED <<rows, case, mode, held, ghost>>

Decide(c) ==
    /\ pc[c] = "decide"
    /\ LET r == req[c]
       IN IF Undecided(r)
          THEN /\ state' = [state EXCEPT ![r] = IF yes[c] THEN "APPROVED" ELSE "REJECTED"]
               /\ signer' = [signer EXCEPT ![r] = actor[c]]
               /\ since' = [since EXCEPT ![r] = 0]
               /\ late' = IF Expired(r) THEN late \cup {r} ELSE late
               /\ fresh' = IF what[r] \in RelaxPayloads /\ ~Seasoned(actor[c], 0)
                           THEN fresh \cup {r} ELSE fresh
               /\ UNCHANGED <<what, by, left, uses>>
          ELSE UNCHANGED <<rows, ghost>>
    /\ Answer(c)
    /\ UNCHANGED <<case, mode, held>>

\* withdraw: one UPDATE, guarded on PENDING and on the requester.
Withdraw(u, r) ==
    /\ Held(u) /\ state[r] = "PENDING" /\ by[r] = u
    /\ state' = [state EXCEPT ![r] = "WITHDRAWN"]
    /\ UNCHANGED <<what, by, signer, left, since, case, mode, held, pc, call, ghost>>

-----------------------------------------------------------------------------
(* merge: case_requires_dual_control, then one signature or two.  The body *)
(* names a pair, and may name an approval.                                 *)

BeginMerge(c, u, p, r) ==
    /\ Start(c, u, "mode", r, Merge(p), FALSE)
    /\ UNCHANGED <<rows, case, mode, held, ghost>>

ReadMode(c) ==
    /\ pc[c] = "mode"
    /\ Goto(c, IF mode = "ALWAYS" THEN "approval" ELSE "switch")
    /\ UNCHANGED <<rows, case, mode, held, call, ghost>>

ReadSwitch(c) ==
    /\ pc[c] = "switch"
    /\ Goto(c, IF on THEN "approval" ELSE "alone")
    /\ UNCHANGED <<rows, case, mode, held, call, ghost>>

\* MergeService.merge in its transaction: a merge, or a MergeError.
MergeAlone(c) ==
    /\ pc[c] = "alone"
    /\ \/ arg[c].pair \notin merged /\ merged' = merged \cup {arg[c].pair}
       \/ UNCHANGED merged
    /\ Answer(c)
    /\ UNCHANGED <<rows, on, epoch, mode, held, ghost>>

\* No id, no such request, or one not raised for a merge: refused.
ReadApproval(c) ==
    /\ pc[c] = "approval"
    /\ IF req[c] # NoRequest /\ what[req[c]] \in MergePayloads
       THEN Goto(c, "spend") /\ UNCHANGED call
       ELSE Answer(c)
    /\ UNCHANGED <<rows, case, mode, held, ghost>>

Consume(r) == /\ state' = [state EXCEPT ![r] = "CONSUMED"]
              /\ uses' = [uses EXCEPT ![r] = @ + 1]

\* The consume and the merge share a transaction: a MergeError rolls both back.
SpendOnMerge(c) ==
    /\ pc[c] = "spend"
    /\ LET r == req[c]
       IN \/ /\ Consumable(r, actor[c], "node.merge")
             /\ what[r].pair \notin merged
             /\ merged' = merged \cup {what[r].pair}
             /\ Consume(r)
          \/ UNCHANGED <<state, uses, merged>>
    /\ Answer(c)
    /\ UNCHANGED <<what, by, signer, left, since, on, epoch, mode, held, late, fresh>>

\* reverse: one signature, whatever the switch says.
Reverse(p) ==
    /\ p \in merged
    /\ merged' = merged \ {p}
    /\ UNCHANGED <<rows, on, epoch, mode, held, pc, call, ghost>>

-----------------------------------------------------------------------------
(* set_policy: the switch is read, then the checks of a relaxation, then   *)
(* one transaction.  The reads hold no lock.                               *)

BeginPolicy(c, u, v, r) ==
    /\ on # v
    /\ Start(c, u, IF v THEN "tighten" ELSE "policyMode", r, Nothing, v)
    /\ UNCHANGED <<rows, case, mode, held, ghost>>

PolicyMode(c) ==
    /\ pc[c] = "policyMode"
    /\ IF mode # "ALWAYS" /\ req[c] # NoRequest /\ state[req[c]] # "NONE"
       THEN Goto(c, "policySigner") /\ UNCHANGED call
       ELSE Answer(c)
    /\ UNCHANGED <<rows, case, mode, held, ghost>>

PolicySigner(c) ==
    /\ pc[c] = "policySigner"
    /\ IF SignedSeasoned(req[c])
       THEN Goto(c, "relax") /\ UNCHANGED call
       ELSE Answer(c)
    /\ UNCHANGED <<rows, case, mode, held, ghost>>

\* An UPDATE that finds the switch on already changes nothing, epoch included.
Tighten(c) ==
    /\ pc[c] = "tighten" /\ (~on => epoch < MaxEpoch)
    /\ on' = TRUE
    /\ epoch' = EpochAfter(TRUE)
    /\ Answer(c)
    /\ UNCHANGED <<rows, merged, mode, held, ghost>>

\* The consume, then the UPDATE and its trigger, in one transaction.  If the
\* switch went off in between, the UPDATE changes nothing, the trigger does
\* not fire, and the approval is spent all the same.
RelaxSwitch(c) ==
    /\ pc[c] = "relax"
    /\ LET r == req[c]
       IN IF Consumable(r, actor[c], "case.policy.relax") /\ (on => ForThisEpoch(r))
          THEN /\ Consume(r)
               /\ on' = FALSE
               /\ epoch' = EpochAfter(FALSE)
          ELSE UNCHANGED <<state, uses, on, epoch>>
    /\ Answer(c)
    /\ UNCHANGED <<what, by, signer, left, since, merged, mode, held, late, fresh>>

-----------------------------------------------------------------------------
(* The rest of the world *)

\* _grant sets granted_at = now(), on a re-grant too; revoke_user deletes.
Grant(u) ==
    /\ held' = [held EXCEPT ![u] = 0]
    /\ UNCHANGED <<rows, case, mode, pc, call, ghost>>

Revoke(u) ==
    /\ Held(u)
    /\ held' = [held EXCEPT ![u] = NotHeld]
    /\ UNCHANGED <<rows, case, mode, pc, call, ghost>>

\* A two-person change of the deployment's policy takes effect.
ChangeMode ==
    /\ mode' = IF mode = "ALWAYS" THEN "PER_CASE" ELSE "ALWAYS"
    /\ UNCHANGED <<rows, case, held, pc, call, ghost>>

Tick ==
    /\ left' = [r \in Requests |-> IF left[r] > 0 THEN left[r] - 1 ELSE 0]
    /\ since' = [r \in Requests |-> IF signer[r] # NoUser /\ since[r] < TTL
                                    THEN since[r] + 1 ELSE since[r]]
    /\ held' = [u \in Users |-> IF Held(u) /\ held[u] < TTL + Window
                                THEN held[u] + 1 ELSE held[u]]
    /\ UNCHANGED <<state, what, by, signer, case, mode, pc, call, ghost>>

-----------------------------------------------------------------------------
RaiseStep(c)  == \/ \E u \in Users, w \in Payloads : BeginRaise(c, u, w)
                 \/ InsertRequest(c)
DecideStep(c) == \/ \E u \in Users, r \in Requests, v \in BOOLEAN : BeginDecide(c, u, r, v)
                 \/ Decide(c)
MergeStep(c)  == \/ \E u \in Users, p \in Pairs, r \in Requests \cup {NoRequest} :
                       BeginMerge(c, u, p, r)
                 \/ ReadMode(c) \/ ReadSwitch(c) \/ MergeAlone(c)
                 \/ ReadApproval(c) \/ SpendOnMerge(c)
PolicyStep(c) == \/ \E u \in Users, v \in BOOLEAN, r \in Requests \cup {NoRequest} :
                       BeginPolicy(c, u, v, r)
                 \/ PolicyMode(c) \/ PolicySigner(c) \/ Tighten(c) \/ RelaxSwitch(c)

Next == \/ \E c \in Calls : RaiseStep(c) \/ DecideStep(c) \/ MergeStep(c) \/ PolicyStep(c)
        \/ \E u \in Users, r \in Requests : Withdraw(u, r)
        \/ \E p \in Pairs : Reverse(p)
        \/ \E u \in Users : Grant(u) \/ Revoke(u)
        \/ ChangeMode
        \/ Tick

Spec == Init /\ [][Next]_vars
=============================================================================
