-------------------------- MODULE CaseSwitchProofs --------------------------
(***************************************************************************)
(* The safety of a case's second signature, for any number of requests,    *)
(* people, pairs and calls: SwitchInv is inductive, and what an approval   *)
(* is worth follows from it. That its signer is seasoned needs SeasonInv,  *)
(* and holds for calls one at a time.                                      *)
(***************************************************************************)
EXTENDS CaseSwitchProps, TLAPS

USE ClockAssumption, NullAssumption DEF NotHeld

\* No request, no call, nothing required of the case: 0028 and 0076 start so.
LEMMA InitInv == Init => SwitchInv
<1> SUFFICES ASSUME Init PROVE SwitchInv
  OBVIOUS
<1>1. RowTypes
  BY DEF Init, RowTypes
<1>2. CaseTypes
  <2>1. held \in [Users -> {NotHeld} \cup Clocks]
    BY DEF Init, Clocks
  <2>2. on \in BOOLEAN /\ mode \in {"PER_CASE", "ALWAYS"}
    BY DEF Init
  <2>3. /\ epoch \in 0..(MaxEpoch + 1) /\ merged \subseteq Pairs
        /\ late \subseteq Requests /\ fresh \subseteq Requests
    BY DEF Init
  <2>4. uses \in [Requests -> Nat]
    BY DEF Init
  <2>5. QED
    BY <2>1, <2>2, <2>3, <2>4 DEF CaseTypes
<1>3. CallTypes
  BY DEF Init, CallTypes, Places
<1>4. RowInv /\ CallInv /\ LateInv /\ EpochInv /\ SpentOnce
  BY DEF Init, RowInv, CallInv, LateInv, EpochInv, SpentOnce
<1>5. QED
  BY <1>1, <1>2, <1>3, <1>4 DEF SwitchInv, TypeOK

\* How a call that begins, moves on or answers leaves every call.
LEMMA StartCalls ==
    ASSUME CallTypes, NEW c \in Calls, NEW u \in Users, NEW l \in Places,
           NEW r \in Requests \cup {NoRequest}, NEW w \in Payloads \cup {Nothing},
           NEW v \in BOOLEAN, Start(c, u, l, r, w, v)
    PROVE  /\ CallTypes'
           /\ \A d \in Calls :
                IF d = c THEN pc'[d] = l /\ actor'[d] = u /\ req'[d] = r /\ arg'[d] = w
                ELSE pc'[d] = pc[d] /\ actor'[d] = actor[d] /\ req'[d] = req[d] /\ arg'[d] = arg[d]
BY DEF CallTypes, Start, Goto

LEMMA GotoCalls ==
    ASSUME CallTypes, NEW c \in Calls, NEW l \in Places, Goto(c, l), UNCHANGED call
    PROVE  /\ CallTypes'
           /\ \A d \in Calls :
                /\ pc'[d] = (IF d = c THEN l ELSE pc[d])
                /\ actor'[d] = actor[d] /\ req'[d] = req[d] /\ arg'[d] = arg[d]
BY DEF CallTypes, Goto, call

LEMMA AnswerCalls ==
    ASSUME CallTypes, NEW c \in Calls, Answer(c)
    PROVE  /\ CallTypes'
           /\ \A d \in Calls :
                IF d = c THEN pc'[d] = "idle"
                ELSE pc'[d] = pc[d] /\ actor'[d] = actor[d] /\ req'[d] = req[d] /\ arg'[d] = arg[d]
BY DEF CallTypes, Places, Answer, Goto

\* What the other calls have read survives a step that moves rows forward only.
LEMMA CallsKept ==
    ASSUME SwitchInv, NEW c \in Calls, pc'[c] = "idle",
           \A d \in Calls : d # c => /\ pc'[d] = pc[d] /\ actor'[d] = actor[d]
                                     /\ req'[d] = req[d] /\ arg'[d] = arg[d],
           \A r \in Requests : state[r] # "NONE" => state'[r] # "NONE" /\ by'[r] = by[r],
           epoch' = epoch \/ epoch' = epoch + 1
    PROVE  CallInv'
<1>1. epoch \in Nat /\ epoch' \in Nat /\ epoch <= epoch'
  BY DEF SwitchInv, TypeOK, CaseTypes
<1> SUFFICES ASSUME NEW d \in Calls
             PROVE  /\ pc'[d] \in {"insert", "decide"} => actor'[d] \in Users
                    /\ pc'[d] \in {"decide", "spend", "policySigner", "relax"} => req'[d] \in Requests
                    /\ pc'[d] = "insert" => arg'[d] \in Payloads
                    /\ pc'[d] = "insert" /\ arg'[d] \in RelaxPayloads => arg'[d].epoch <= epoch'
                    /\ pc'[d] \in {"mode", "switch", "alone"} => arg'[d] \in MergePayloads
                    /\ pc'[d] = "decide" => state'[req'[d]] # "NONE" /\ by'[req'[d]] # actor'[d]
  BY DEF CallInv, Payloads, MergePayloads, RelaxPayloads, Merge, Relax
<1>2. CASE d = c
  BY <1>2
<1>3. CASE d # c
  <2>1. pc'[d] = pc[d] /\ actor'[d] = actor[d] /\ req'[d] = req[d] /\ arg'[d] = arg[d]
    BY <1>3
  <2>2. \A e \in RelaxPayloads : e.epoch \in Nat
    BY DEF RelaxPayloads, Relax
  <2>3. QED
    BY <1>1, <2>1, <2>2 DEF SwitchInv, CallInv
<1>4. QED
  BY <1>2, <1>3

\* A step that writes no row, no switch and no merge: the reads of a call, an
\* assignment granted or revoked, a change of the deployment's mode.
LEMMA QuietStep ==
    ASSUME SwitchInv, CallTypes', CallInv', UNCHANGED <<rows, case, ghost>>,
           mode' \in {"PER_CASE", "ALWAYS"}, held' \in [Users -> {NotHeld} \cup Clocks]
    PROVE  SwitchInv'
<1>1. TypeOK'
  BY DEF SwitchInv, TypeOK, RowTypes, CaseTypes, rows, case, ghost
<1>2. RowInv' /\ LateInv' /\ EpochInv' /\ SpentOnce'
  BY DEF SwitchInv, RowInv, LateInv, EpochInv, SpentOnce, Expired, rows, case, ghost
<1>3. QED
  BY <1>1, <1>2 DEF SwitchInv

\* A call that begins, and has read nothing it must remember but its request.
LEMMA QuietStart ==
    ASSUME SwitchInv, NEW c \in Calls, NEW u \in Users, NEW l \in Places, l # "insert",
           NEW r \in Requests \cup {NoRequest}, NEW w \in Payloads \cup {Nothing},
           NEW v \in BOOLEAN, Start(c, u, l, r, w, v),
           l \in {"decide", "spend", "policySigner", "relax"} => r \in Requests,
           l \in {"mode", "switch", "alone"} => w \in MergePayloads,
           l = "decide" => state[r] # "NONE" /\ by[r] # u,
           UNCHANGED <<rows, case, mode, held, ghost>>
    PROVE  SwitchInv'
<1>0. CallTypes
  BY DEF SwitchInv, TypeOK
<1>1. /\ CallTypes'
      /\ \A d \in Calls :
           IF d = c THEN pc'[d] = l /\ actor'[d] = u /\ req'[d] = r /\ arg'[d] = w
           ELSE pc'[d] = pc[d] /\ actor'[d] = actor[d] /\ req'[d] = req[d] /\ arg'[d] = arg[d]
  BY <1>0, StartCalls
<1>2. UNCHANGED <<state, by, epoch>>
  BY DEF rows, case
<1>3. CallInv'
  BY <1>1, <1>2 DEF SwitchInv, CallInv, Payloads, MergePayloads, RelaxPayloads, Merge, Relax
<1>4. QED
  BY <1>1, <1>3, QuietStep DEF SwitchInv, TypeOK, CaseTypes

\* A call that reads, and goes on.
LEMMA QuietGoto ==
    ASSUME SwitchInv, NEW c \in Calls, NEW l \in Places, l \notin {"insert", "decide"},
           Goto(c, l), UNCHANGED call,
           l \in {"spend", "policySigner", "relax"} => req[c] \in Requests,
           l \in {"mode", "switch", "alone"} => arg[c] \in MergePayloads,
           UNCHANGED <<rows, case, mode, held, ghost>>
    PROVE  SwitchInv'
<1>0. CallTypes
  BY DEF SwitchInv, TypeOK
<1>1. /\ CallTypes'
      /\ \A d \in Calls :
           /\ pc'[d] = (IF d = c THEN l ELSE pc[d])
           /\ actor'[d] = actor[d] /\ req'[d] = req[d] /\ arg'[d] = arg[d]
  BY <1>0, GotoCalls
<1>2. UNCHANGED <<state, by, epoch>>
  BY DEF rows, case
<1>3. CallInv'
  BY <1>1, <1>2 DEF SwitchInv, CallInv, Payloads, MergePayloads, RelaxPayloads, Merge, Relax
<1>4. QED
  BY <1>1, <1>3, QuietStep DEF SwitchInv, TypeOK, CaseTypes

\* A call that answers, rows moving forward or not at all.
LEMMA AnswerKeeps ==
    ASSUME SwitchInv, NEW c \in Calls, Answer(c),
           \A r \in Requests : state[r] # "NONE" => state'[r] # "NONE" /\ by'[r] = by[r],
           epoch' = epoch \/ epoch' = epoch + 1,
           RowTypes', CaseTypes', RowInv', LateInv', EpochInv', SpentOnce'
    PROVE  SwitchInv'
<1>0. CallTypes
  BY DEF SwitchInv, TypeOK
<1>1. /\ CallTypes'
      /\ \A d \in Calls :
           IF d = c THEN pc'[d] = "idle"
           ELSE pc'[d] = pc[d] /\ actor'[d] = actor[d] /\ req'[d] = req[d] /\ arg'[d] = arg[d]
  BY <1>0, AnswerCalls
<1>2. CallInv'
  BY <1>1, CallsKept
<1>3. QED
  BY <1>1, <1>2 DEF SwitchInv, TypeOK

LEMMA QuietAnswer ==
    ASSUME SwitchInv, NEW c \in Calls, Answer(c), UNCHANGED <<rows, case, mode, held, ghost>>
    PROVE  SwitchInv'
<1>1. RowTypes' /\ CaseTypes'
  BY DEF SwitchInv, TypeOK, RowTypes, CaseTypes, rows, case, ghost
<1>2. RowInv' /\ LateInv' /\ EpochInv' /\ SpentOnce'
  BY DEF SwitchInv, RowInv, LateInv, EpochInv, SpentOnce, Expired, rows, case, ghost
<1>3. UNCHANGED <<state, by, epoch>>
  BY DEF rows, case
<1>4. QED
  BY <1>1, <1>2, <1>3, AnswerKeeps

\* A spend: an approved, unexpired request is CONSUMED with what it authorises.
LEMMA ConsumeKeeps ==
    ASSUME SwitchInv, NEW c \in Calls, Answer(c), NEW r \in Requests,
           state[r] = "APPROVED", ~Expired(r), Consume(r),
           UNCHANGED <<what, by, signer, left, since, mode, held, late, fresh>>,
           merged' \subseteq Pairs,
           \/ UNCHANGED <<on, epoch>>
           \/ on /\ on' = FALSE /\ epoch' = epoch + 1
    PROVE  SwitchInv'
<1>1. /\ state' = [state EXCEPT ![r] = "CONSUMED"]
      /\ uses' = [uses EXCEPT ![r] = @ + 1]
  BY DEF Consume
<1>2. RowTypes'
  BY <1>1 DEF SwitchInv, TypeOK, RowTypes
<1>3. CaseTypes'
  <2>1. uses' \in [Requests -> Nat]
    BY <1>1 DEF SwitchInv, TypeOK, CaseTypes
  <2>2. epoch' \in 0..(MaxEpoch + 1) /\ on' \in BOOLEAN
    <3>1. epoch \in 0..(MaxEpoch + 1) /\ on \in BOOLEAN /\ (on => epoch <= MaxEpoch)
      BY DEF SwitchInv, TypeOK, CaseTypes, EpochInv
    <3>2. CASE UNCHANGED <<on, epoch>>
      BY <3>1, <3>2
    <3>3. CASE on /\ on' = FALSE /\ epoch' = epoch + 1
      <4>1. epoch \in 0..MaxEpoch
        BY <3>1, <3>3
      <4>2. epoch' \in 0..(MaxEpoch + 1)
        BY <3>3, <4>1
      <4>3. on' \in BOOLEAN
        BY <3>3
      <4>4. QED
        BY <4>2, <4>3
    <3>4. QED
      BY <3>2, <3>3
  <2>3. QED
    BY <2>1, <2>2 DEF SwitchInv, TypeOK, CaseTypes
<1>4. RowInv' /\ LateInv' /\ SpentOnce'
  BY <1>1 DEF SwitchInv, TypeOK, RowTypes, CaseTypes, RowInv, LateInv, SpentOnce, Expired
<1>5. EpochInv'
  BY DEF SwitchInv, EpochInv
<1>6. \A q \in Requests : state[q] # "NONE" => state'[q] # "NONE" /\ by'[q] = by[q]
  BY <1>1 DEF SwitchInv, TypeOK, RowTypes
<1>7. QED
  BY <1>2, <1>3, <1>4, <1>5, <1>6, AnswerKeeps

\* raise_request
LEMMA RaiseKeeps ==
    ASSUME SwitchInv, NEW c \in Calls, RaiseStep(c) PROVE SwitchInv'
<1>0. CallTypes
  BY DEF SwitchInv, TypeOK
<1>1. ASSUME NEW u \in Users, NEW w \in Payloads, BeginRaise(c, u, w) PROVE SwitchInv'
  <2>1. /\ CallTypes'
        /\ \A d \in Calls :
             IF d = c THEN pc'[d] = "insert" /\ actor'[d] = u /\ req'[d] = NoRequest /\ arg'[d] = w
             ELSE pc'[d] = pc[d] /\ actor'[d] = actor[d] /\ req'[d] = req[d] /\ arg'[d] = arg[d]
    <3>1. Start(c, u, "insert", NoRequest, w, FALSE) /\ "insert" \in Places
      BY <1>1 DEF BeginRaise, Places
    <3>2. NoRequest \in Requests \cup {NoRequest} /\ w \in Payloads \cup {Nothing} /\ FALSE \in BOOLEAN
      OBVIOUS
    <3>3. QED
      BY <1>0, <3>1, <3>2, StartCalls
  <2>2. w \in RelaxPayloads => w.epoch <= epoch
    BY <1>1 DEF BeginRaise, SwitchInv, TypeOK, CaseTypes
  <2>3. UNCHANGED <<state, by, epoch, mode, held, rows, case, ghost>>
    BY <1>1 DEF BeginRaise, rows, case
  <2>4. CallInv'
    BY <2>1, <2>2, <2>3 DEF SwitchInv, CallInv, Payloads, MergePayloads, RelaxPayloads, Merge, Relax
  <2>5. QED
    BY <2>1, <2>3, <2>4, QuietStep DEF SwitchInv, TypeOK, CaseTypes
<1>2. ASSUME InsertRequest(c) PROVE SwitchInv'
  <2>1. /\ CallTypes'
        /\ pc'[c] = "idle"
        /\ \A d \in Calls : d # c => /\ pc'[d] = pc[d] /\ actor'[d] = actor[d]
                                     /\ req'[d] = req[d] /\ arg'[d] = arg[d]
    BY <1>0, <1>2, AnswerCalls DEF InsertRequest
  <2>2. CASE AwaitingTwin(arg[c])
    <3>1. UNCHANGED <<rows, case, ghost, state, by, epoch, mode, held>>
      BY <1>2, <2>2 DEF InsertRequest, rows, case
    <3>2. CallInv'
      BY <2>1, <3>1, CallsKept
    <3>3. QED
      BY <2>1, <3>1, <3>2, QuietStep DEF SwitchInv, TypeOK, CaseTypes
  <2>3. CASE ~AwaitingTwin(arg[c])
    <3>1. PICK r \in Requests : /\ state[r] = "NONE"
                                /\ state' = [state EXCEPT ![r] = "PENDING"]
                                /\ what' = [what EXCEPT ![r] = arg[c]]
                                /\ by' = [by EXCEPT ![r] = actor[c]]
                                /\ left' = [left EXCEPT ![r] = TTL]
                                /\ UNCHANGED <<signer, since>>
      BY <1>2, <2>3 DEF InsertRequest
    <3>2. actor[c] \in Users /\ arg[c] \in Payloads
      BY <1>2 DEF InsertRequest, SwitchInv, CallInv
    <3>3. UNCHANGED <<on, epoch, merged, mode, held, uses, late, fresh>>
      BY <1>2 DEF InsertRequest, case, ghost
    <3>4. RowTypes'
      BY <3>1, <3>2 DEF SwitchInv, TypeOK, RowTypes
    <3>5. CaseTypes'
      BY <3>3 DEF SwitchInv, TypeOK, CaseTypes
    <3>6. RowInv'
      BY <3>1 DEF SwitchInv, TypeOK, RowTypes, RowInv
    <3>7. LateInv' /\ EpochInv' /\ SpentOnce'
      BY <3>1, <3>3 DEF SwitchInv, TypeOK, RowTypes, CaseTypes, LateInv, EpochInv, SpentOnce, Expired
    <3>8. CallInv'
      <4>1. \A q \in Requests : state[q] # "NONE" => state'[q] # "NONE" /\ by'[q] = by[q]
        BY <3>1 DEF SwitchInv, TypeOK, RowTypes
      <4>2. QED
        BY <2>1, <3>3, <4>1, CallsKept
    <3>9. QED
      BY <2>1, <3>4, <3>5, <3>6, <3>7, <3>8 DEF SwitchInv, TypeOK
  <2>4. QED
    BY <2>2, <2>3
<1>3. QED
  BY <1>1, <1>2 DEF RaiseStep

\* decide
LEMMA DecideKeeps ==
    ASSUME SwitchInv, NEW c \in Calls, DecideStep(c) PROVE SwitchInv'
<1>1. ASSUME NEW u \in Users, NEW r \in Requests, NEW v \in BOOLEAN, BeginDecide(c, u, r, v)
      PROVE  SwitchInv'
  <2>1. Start(c, u, "decide", r, Nothing, v) /\ "decide" \in Places
    BY <1>1 DEF BeginDecide, Places
  <2>2. state[r] # "NONE" /\ by[r] # u /\ UNCHANGED <<rows, case, mode, held, ghost>>
    BY <1>1 DEF BeginDecide
  <2>3. Nothing \in Payloads \cup {Nothing} /\ r \in Requests \cup {NoRequest}
    OBVIOUS
  <2>4. QED
    BY <2>1, <2>2, <2>3, QuietStart
<1>2. ASSUME Decide(c) PROVE SwitchInv'
  <2>1. CASE ~Undecided(req[c])
    BY <1>2, <2>1, QuietAnswer DEF Decide
  <2>2. CASE Undecided(req[c])
    <3> DEFINE r == req[c]
               s == IF yes[c] THEN "APPROVED" ELSE "REJECTED"
    <3>1. /\ r \in Requests /\ state[r] = "PENDING" /\ actor[c] \in Users /\ by[r] # actor[c]
          /\ s \in {"APPROVED", "REJECTED"}
      BY <1>2, <2>2 DEF Decide, Undecided, SwitchInv, CallInv
    <3>2. /\ state' = [state EXCEPT ![r] = s]
          /\ signer' = [signer EXCEPT ![r] = actor[c]]
          /\ since' = [since EXCEPT ![r] = 0]
          /\ late' = (IF Expired(r) THEN late \cup {r} ELSE late)
          /\ \/ fresh' = fresh
             \/ fresh' = fresh \cup {r}
          /\ UNCHANGED <<what, by, left, uses, on, epoch, merged, mode, held>>
      BY <1>2, <2>2 DEF Decide, case
    <3> HIDE DEF r, s
    <3>3. RowTypes'
      BY <3>1, <3>2 DEF SwitchInv, TypeOK, RowTypes
    <3>4. CaseTypes'
      BY <3>1, <3>2 DEF SwitchInv, TypeOK, CaseTypes
    <3>5. RowInv'
      BY <3>1, <3>2 DEF SwitchInv, TypeOK, RowTypes, RowInv
    <3>6. LateInv'
      BY <3>1, <3>2 DEF SwitchInv, TypeOK, RowTypes, LateInv, Expired
    <3>7. EpochInv' /\ SpentOnce'
      BY <3>1, <3>2 DEF SwitchInv, TypeOK, RowTypes, EpochInv, SpentOnce
    <3>8. \A q \in Requests : state[q] # "NONE" => state'[q] # "NONE" /\ by'[q] = by[q]
      BY <3>1, <3>2 DEF SwitchInv, TypeOK, RowTypes
    <3>9. QED
      BY <1>2, <3>2, <3>3, <3>4, <3>5, <3>6, <3>7, <3>8, AnswerKeeps DEF Decide
  <2>3. QED
    BY <2>1, <2>2
<1>3. QED
  BY <1>1, <1>2 DEF DecideStep

\* merge, with one signature or two
LEMMA MergeKeeps ==
    ASSUME SwitchInv, NEW c \in Calls, MergeStep(c) PROVE SwitchInv'
<1>1. ASSUME NEW u \in Users, NEW p \in Pairs, NEW r \in Requests \cup {NoRequest},
             BeginMerge(c, u, p, r)
      PROVE  SwitchInv'
  <2>1. Start(c, u, "mode", r, Merge(p), FALSE) /\ "mode" \in Places
    BY <1>1 DEF BeginMerge, Places
  <2>2. Merge(p) \in MergePayloads /\ Merge(p) \in Payloads \cup {Nothing} /\ FALSE \in BOOLEAN
    BY DEF Payloads, MergePayloads
  <2>3. UNCHANGED <<rows, case, mode, held, ghost>>
    BY <1>1 DEF BeginMerge
  <2>4. QED
    BY <2>1, <2>2, <2>3, QuietStart
<1>2. ASSUME ReadMode(c) \/ ReadSwitch(c) PROVE SwitchInv'
  <2>1. PICK l \in {"switch", "alone", "approval"} : Goto(c, l)
    BY <1>2 DEF ReadMode, ReadSwitch
  <2>2. arg[c] \in MergePayloads /\ UNCHANGED <<rows, case, mode, held, call, ghost>>
    BY <1>2 DEF ReadMode, ReadSwitch, SwitchInv, CallInv
  <2>3. l \in Places
    BY DEF Places
  <2>4. QED
    BY <2>1, <2>2, <2>3, QuietGoto
<1>3. ASSUME MergeAlone(c) PROVE SwitchInv'
  <2>1. merged' \subseteq Pairs
    <3>1. arg[c] \in MergePayloads
      BY <1>3 DEF MergeAlone, SwitchInv, CallInv
    <3>2. arg[c].pair \in Pairs
      BY <3>1 DEF MergePayloads, Merge
    <3>3. QED
      BY <1>3, <3>2 DEF MergeAlone, SwitchInv, TypeOK, CaseTypes
  <2>2. UNCHANGED <<state, what, by, signer, left, since, on, epoch, mode, held, uses, late, fresh>>
    BY <1>3 DEF MergeAlone, rows, ghost
  <2>3. RowTypes' /\ CaseTypes'
    BY <2>1, <2>2 DEF SwitchInv, TypeOK, RowTypes, CaseTypes
  <2>4. RowInv' /\ LateInv' /\ EpochInv' /\ SpentOnce'
    BY <2>2 DEF SwitchInv, RowInv, LateInv, EpochInv, SpentOnce, Expired
  <2>5. QED
    BY <1>3, <2>2, <2>3, <2>4, AnswerKeeps DEF MergeAlone
<1>4. ASSUME ReadApproval(c) PROVE SwitchInv'
  <2>1. CASE req[c] # NoRequest /\ what[req[c]] \in MergePayloads
    <3>1. req[c] \in Requests /\ "spend" \in Places
      BY <2>1 DEF SwitchInv, TypeOK, CallTypes, Places
    <3>2. QED
      BY <1>4, <2>1, <3>1, QuietGoto DEF ReadApproval
  <2>2. CASE ~(req[c] # NoRequest /\ what[req[c]] \in MergePayloads)
    BY <1>4, <2>2, QuietAnswer DEF ReadApproval
  <2>3. QED
    BY <2>1, <2>2
<1>5. ASSUME SpendOnMerge(c) PROVE SwitchInv'
  <2>0. req[c] \in Requests
    BY <1>5 DEF SpendOnMerge, SwitchInv, CallInv
  <2>1. CASE UNCHANGED <<state, uses, merged>>
    BY <1>5, <2>1, QuietAnswer DEF SpendOnMerge, rows, case, ghost
  <2>2. CASE /\ Consumable(req[c], actor[c], "node.merge")
             /\ merged' = merged \cup {what[req[c]].pair}
             /\ Consume(req[c])
    <3>1. what[req[c]] \in Payloads \cup {Nothing} /\ what[req[c]].op = "node.merge"
      BY <2>0, <2>2 DEF Consumable, SwitchInv, TypeOK, RowTypes
    <3>2. what[req[c]].pair \in Pairs
      <4>1. \A w \in RelaxPayloads : w.op = "case.policy.relax"
        BY DEF RelaxPayloads, Relax
      <4>2. \A w \in MergePayloads : w.pair \in Pairs
        BY DEF MergePayloads, Merge
      <4>3. Nothing.op = "nothing"
        BY DEF Nothing
      <4>4. QED
        BY <3>1, <4>1, <4>2, <4>3 DEF Payloads
    <3>3. merged' \subseteq Pairs
      BY <2>2, <3>2 DEF SwitchInv, TypeOK, CaseTypes
    <3>4. state[req[c]] = "APPROVED" /\ ~Expired(req[c])
      BY <2>2 DEF Consumable
    <3>5. QED
      BY <1>5, <2>0, <2>2, <3>3, <3>4, ConsumeKeeps DEF SpendOnMerge
  <2>3. QED
    BY <1>5, <2>1, <2>2 DEF SpendOnMerge
<1>6. QED
  BY <1>1, <1>2, <1>3, <1>4, <1>5 DEF MergeStep

\* set_policy
LEMMA PolicyKeeps ==
    ASSUME SwitchInv, NEW c \in Calls, PolicyStep(c) PROVE SwitchInv'
<1>1. ASSUME NEW u \in Users, NEW v \in BOOLEAN, NEW r \in Requests \cup {NoRequest},
             BeginPolicy(c, u, v, r)
      PROVE  SwitchInv'
  <2>1. PICK l \in {"tighten", "policyMode"} : Start(c, u, l, r, Nothing, v)
    BY <1>1 DEF BeginPolicy
  <2>2. UNCHANGED <<rows, case, mode, held, ghost>>
    BY <1>1 DEF BeginPolicy
  <2>3. l \in Places /\ Nothing \in Payloads \cup {Nothing}
    BY DEF Places
  <2>4. QED
    BY <2>1, <2>2, <2>3, QuietStart
<1>2. ASSUME PolicyMode(c) PROVE SwitchInv'
  <2>1. CASE mode # "ALWAYS" /\ req[c] # NoRequest /\ state[req[c]] # "NONE"
    <3>1. req[c] \in Requests /\ "policySigner" \in Places
      BY <2>1 DEF SwitchInv, TypeOK, CallTypes, Places
    <3>2. QED
      BY <1>2, <2>1, <3>1, QuietGoto DEF PolicyMode
  <2>2. CASE ~(mode # "ALWAYS" /\ req[c] # NoRequest /\ state[req[c]] # "NONE")
    BY <1>2, <2>2, QuietAnswer DEF PolicyMode
  <2>3. QED
    BY <2>1, <2>2
<1>3. ASSUME PolicySigner(c) PROVE SwitchInv'
  <2>1. CASE SignedSeasoned(req[c])
    <3>1. req[c] \in Requests /\ "relax" \in Places
      BY <1>3 DEF PolicySigner, SwitchInv, CallInv, Places
    <3>2. QED
      BY <1>3, <2>1, <3>1, QuietGoto DEF PolicySigner
  <2>2. CASE ~SignedSeasoned(req[c])
    BY <1>3, <2>2, QuietAnswer DEF PolicySigner
  <2>3. QED
    BY <2>1, <2>2
<1>4. ASSUME Tighten(c) PROVE SwitchInv'
  <2>1. UNCHANGED <<state, what, by, signer, left, since, merged, mode, held, uses, late, fresh>>
    BY <1>4 DEF Tighten, rows, ghost
  <2>2. /\ on' = TRUE /\ epoch' \in 0..(MaxEpoch + 1) /\ epoch' <= MaxEpoch
        /\ epoch' = epoch \/ epoch' = epoch + 1
    BY <1>4 DEF Tighten, EpochAfter, SwitchInv, TypeOK, CaseTypes, EpochInv
  <2>3. RowTypes' /\ CaseTypes'
    BY <2>1, <2>2 DEF SwitchInv, TypeOK, RowTypes, CaseTypes
  <2>4. RowInv' /\ LateInv' /\ EpochInv' /\ SpentOnce'
    BY <2>1, <2>2 DEF SwitchInv, RowInv, LateInv, EpochInv, SpentOnce, Expired
  <2>5. QED
    BY <1>4, <2>1, <2>2, <2>3, <2>4, AnswerKeeps DEF Tighten
<1>5. ASSUME RelaxSwitch(c) PROVE SwitchInv'
  <2>0. req[c] \in Requests
    BY <1>5 DEF RelaxSwitch, SwitchInv, CallInv
  <2>1. CASE UNCHANGED <<state, uses, on, epoch>>
    BY <1>5, <2>1, QuietAnswer DEF RelaxSwitch, rows, case, ghost
  <2>2. CASE /\ Consumable(req[c], actor[c], "case.policy.relax")
             /\ Consume(req[c])
             /\ on' = FALSE
             /\ epoch' = EpochAfter(FALSE)
    <3>1. state[req[c]] = "APPROVED" /\ ~Expired(req[c])
      BY <2>2 DEF Consumable
    <3>2. \/ UNCHANGED <<on, epoch>>
          \/ on /\ on' = FALSE /\ epoch' = epoch + 1
      BY <2>2 DEF EpochAfter, SwitchInv, TypeOK, CaseTypes
    <3>3. merged' \subseteq Pairs
      BY <1>5 DEF RelaxSwitch, SwitchInv, TypeOK, CaseTypes
    <3>4. QED
      BY <1>5, <2>0, <2>2, <3>1, <3>2, <3>3, ConsumeKeeps DEF RelaxSwitch
  <2>3. QED
    BY <1>5, <2>1, <2>2 DEF RelaxSwitch
<1>6. QED
  BY <1>1, <1>2, <1>3, <1>4, <1>5 DEF PolicyStep

\* An assignment granted or revoked, a change of the mode, a withdrawal, a
\* reversal, the clock.
LEMMA WorldKeeps ==
    ASSUME SwitchInv,
           \/ \E u \in Users, r \in Requests : Withdraw(u, r)
           \/ \E p \in Pairs : Reverse(p)
           \/ \E u \in Users : Grant(u) \/ Revoke(u)
           \/ ChangeMode
           \/ Tick
           \/ UNCHANGED vars
    PROVE  SwitchInv'
<1>1. ASSUME NEW u \in Users, NEW r \in Requests, Withdraw(u, r) PROVE SwitchInv'
  <2>1. /\ state[r] = "PENDING" /\ state' = [state EXCEPT ![r] = "WITHDRAWN"]
        /\ UNCHANGED <<what, by, signer, left, since, on, epoch, merged, mode, held,
                       pc, actor, req, arg, yes, uses, late, fresh>>
    BY <1>1 DEF Withdraw, case, call, ghost
  <2>2. TypeOK'
    BY <2>1 DEF SwitchInv, TypeOK, RowTypes, CaseTypes, CallTypes
  <2>3. RowInv' /\ LateInv' /\ EpochInv' /\ SpentOnce'
    BY <2>1 DEF SwitchInv, TypeOK, RowTypes, RowInv, LateInv, EpochInv, SpentOnce, Expired
  <2>4. CallInv'
    BY <2>1 DEF SwitchInv, TypeOK, RowTypes, CallInv, Payloads, MergePayloads, RelaxPayloads, Merge, Relax
  <2>5. QED
    BY <2>2, <2>3, <2>4 DEF SwitchInv
<1>2. ASSUME UNCHANGED <<state, what, by, signer, on, epoch, pc, actor, req, arg, yes,
                         uses, late, fresh>>,
             left' \in [Requests -> 0..TTL], since' \in [Requests -> 0..TTL],
             \A r \in Requests : left[r] = 0 => left'[r] = 0,
             merged' \subseteq Pairs, mode' \in {"PER_CASE", "ALWAYS"},
             held' \in [Users -> {NotHeld} \cup Clocks]
      PROVE  SwitchInv'
  <2>1. TypeOK'
    BY <1>2 DEF SwitchInv, TypeOK, RowTypes, CaseTypes, CallTypes
  <2>2. RowInv' /\ LateInv' /\ EpochInv' /\ SpentOnce'
    BY <1>2 DEF SwitchInv, TypeOK, CaseTypes, RowInv, LateInv, EpochInv, SpentOnce, Expired
  <2>3. CallInv'
    BY <1>2 DEF SwitchInv, CallInv, Payloads, MergePayloads, RelaxPayloads, Merge, Relax
  <2>4. QED
    BY <2>1, <2>2, <2>3 DEF SwitchInv
<1>3. ASSUME NEW p \in Pairs, Reverse(p) PROVE SwitchInv'
  BY <1>2, <1>3 DEF Reverse, SwitchInv, TypeOK, RowTypes, CaseTypes, rows, call, ghost
<1>4. ASSUME NEW u \in Users, Grant(u) \/ Revoke(u) PROVE SwitchInv'
  <2>1. held' \in [Users -> {NotHeld} \cup Clocks]
    BY <1>4 DEF Grant, Revoke, Clocks, SwitchInv, TypeOK, CaseTypes
  <2>2. QED
    BY <1>2, <1>4, <2>1 DEF Grant, Revoke, SwitchInv, TypeOK, RowTypes, CaseTypes, rows, call, ghost, case
<1>5. ASSUME ChangeMode PROVE SwitchInv'
  BY <1>2, <1>5 DEF ChangeMode, SwitchInv, TypeOK, RowTypes, CaseTypes, rows, call, ghost, case
<1>6. ASSUME Tick PROVE SwitchInv'
  <2>1. held' \in [Users -> {NotHeld} \cup Clocks]
    BY <1>6 DEF Tick, Held, Clocks, SwitchInv, TypeOK, CaseTypes
  <2>2. /\ left' \in [Requests -> 0..TTL] /\ since' \in [Requests -> 0..TTL]
        /\ \A r \in Requests : left[r] = 0 => left'[r] = 0
    BY <1>6 DEF Tick, SwitchInv, TypeOK, RowTypes
  <2>3. QED
    BY <1>2, <1>6, <2>1, <2>2 DEF Tick, SwitchInv, TypeOK, CaseTypes, call, ghost, case
<1>7. ASSUME UNCHANGED vars PROVE SwitchInv'
  BY <1>2, <1>7 DEF vars, SwitchInv, TypeOK, RowTypes, CaseTypes
<1>8. QED
  BY <1>1, <1>3, <1>4, <1>5, <1>6, <1>7

\* SwitchInv holds in every reachable state.
THEOREM SwitchInductive == Spec => []SwitchInv
<1>1. SwitchInv /\ [Next]_vars => SwitchInv'
  BY RaiseKeeps, DecideKeeps, MergeKeeps, PolicyKeeps, WorldKeeps DEF Next
<1>2. QED
  BY InitInv, <1>1, PTL DEF Spec

\* The rows, the case and the calls keep their types.
THEOREM SwitchTypes == Spec => []TypeOK
<1>1. SwitchInv => TypeOK
  BY DEF SwitchInv
<1>2. QED
  BY SwitchInductive, <1>1, PTL

\* An approval is CONSUMED exactly when one operation committed under it.
THEOREM SpentOnceHolds == Spec => []SpentOnce
<1>1. SwitchInv => SpentOnce
  BY DEF SwitchInv
<1>2. QED
  BY SwitchInductive, <1>1, PTL

\* Whatever a decision that landed after expiry says, nothing is done on it.
THEOREM LateDecisionHolds == Spec => []LateDecisionIsWorthless
<1>1. SwitchInv => LateDecisionIsWorthless
  BY DEF SwitchInv, LateInv, LateDecisionIsWorthless
<1>2. QED
  BY SwitchInductive, <1>1, PTL

-----------------------------------------------------------------------------
(* What a step does to the rows and to the switch, in five kinds. *)

StandsStill == UNCHANGED <<state, what, by, signer, on, epoch>>

Asks == \E r \in Requests, w \in Payloads :
    /\ state[r] = "NONE" /\ (w \in RelaxPayloads => w.epoch <= epoch)
    /\ state' = [state EXCEPT ![r] = "PENDING"]
    /\ what' = [what EXCEPT ![r] = w]
    /\ UNCHANGED <<signer, on, epoch>>

Settles == \E r \in Requests, s \in {"APPROVED", "REJECTED", "WITHDRAWN"} :
    /\ state[r] = "PENDING" /\ state' = [state EXCEPT ![r] = s]
    /\ \A q \in Requests : q # r => signer'[q] = signer[q]
    /\ UNCHANGED <<what, on, epoch>>

Spends == \E r \in Requests :
    /\ state[r] = "APPROVED" /\ state' = [state EXCEPT ![r] = "CONSUMED"]
    /\ UNCHANGED <<what, signer>>
    /\ \/ UNCHANGED <<on, epoch>>
       \/ on /\ on' = FALSE /\ epoch' = epoch + 1 /\ what[r] = Relax(epoch)

TurnsOn == ~on /\ on' = TRUE /\ epoch' = epoch + 1 /\ UNCHANGED <<state, what, signer>>

LEMMA SwitchSteps ==
    ASSUME SwitchInv, [Next]_vars
    PROVE  StandsStill \/ Asks \/ Settles \/ Spends \/ TurnsOn
<1>0. on \in BOOLEAN
  BY DEF SwitchInv, TypeOK, CaseTypes
<1>1. ASSUME NEW c \in Calls, RaiseStep(c) PROVE StandsStill \/ Asks
  <2>1. ASSUME NEW u \in Users, NEW w \in Payloads, BeginRaise(c, u, w) PROVE StandsStill
    BY <2>1 DEF BeginRaise, StandsStill, rows, case
  <2>2. ASSUME InsertRequest(c), AwaitingTwin(arg[c]) PROVE StandsStill
    BY <2>2 DEF InsertRequest, StandsStill, rows, case
  <2>3. ASSUME InsertRequest(c), ~AwaitingTwin(arg[c]) PROVE Asks
    <3>1. arg[c] \in Payloads /\ (arg[c] \in RelaxPayloads => arg[c].epoch <= epoch)
      BY <2>3 DEF InsertRequest, SwitchInv, CallInv
    <3>2. PICK r \in Requests : /\ state[r] = "NONE"
                                /\ state' = [state EXCEPT ![r] = "PENDING"]
                                /\ what' = [what EXCEPT ![r] = arg[c]]
                                /\ UNCHANGED <<signer, since>>
      BY <2>3 DEF InsertRequest
    <3>3. UNCHANGED <<signer, on, epoch>>
      BY <2>3, <3>2 DEF InsertRequest, case
    <3>4. QED
      BY <3>1, <3>2, <3>3 DEF Asks
  <2>4. QED
    BY <1>1, <2>1, <2>2, <2>3 DEF RaiseStep
<1>2. ASSUME NEW c \in Calls, DecideStep(c) PROVE StandsStill \/ Settles
  <2>1. ASSUME NEW u \in Users, NEW r \in Requests, NEW v \in BOOLEAN, BeginDecide(c, u, r, v)
        PROVE  StandsStill
    BY <2>1 DEF BeginDecide, StandsStill, rows, case
  <2>2. ASSUME Decide(c), ~Undecided(req[c]) PROVE StandsStill
    BY <2>2 DEF Decide, StandsStill, rows, case
  <2>3. ASSUME Decide(c), Undecided(req[c]) PROVE Settles
    <3>1. req[c] \in Requests /\ state[req[c]] = "PENDING"
      BY <2>3 DEF Decide, Undecided, SwitchInv, CallInv
    <3>2. /\ state' = [state EXCEPT ![req[c]] = IF yes[c] THEN "APPROVED" ELSE "REJECTED"]
          /\ signer' = [signer EXCEPT ![req[c]] = actor[c]]
          /\ UNCHANGED <<what, on, epoch>>
      BY <2>3 DEF Decide, case
    <3>3. \A q \in Requests : q # req[c] => signer'[q] = signer[q]
      BY <3>2 DEF SwitchInv, TypeOK, RowTypes
    <3>4. QED
      BY <3>1, <3>2, <3>3 DEF Settles
  <2>4. QED
    BY <1>2, <2>1, <2>2, <2>3 DEF DecideStep
<1>3. ASSUME NEW c \in Calls, MergeStep(c) PROVE StandsStill \/ Spends
  <2>1. ASSUME SpendOnMerge(c) PROVE StandsStill \/ Spends
    <3>1. req[c] \in Requests /\ UNCHANGED <<what, by, signer, on, epoch>>
      BY <2>1 DEF SpendOnMerge, SwitchInv, CallInv
    <3>2. \/ UNCHANGED state
          \/ state[req[c]] = "APPROVED" /\ state' = [state EXCEPT ![req[c]] = "CONSUMED"]
      BY <2>1 DEF SpendOnMerge, Consumable, Consume
    <3>3. QED
      BY <3>1, <3>2 DEF StandsStill, Spends
  <2>2. ASSUME \/ \E u \in Users, p \in Pairs, r \in Requests \cup {NoRequest} : BeginMerge(c, u, p, r)
               \/ ReadMode(c) \/ ReadSwitch(c) \/ MergeAlone(c) \/ ReadApproval(c)
        PROVE  StandsStill
    BY <2>2 DEF BeginMerge, ReadMode, ReadSwitch, MergeAlone, ReadApproval, StandsStill, rows, case
  <2>3. QED
    BY <1>3, <2>1, <2>2 DEF MergeStep
<1>4. ASSUME NEW c \in Calls, PolicyStep(c) PROVE StandsStill \/ Spends \/ TurnsOn
  <2>1. ASSUME RelaxSwitch(c) PROVE StandsStill \/ Spends
    <3>1. req[c] \in Requests /\ UNCHANGED <<what, by, signer>>
      BY <2>1 DEF RelaxSwitch, SwitchInv, CallInv
    <3>2. \/ UNCHANGED <<state, on, epoch>>
          \/ /\ state[req[c]] = "APPROVED" /\ state' = [state EXCEPT ![req[c]] = "CONSUMED"]
             /\ on => what[req[c]] = Relax(epoch)
             /\ on' = FALSE /\ epoch' = EpochAfter(FALSE)
      BY <2>1 DEF RelaxSwitch, Consumable, Consume, ForThisEpoch
    <3>3. QED
      BY <1>0, <3>1, <3>2 DEF StandsStill, Spends, EpochAfter
  <2>2. ASSUME Tighten(c) PROVE StandsStill \/ TurnsOn
    BY <1>0, <2>2 DEF Tighten, StandsStill, TurnsOn, EpochAfter, rows
  <2>3. ASSUME \/ \E u \in Users, v \in BOOLEAN, r \in Requests \cup {NoRequest} : BeginPolicy(c, u, v, r)
               \/ PolicyMode(c) \/ PolicySigner(c)
        PROVE  StandsStill
    BY <2>3 DEF BeginPolicy, PolicyMode, PolicySigner, StandsStill, rows, case
  <2>4. QED
    BY <1>4, <2>1, <2>2, <2>3 DEF PolicyStep
<1>5. ASSUME NEW u \in Users, NEW r \in Requests, Withdraw(u, r) PROVE Settles
  BY <1>5 DEF Withdraw, Settles, case
<1>6. ASSUME \/ \E p \in Pairs : Reverse(p)
             \/ \E u \in Users : Grant(u) \/ Revoke(u)
             \/ ChangeMode
             \/ Tick
             \/ UNCHANGED vars
      PROVE  StandsStill
  BY <1>6 DEF Reverse, Grant, Revoke, ChangeMode, Tick, vars, StandsStill, rows, case
<1>7. QED
  BY <1>1, <1>2, <1>3, <1>4, <1>5, <1>6 DEF Next

\* The switch goes off only on an approval raised for this very "on", and
\* signed by somebody who is not its asker.
THEOREM OffByTwoHolds == Spec => OffByTwoForThisOn
<1>1. ASSUME SwitchInv, [Next]_vars, on, ~on'
      PROVE  \E r \in Requests :
               /\ state[r] = "APPROVED" /\ state'[r] = "CONSUMED"
               /\ what[r] = Relax(epoch)
               /\ signer[r] \notin {by[r], NoUser}
  <2>1. Spends
    BY <1>1, SwitchSteps DEF StandsStill, Asks, Settles, TurnsOn
  <2>2. PICK r \in Requests : /\ state[r] = "APPROVED" /\ state' = [state EXCEPT ![r] = "CONSUMED"]
                              /\ what[r] = Relax(epoch)
    BY <1>1, <2>1 DEF Spends
  <2>3. state'[r] = "CONSUMED" /\ signer[r] \in Users \ {by[r]}
    BY <1>1, <2>2 DEF SwitchInv, TypeOK, RowTypes, RowInv
  <2>4. QED
    BY <2>2, <2>3
<1>2. QED
  BY SwitchInductive, <1>1, PTL DEF Spec, OffByTwoForThisOn

\* A rejected, withdrawn or spent request never comes back, and who decided
\* one never changes.
THEOREM DecidedOnceHolds == Spec => DecidedOnce
<1>1. SwitchInv /\ [Next]_vars
        => (\A r \in Requests :
              /\ state[r] \in {"REJECTED", "WITHDRAWN", "CONSUMED"} => state'[r] = state[r]
              /\ signer[r] # NoUser => signer'[r] = signer[r])
  <2> SUFFICES ASSUME SwitchInv, [Next]_vars, NEW r \in Requests
               PROVE  /\ state[r] \in {"REJECTED", "WITHDRAWN", "CONSUMED"} => state'[r] = state[r]
                      /\ signer[r] # NoUser => signer'[r] = signer[r]
    OBVIOUS
  <2>0. state \in [Requests -> {"NONE", "PENDING", "APPROVED", "REJECTED", "WITHDRAWN", "CONSUMED"}]
    BY DEF SwitchInv, TypeOK, RowTypes
  <2>1. CASE StandsStill
    BY <2>1 DEF StandsStill
  <2>2. CASE Asks
    BY <2>0, <2>2 DEF Asks
  <2>3. CASE Settles
    BY <2>0, <2>3 DEF Settles, SwitchInv, RowInv
  <2>4. CASE Spends
    BY <2>0, <2>4 DEF Spends
  <2>5. CASE TurnsOn
    BY <2>5 DEF TurnsOn
  <2>6. QED
    BY <2>1, <2>2, <2>3, <2>4, <2>5, SwitchSteps
<1>2. QED
  BY SwitchInductive, <1>1, PTL DEF Spec, DecidedOnce

\* The requests, the routes and the trigger keep the promise of SecondSignature.
THEOREM SwitchPromiseKept == Spec => KeepsThePromise
<1>1. Init => Promise!Init
  <2> SUFFICES ASSUME Init PROVE Promise!Init
    OBVIOUS
  <2>1. Nothing \notin RelaxPayloads
    <3>1. \A w \in RelaxPayloads : w.op = "case.policy.relax"
      BY DEF RelaxPayloads, Relax
    <3>2. Nothing.op = "nothing"
      BY DEF Nothing
    <3>3. QED
      BY <3>1, <3>2
  <2>2. Ticket = [r \in Requests |-> "none"]
    BY DEF Init, Ticket
  <2>3. EraOf = [r \in Requests |-> 0]
    BY <2>1 DEF Init, EraOf
  <2>4. QED
    BY <2>2, <2>3 DEF Init, Promise!Init
<1>2. SwitchInv /\ [Next]_vars => [Promise!Next]_<<Ticket, EraOf, on, epoch>>
  <2> SUFFICES ASSUME SwitchInv, [Next]_vars
               PROVE  [Promise!Next]_<<Ticket, EraOf, on, epoch>>
    OBVIOUS
  <2> DEFINE T(s) == CASE s = "NONE" -> "none"
                       [] s = "PENDING" -> "asked"
                       [] s = "APPROVED" -> "signed"
                       [] s = "CONSUMED" -> "used"
                       [] OTHER -> "dead"
             E(w) == IF w \in RelaxPayloads THEN w.epoch ELSE 0
  <2>0. /\ state \in [Requests -> {"NONE", "PENDING", "APPROVED", "REJECTED", "WITHDRAWN", "CONSUMED"}]
        /\ what \in [Requests -> Payloads \cup {Nothing}]
        /\ on \in BOOLEAN /\ epoch \in Nat /\ epoch <= MaxEpoch + 1 /\ (on => epoch <= MaxEpoch)
    BY DEF SwitchInv, TypeOK, RowTypes, CaseTypes, EpochInv
  <2>1. /\ Ticket = [r \in Requests |-> T(state[r])] /\ Ticket' = [r \in Requests |-> T(state'[r])]
        /\ EraOf = [r \in Requests |-> E(what[r])] /\ EraOf' = [r \in Requests |-> E(what'[r])]
    BY DEF Ticket, EraOf
  <2>2. /\ T("NONE") = "none" /\ T("PENDING") = "asked" /\ T("APPROVED") = "signed"
        /\ T("CONSUMED") = "used" /\ T("REJECTED") = "dead" /\ T("WITHDRAWN") = "dead"
    OBVIOUS
  <2>3. \A e \in 0..MaxEpoch : Relax(e) \in RelaxPayloads /\ E(Relax(e)) = e
    BY DEF RelaxPayloads, Relax
  <2>4. \A w \in Payloads : E(w) \in 0..MaxEpoch
    BY DEF Payloads, RelaxPayloads, Relax
  <2> HIDE DEF T, E
  <2>5. CASE StandsStill
    BY <2>1, <2>5 DEF StandsStill
  <2>6. CASE Asks
    <3>1. PICK r \in Requests, w \in Payloads :
                 /\ state[r] = "NONE" /\ (w \in RelaxPayloads => w.epoch <= epoch)
                 /\ state' = [state EXCEPT ![r] = "PENDING"]
                 /\ what' = [what EXCEPT ![r] = w]
                 /\ UNCHANGED <<on, epoch>>
      BY <2>6 DEF Asks
    <3>2. E(w) \in 0..MaxEpoch /\ E(w) <= epoch
      BY <2>0, <2>4, <3>1 DEF E
    <3>3. Ticket[r] = "none" /\ Ticket' = [Ticket EXCEPT ![r] = "asked"]
      BY <2>0, <2>1, <2>2, <3>1
    <3>4. EraOf' = [EraOf EXCEPT ![r] = E(w)]
      BY <2>0, <2>1, <3>1
    <3>5. Promise!Ask(r)
      BY <3>1, <3>2, <3>3, <3>4 DEF Promise!Ask, Promise!Move
    <3>6. QED
      BY <3>5 DEF Promise!Next
  <2>7. CASE Settles
    <3>1. PICK r \in Requests, s \in {"APPROVED", "REJECTED", "WITHDRAWN"} :
                 /\ state[r] = "PENDING" /\ state' = [state EXCEPT ![r] = s]
                 /\ UNCHANGED <<what, on, epoch>>
      BY <2>7 DEF Settles
    <3>2. Ticket[r] = "asked" /\ Ticket' = [Ticket EXCEPT ![r] = T(s)] /\ T(s) \in {"signed", "dead"}
      BY <2>0, <2>1, <2>2, <3>1
    <3>3. UNCHANGED <<EraOf, on, epoch>>
      BY <2>1, <3>1
    <3>4. Promise!Sign(r) \/ Promise!Kill(r)
      BY <3>2, <3>3 DEF Promise!Sign, Promise!Kill, Promise!Move
    <3>5. QED
      BY <3>4 DEF Promise!Next
  <2>8. CASE Spends
    <3>1. PICK r \in Requests :
                 /\ state[r] = "APPROVED" /\ state' = [state EXCEPT ![r] = "CONSUMED"]
                 /\ UNCHANGED what
                 /\ \/ UNCHANGED <<on, epoch>>
                    \/ on /\ on' = FALSE /\ epoch' = epoch + 1 /\ what[r] = Relax(epoch)
      BY <2>8 DEF Spends
    <3>2. Ticket[r] = "signed" /\ Ticket' = [Ticket EXCEPT ![r] = "used"]
      BY <2>0, <2>1, <2>2, <3>1
    <3>3. UNCHANGED EraOf
      BY <2>1, <3>1
    <3>4. CASE UNCHANGED <<on, epoch>>
      BY <3>2, <3>3, <3>4 DEF Promise!Next, Promise!Use, Promise!Move
    <3>5. CASE on /\ on' = FALSE /\ epoch' = epoch + 1 /\ what[r] = Relax(epoch)
      <4>1. epoch \in 0..MaxEpoch
        BY <2>0, <3>5
      <4>2. EraOf[r] = epoch
        BY <2>1, <2>3, <3>5, <4>1
      <4>3. Promise!SwitchOff(r)
        BY <3>2, <3>3, <3>5, <4>2 DEF Promise!SwitchOff, Promise!Move
      <4>4. QED
        BY <4>3 DEF Promise!Next
    <3>6. QED
      BY <3>1, <3>4, <3>5
  <2>9. CASE TurnsOn
    <3>1. UNCHANGED <<Ticket, EraOf>>
      BY <2>1, <2>9 DEF TurnsOn
    <3>2. Promise!SwitchOn
      BY <2>9, <3>1 DEF TurnsOn, Promise!SwitchOn
    <3>3. QED
      BY <3>2 DEF Promise!Next
  <2>10. QED
    BY <2>5, <2>6, <2>7, <2>8, <2>9, SwitchSteps
<1>3. QED
  BY SwitchInductive, <1>1, <1>2, PTL DEF Spec, KeepsThePromise, Promise!Spec, Promise!vars

-----------------------------------------------------------------------------
(* The second person was seasoned when they signed, while calls come one   *)
(* at a time: SeasonInv is inductive                                       *)

\* A step that leaves the rows of unseasoned decisions, and the clocks.
LEMMA FreshKept ==
    ASSUME FreshInv, fresh' = fresh, UNCHANGED <<left, since, held>>,
           \A r \in fresh : state'[r] = state[r] /\ what'[r] = what[r] /\ signer'[r] = signer[r]
    PROVE  FreshInv'
  BY DEF FreshInv, Expired, Seasoned, Held

\* A call that is not about to relax.
LEMMA RelaxFree == ASSUME NEW c, Calls = {c}, pc'[c] # "relax" PROVE RelaxInv'
  BY DEF RelaxInv

\* Where a call that begins, reads on or answers is.
LEMMA CallPlace ==
    ASSUME SwitchInv, NEW c \in Calls
    PROVE  /\ \A u, l, r, w, v : Start(c, u, l, r, w, v) => pc'[c] = l
           /\ \A l : Goto(c, l) => pc'[c] = l
           /\ Answer(c) => pc'[c] = "idle"
  BY DEF Start, Goto, Answer, SwitchInv, TypeOK, CallTypes

LEMMA SeasonRaise ==
    ASSUME NEW c, Calls = {c}, SeasonInv, RaiseStep(c)
    PROVE  FreshInv' /\ RelaxInv'
<1>1. ASSUME NEW u \in Users, NEW w \in Payloads, BeginRaise(c, u, w) PROVE FreshInv' /\ RelaxInv'
  BY <1>1, FreshKept, RelaxFree, CallPlace DEF BeginRaise, SeasonInv, rows, ghost
<1>2. ASSUME InsertRequest(c) PROVE FreshInv' /\ RelaxInv'
  <2>1. \A r \in fresh : r \in Requests /\ state[r] # "NONE"
    BY DEF SeasonInv, FreshInv, SwitchInv, TypeOK, CaseTypes
  <2>2. \A r \in fresh : /\ state'[r] = state[r] /\ what'[r] = what[r] /\ signer'[r] = signer[r]
                         /\ left'[r] = left[r] /\ since'[r] = since[r]
    BY <1>2, <2>1 DEF InsertRequest, rows, ghost, SeasonInv, SwitchInv, TypeOK, RowTypes
  <2>3. fresh' = fresh /\ held' = held
    BY <1>2 DEF InsertRequest, ghost
  <2>4. FreshInv'
    BY <2>2, <2>3 DEF SeasonInv, FreshInv, Expired, Seasoned, Held
  <2>5. QED
    BY <1>2, <2>4, RelaxFree, CallPlace DEF InsertRequest, SeasonInv
<1>3. QED
  BY <1>1, <1>2 DEF RaiseStep

\* A decision by an account that is not seasoned any more starts both clocks.
LEMMA SeasonDecide ==
    ASSUME NEW c, Calls = {c}, SeasonInv, DecideStep(c)
    PROVE  FreshInv' /\ RelaxInv'
<1>1. ASSUME NEW u \in Users, NEW r \in Requests, NEW v \in BOOLEAN, BeginDecide(c, u, r, v)
      PROVE  FreshInv' /\ RelaxInv'
  BY <1>1, FreshKept, RelaxFree, CallPlace DEF BeginDecide, SeasonInv, rows, ghost
<1>2. ASSUME Decide(c) PROVE FreshInv' /\ RelaxInv'
  <2>1. RelaxInv'
    BY <1>2, RelaxFree, CallPlace DEF Decide, SeasonInv
  <2>2. CASE UNCHANGED <<rows, ghost>>
    BY <1>2, <2>2, <2>1, FreshKept DEF Decide, SeasonInv, rows, ghost
  <2> DEFINE q == req[c]
  <2>3. CASE /\ Undecided(q)
             /\ state' = [state EXCEPT ![q] = IF yes[c] THEN "APPROVED" ELSE "REJECTED"]
             /\ signer' = [signer EXCEPT ![q] = actor[c]]
             /\ since' = [since EXCEPT ![q] = 0]
             /\ fresh' = IF what[q] \in RelaxPayloads /\ ~Seasoned(actor[c], 0)
                         THEN fresh \cup {q} ELSE fresh
             /\ UNCHANGED <<what, by, left, uses>>
    <3>1. q \in Requests /\ q \notin fresh /\ actor[c] \in Users
      BY <1>2, <2>3 DEF Decide, Undecided, SeasonInv, FreshInv, SwitchInv, CallInv
    <3>2. fresh \subseteq Requests /\ left[q] \in 0..TTL /\ held' = held /\ TTL \in Nat
      BY <1>2, <3>1, ClockAssumption DEF Decide, SeasonInv, SwitchInv, TypeOK, CaseTypes, RowTypes
    <3>3. /\ state'[q] \in {"APPROVED", "REJECTED"} /\ signer'[q] = actor[c] /\ since'[q] = 0
          /\ what'[q] = what[q] /\ left'[q] = left[q]
      BY <2>3, <3>1 DEF SeasonInv, SwitchInv, TypeOK, RowTypes
    <3>4. \A r \in fresh : /\ state'[r] = state[r] /\ what'[r] = what[r] /\ signer'[r] = signer[r]
                           /\ left'[r] = left[r] /\ since'[r] = since[r]
      BY <2>3, <3>1, <3>2 DEF SeasonInv, SwitchInv, TypeOK, RowTypes
    <3>5. ASSUME NEW r \in fresh', r # q
          PROVE (/\ what[r] \in RelaxPayloads /\ signer[r] \in Users /\ state[r] \in {"APPROVED", "REJECTED"}
                 /\ Expired(r) \/ (since[r] + left[r] <= TTL /\ ~Seasoned(signer[r], since[r])))'
      <4>1. r \in fresh
        BY <2>3, <3>5
      <4>2. QED
        BY <3>2, <3>4, <4>1 DEF SeasonInv, FreshInv, Expired, Seasoned, Held
    <3>6. ASSUME q \in fresh'
          PROVE  /\ what'[q] \in RelaxPayloads /\ signer'[q] \in Users /\ state'[q] \in {"APPROVED", "REJECTED"}
                 /\ since'[q] + left'[q] <= TTL
                 /\ ~(Window = 0 \/ (held'[signer'[q]] # NotHeld /\ held'[signer'[q]] - since'[q] >= Window))
      <4>1. what[q] \in RelaxPayloads /\ ~Seasoned(actor[c], 0)
        BY <2>3, <3>1, <3>6
      <4>2. QED
        BY <3>1, <3>2, <3>3, <4>1 DEF Seasoned, Held
    <3>7. FreshInv'
      <4> SUFFICES ASSUME NEW r \in fresh'
                   PROVE (/\ what[r] \in RelaxPayloads /\ signer[r] \in Users /\ state[r] \in {"APPROVED", "REJECTED"}
                          /\ Expired(r) \/ (since[r] + left[r] <= TTL /\ ~Seasoned(signer[r], since[r])))'
        BY DEF FreshInv
      <4>1. CASE r # q
        BY <3>5, <4>1
      <4>2. CASE r = q
        BY <3>6, <4>2 DEF Seasoned, Held
      <4>3. QED
        BY <4>1, <4>2
    <3>8. QED
      BY <2>1, <3>7
  <2>4. QED
    BY <1>2, <2>2, <2>3 DEF Decide
<1>3. QED
  BY <1>1, <1>2 DEF DecideStep

\* What a call spends is not a decision by an unseasoned account.
LEMMA SeasonConsume ==
    ASSUME SeasonInv, NEW q, q \notin fresh, state' = [state EXCEPT ![q] = "CONSUMED"],
           fresh' = fresh, UNCHANGED <<what, signer, left, since, held>>
    PROVE  FreshInv'
<1>1. \A r \in fresh : state'[r] = state[r]
  BY DEF SeasonInv, SwitchInv, TypeOK, RowTypes, CaseTypes
<1>2. QED
  BY <1>1, FreshKept DEF SeasonInv

LEMMA SeasonMerge ==
    ASSUME NEW c, Calls = {c}, SeasonInv, MergeStep(c)
    PROVE  FreshInv' /\ RelaxInv'
<1>1. ASSUME NEW u \in Users, NEW p \in Pairs, NEW r \in Requests \cup {NoRequest},
             BeginMerge(c, u, p, r)
      PROVE  FreshInv' /\ RelaxInv'
  BY <1>1, FreshKept, RelaxFree, CallPlace DEF BeginMerge, SeasonInv, rows, ghost
<1>2. ASSUME ReadMode(c) \/ ReadSwitch(c) \/ MergeAlone(c) \/ ReadApproval(c)
      PROVE  FreshInv' /\ RelaxInv'
  <2>1. FreshInv'
    BY <1>2, FreshKept DEF ReadMode, ReadSwitch, MergeAlone, ReadApproval, SeasonInv, rows, ghost
  <2>2. pc'[c] # "relax"
    BY <1>2, CallPlace DEF ReadMode, ReadSwitch, MergeAlone, ReadApproval, SeasonInv
  <2>3. QED
    BY <2>1, <2>2, RelaxFree
<1>3. ASSUME SpendOnMerge(c) PROVE FreshInv' /\ RelaxInv'
  <2>1. RelaxInv'
    BY <1>3, RelaxFree, CallPlace DEF SpendOnMerge, SeasonInv
  <2>2. fresh' = fresh /\ UNCHANGED <<what, signer, left, since, held>>
    BY <1>3 DEF SpendOnMerge
  <2>3. CASE state' = state
    BY <2>1, <2>2, <2>3, FreshKept DEF SeasonInv
  <2>4. CASE Consumable(req[c], actor[c], "node.merge") /\ Consume(req[c])
    <3>1. req[c] \notin fresh
      <4>1. what[req[c]].op = "node.merge"
        BY <2>4 DEF Consumable
      <4>2. \A w \in RelaxPayloads : w.op # "node.merge"
        BY DEF RelaxPayloads, Relax
      <4>3. QED
        BY <4>1, <4>2 DEF SeasonInv, FreshInv
    <3>2. QED
      BY <2>1, <2>2, <2>4, <3>1, SeasonConsume DEF Consume
  <2>5. QED
    BY <1>3, <2>3, <2>4 DEF SpendOnMerge
<1>4. QED
  BY <1>1, <1>2, <1>3 DEF MergeStep

LEMMA SeasonPolicy ==
    ASSUME NEW c, Calls = {c}, SeasonInv, PolicyStep(c)
    PROVE  FreshInv' /\ RelaxInv'
<1>1. ASSUME NEW u \in Users, NEW v \in BOOLEAN, NEW r \in Requests \cup {NoRequest},
             BeginPolicy(c, u, v, r)
      PROVE  FreshInv' /\ RelaxInv'
  BY <1>1, FreshKept, RelaxFree, CallPlace DEF BeginPolicy, SeasonInv, rows, ghost
<1>2. ASSUME PolicyMode(c) \/ Tighten(c) PROVE FreshInv' /\ RelaxInv'
  <2>1. FreshInv'
    BY <1>2, FreshKept DEF PolicyMode, Tighten, SeasonInv, rows, ghost
  <2>2. pc'[c] # "relax"
    BY <1>2, CallPlace DEF PolicyMode, Tighten, SeasonInv
  <2>3. QED
    BY <2>1, <2>2, RelaxFree
<1>3. ASSUME PolicySigner(c) PROVE FreshInv' /\ RelaxInv'
  <2>1. FreshInv' /\ UNCHANGED <<fresh, left>>
    BY <1>3, FreshKept DEF PolicySigner, SeasonInv, rows, ghost
  <2>2. CASE Answer(c)
    BY <2>1, <2>2, RelaxFree, CallPlace DEF SeasonInv
  <2>3. CASE SignedSeasoned(req[c]) /\ UNCHANGED call
    <3>1. req[c] \in fresh => Expired(req[c])
      BY <2>3, NullAssumption DEF SignedSeasoned, SeasonInv, FreshInv
    <3>2. RelaxInv'
      BY <2>1, <2>3, <3>1 DEF RelaxInv, Expired, call
    <3>3. QED
      BY <2>1, <3>2
  <2>4. QED
    BY <1>3, <2>2, <2>3 DEF PolicySigner
<1>4. ASSUME RelaxSwitch(c) PROVE FreshInv' /\ RelaxInv'
  <2>1. RelaxInv'
    BY <1>4, RelaxFree, CallPlace DEF RelaxSwitch, SeasonInv
  <2>2. fresh' = fresh /\ UNCHANGED <<what, signer, left, since, held>>
    BY <1>4 DEF RelaxSwitch
  <2>3. CASE state' = state
    BY <2>1, <2>2, <2>3, FreshKept DEF SeasonInv
  <2>4. CASE Consumable(req[c], actor[c], "case.policy.relax") /\ Consume(req[c])
    <3>1. req[c] \notin fresh
      BY <1>4, <2>4 DEF RelaxSwitch, Consumable, SeasonInv, RelaxInv
    <3>2. QED
      BY <2>1, <2>2, <2>4, <3>1, SeasonConsume DEF Consume
  <2>5. QED
    BY <1>4, <2>3, <2>4 DEF RelaxSwitch
<1>5. QED
  BY <1>1, <1>2, <1>3, <1>4 DEF PolicyStep

\* Assignments granted and withdrawn, and the clocks that run.
LEMMA SeasonWorld ==
    ASSUME SeasonInv,
           \/ \E u \in Users, r \in Requests : Withdraw(u, r)
           \/ \E p \in Pairs : Reverse(p)
           \/ \E u \in Users : Grant(u) \/ Revoke(u)
           \/ ChangeMode
           \/ Tick
           \/ UNCHANGED vars
    PROVE  FreshInv' /\ RelaxInv'
<1>0. /\ fresh \subseteq Requests /\ TTL \in Nat /\ Window \in Nat
      /\ \A r \in Requests : left[r] \in 0..TTL /\ since[r] \in 0..TTL
      /\ held \in [Users -> {NotHeld} \cup Clocks]
  BY ClockAssumption DEF SeasonInv, SwitchInv, TypeOK, RowTypes, CaseTypes
<1>1. ASSUME NEW u \in Users, NEW r \in Requests, Withdraw(u, r) PROVE FreshInv' /\ RelaxInv'
  <2>1. \A s \in fresh : state'[s] = state[s]
    BY <1>1 DEF Withdraw, SeasonInv, FreshInv, SwitchInv, TypeOK, RowTypes
  <2>2. FreshInv'
    BY <1>1, <2>1, FreshKept DEF Withdraw, SeasonInv, ghost
  <2>3. RelaxInv'
    BY <1>1 DEF Withdraw, SeasonInv, RelaxInv, Expired, call, ghost
  <2>4. QED
    BY <2>2, <2>3
<1>2. ASSUME NEW p \in Pairs, Reverse(p) PROVE FreshInv' /\ RelaxInv'
  BY <1>2, FreshKept DEF Reverse, SeasonInv, RelaxInv, Expired, rows, call, ghost
<1>3. ASSUME NEW u \in Users, Grant(u) \/ Revoke(u) PROVE FreshInv' /\ RelaxInv'
  <2>1. RelaxInv'
    BY <1>3 DEF Grant, Revoke, SeasonInv, RelaxInv, Expired, rows, call, ghost
  <2>2. UNCHANGED <<rows, fresh>>
    BY <1>3 DEF Grant, Revoke, ghost
  <2>3. \A x \in Users : held'[x] = held[x] \/ held'[x] = NotHeld \/ held'[x] = 0
    BY <1>0, <1>3 DEF Grant, Revoke
  <2>4. ASSUME NEW r \in fresh, ~Expired(r) PROVE ~Seasoned(signer[r], since[r])'
    <3>1. signer[r] \in Users /\ ~Seasoned(signer[r], since[r]) /\ since[r] \in Nat
      BY <1>0, <2>4 DEF SeasonInv, FreshInv
    <3>2. Window > 0
      BY <1>0, <3>1 DEF Seasoned
    <3>3. ~(0 - since[r] >= Window)
      BY <1>0, <3>1, <3>2
    <3>4. QED
      BY <2>2, <2>3, <3>1, <3>2, <3>3 DEF Seasoned, Held, rows
  <2>5. FreshInv'
    BY <2>2, <2>4 DEF SeasonInv, FreshInv, Expired, rows
  <2>6. QED
    BY <2>1, <2>5
<1>4. ASSUME ChangeMode PROVE FreshInv' /\ RelaxInv'
  BY <1>4, FreshKept DEF ChangeMode, SeasonInv, RelaxInv, Expired, rows, call, ghost
<1>5. ASSUME Tick PROVE FreshInv' /\ RelaxInv'
  <2>1. UNCHANGED <<state, what, signer, pc, req, fresh>>
    BY <1>5 DEF Tick, call, ghost
  <2>2. \A r \in Requests : Expired(r) => Expired(r)'
    BY <1>0, <1>5 DEF Tick, Expired
  <2>3. RelaxInv'
    BY <1>0, <2>1, <2>2 DEF SeasonInv, RelaxInv
  <2>4. ASSUME NEW r \in fresh, ~Expired(r)'
        PROVE  since'[r] + left'[r] <= TTL /\ ~Seasoned(signer[r], since[r])'
    <3>1. r \in Requests /\ left[r] \in 0..TTL /\ since[r] \in 0..TTL /\ TTL \in Nat
      BY <1>0
    <3>2. ~Expired(r)
      BY <2>2, <2>4, <3>1
    <3>3. signer[r] \in Users /\ ~Seasoned(signer[r], since[r]) /\ since[r] + left[r] <= TTL
      BY <3>2 DEF SeasonInv, FreshInv
    <3>4. left'[r] = left[r] - 1
      BY <1>5, <3>1, <3>2 DEF Tick, Expired
    <3>5. since'[r] = since[r] + 1
      BY <1>5, <3>1, <3>2, <3>3, NullAssumption DEF Tick, Expired
    <3>6. since'[r] + left'[r] <= TTL
      BY <3>1, <3>3, <3>4, <3>5
    <3>7. held[signer[r]] = NotHeld \/ held[signer[r]] \in Nat
      BY <1>0, <3>3 DEF Clocks
    <3>8. \/ held'[signer[r]] = held[signer[r]]
          \/ held[signer[r]] # NotHeld /\ held'[signer[r]] = held[signer[r]] + 1
      BY <1>5, <3>3 DEF Tick, Held
    <3>9. ~Seasoned(signer[r], since[r])'
      BY <1>0, <2>1, <3>1, <3>3, <3>5, <3>7, <3>8 DEF Seasoned, Held, NotHeld
    <3>10. QED
      BY <3>6, <3>9
  <2>5. FreshInv'
    BY <2>1, <2>4 DEF SeasonInv, FreshInv
  <2>6. QED
    BY <2>3, <2>5
<1>6. ASSUME UNCHANGED vars PROVE FreshInv' /\ RelaxInv'
  BY <1>6, FreshKept DEF vars, SeasonInv, RelaxInv, Expired
<1>7. QED
  BY <1>1, <1>2, <1>3, <1>4, <1>5, <1>6

\* While calls come one at a time, a relaxation approved by somebody who lost or
\* was given the case again between the check and the signature is never spent.
THEOREM SeasonedSigner == ASSUME NEW c, Calls = {c} PROVE Spec => []SignedBySeasoned
<1>1. Init => SeasonInv
  BY InitInv DEF Init, SeasonInv, FreshInv, RelaxInv
<1>2. SeasonInv /\ [Next]_vars => SeasonInv'
  <2> SUFFICES ASSUME SeasonInv, [Next]_vars PROVE SeasonInv'
    OBVIOUS
  <2>1. SwitchInv'
    BY RaiseKeeps, DecideKeeps, MergeKeeps, PolicyKeeps, WorldKeeps DEF Next, SeasonInv
  <2>2. FreshInv' /\ RelaxInv'
    BY SeasonRaise, SeasonDecide, SeasonMerge, SeasonPolicy, SeasonWorld DEF Next
  <2>3. QED
    BY <2>1, <2>2 DEF SeasonInv
<1>3. SeasonInv => SignedBySeasoned
  BY DEF SeasonInv, FreshInv, SignedBySeasoned
<1>4. QED
  BY <1>1, <1>2, <1>3, PTL DEF Spec
=============================================================================
