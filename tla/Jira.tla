-------------------------------- MODULE Jira --------------------------------
(***************************************************************************)
(* Delivery to Jira (jira.py, driven by transports.dispatch_due): each due *)
(* delivery becomes an issue or a comment, one issue per work item and one *)
(* post per event, over a network that loses answers and a process that    *)
(* dies between any two statements.  Every statement commits by itself.    *)
(*                                                                         *)
(* One pass runs at a time: the drain's advisory lock goes with its        *)
(* connection.  A pass takes at most JIRA_PASS_SECONDS, less than SETTLE:  *)
(* what was fresh when it began is fresh to its end.                       *)
(*                                                                         *)
(* Jira's side is external: issues carry a ref label, a TLP label and      *)
(* posts that end with a marker; its index shows an issue after SETTLE at  *)
(* the latest; people move issues to done and delete none.                 *)
(***************************************************************************)
EXTENDS Naturals, Sequences

CONSTANTS
    Deliveries, Events, Works,
    EventOf,            \* the event a delivery tells its recipient of
    WorkOf,             \* work_key: the work item an event belongs to
    Tlp,                \* of an event; the gate composes it with the case's
    Ceiling,
    MaxAttempts,        \* 5
    ReconcilePerPass,   \* 10
    MaxLinks, MaxIssues, MaxTrouble     \* bounds of the model

Nobody == "nobody"
ASSUME JiraAssumption ==
    /\ EventOf \in [Deliveries -> Events] /\ WorkOf \in [Events -> Works]
    /\ Tlp \in [Events -> Nat] /\ Ceiling \in Nat
    /\ MaxAttempts \in Nat \ {0} /\ ReconcilePerPass \in Nat \ {0}
    /\ Nobody \notin Deliveries \cup Events

VARIABLES
    dest,       \* jira_destination: [state, broken]
    vetoed,     \* the case's owner kept it out
    optedOut,   \* deliveries whose recipient stopped receiving work items
    delivery,   \* each: [state, attempts, waiting (deliver_after), link]
    links,      \* jira_link with its jira_event rows
    tried,      \* links in the order of create_attempted_at
    issues,     \* Jira's
    pc, todo,   \* the pass: where it is, the rows _due read, with their attempts
    cur,        \* the row in hand, [of, attempts, round]
    link,       \* the link in hand, an index of links
    found,      \* the issue an answer named
    sweep,      \* links _reconcile read
    changed,    \* the destination's row was written since the pass read it
    known,      \* issues whose status this pass has cached
    trouble     \* crashes, and changes of configuration

pass   == <<pc, todo, cur, link, found, sweep, known>>
admin  == <<dest, vetoed, optedOut, changed>>
vars   == <<dest, vetoed, optedOut, delivery, links, tried, issues, pc, todo, cur, link,
            found, sweep, changed, known, trouble>>

NoRow == [of |-> Nobody, attempts |-> 0, round |-> 0]
HigherOf(a, b) == IF a > b THEN a ELSE b
Take(n, s) == SubSeq(s, 1, IF Len(s) < n THEN Len(s) ELSE n)
To(step) == pc' = step
Rest == /\ pc' = "idle" /\ todo' = {} /\ cur' = NoRow /\ link' = 0 /\ found' = 0
        /\ sweep' = << >> /\ known' = {}

NewLink(w, tlp) ==
    [work |-> w, state |-> "CREATING", issue |-> 0, tlp |-> tlp, attempt |-> "none",
     creator |-> Nobody, event |-> [e \in Events |-> "none"]]
NewIssue(l, e) ==
    [ref |-> l, label |-> Tlp[e], first |-> e, comments |-> [x \in Events |-> 0],
     done |-> FALSE, indexed |-> FALSE]
PostsOf(i, e) == issues[i].comments[e] + IF issues[i].first = e THEN 1 ELSE 0
NotedOn(l, e, state) == [links EXCEPT ![l].event[e] = state]

Event == EventOf[cur.of]
Open(w) == {l \in DOMAIN links : links[l].work = w /\ links[l].state # "CLOSED"}
Settled(d, new) == [delivery EXCEPT ![d] = [@ EXCEPT !.state = new, !.waiting = FALSE]]

-----------------------------------------------------------------------------
Init ==
    /\ dest \in [state : {"ACTIVE", "PAUSED"}, broken : {FALSE}]     \* activated once
    /\ vetoed = FALSE /\ optedOut = {}
    /\ delivery = [d \in Deliveries |->
                     [state |-> "unqueued", attempts |-> 0, waiting |-> FALSE, link |-> 0]]
    /\ links = << >> /\ tried = << >> /\ issues = << >>
    /\ pc = "idle" /\ todo = {} /\ cur = NoRow /\ link = 0 /\ found = 0 /\ sweep = << >>
    /\ known = {} /\ changed = FALSE /\ trouble = 0

Queue(d) ==
    /\ delivery[d].state = "unqueued" /\ dest.state # "RETIRED" /\ ~vetoed /\ d \notin optedOut
    /\ delivery' = [delivery EXCEPT ![d].state = "PENDING"]
    /\ UNCHANGED <<admin, links, tried, issues, pass, trouble>>

-----------------------------------------------------------------------------
(* The pass *)

Pending(d) == delivery[d].state = "PENDING"
Due(d) == Pending(d) /\ ~delivery[d].waiting
Unroutable(d) == dest.state = "RETIRED" \/ vetoed \/ d \in optedOut
Withdrawn == [d \in Deliveries |->
    IF Pending(d) /\ Unroutable(d) THEN [delivery[d] EXCEPT !.state = "SUPPRESSED"]
    ELSE delivery[d]]
Held == dest.state # "ACTIVE" \/ dest.broken

\* Created perhaps, confirmed never, and no delivery will come back to them.
Unconfirmed(l) ==
    /\ links[l].state = "CREATING" /\ links[l].attempt = "settled"
    /\ ~\E d \in Deliveries : Withdrawn[d].state = "PENDING" /\ delivery[d].link = l

\* withdraw_unroutable, live_destination, _hold_reason, _reconcile's read.
StartPass ==
    /\ pc = "idle" /\ delivery' = Withdrawn /\ changed' = FALSE
    /\ IF Held THEN UNCHANGED <<pc, sweep>>
       ELSE To("reconcile") /\ sweep' = Take(ReconcilePerPass, SelectSeq(tried, Unconfirmed))
    /\ UNCHANGED <<dest, vetoed, optedOut, links, tried, issues, todo, cur, link,
                   found, known, trouble>>

\* What a search for the ref's label may answer: 0, nothing.
Answers(l) == {i \in DOMAIN issues : issues[i].ref = l}
                  \cup IF \E i \in DOMAIN issues : issues[i].ref = l /\ issues[i].indexed
                       THEN {} ELSE {0}

Reconcile ==
    /\ pc = "reconcile" /\ sweep # << >>
    /\ \E i \in Answers(Head(sweep)) :
         IF i = 0 THEN sweep' = Tail(sweep) /\ UNCHANGED <<pc, link, found>>
         ELSE sweep' = Tail(sweep) /\ link' = Head(sweep) /\ found' = i /\ To("linked")
    /\ UNCHANGED <<admin, delivery, links, tried, issues, todo, cur, known, trouble>>

\* A failed search leaves the rest to the next pass.  _due.
ReadDue ==
    /\ pc = "reconcile" /\ To("pick") /\ sweep' = << >>
    /\ todo' = {[of |-> d, attempts |-> delivery[d].attempts, round |-> 1] : d \in {x \in Deliveries : Due(x)}}
    /\ UNCHANGED <<admin, delivery, links, tried, issues, cur, link, found, known, trouble>>

\* In the order of priority and deliver_after: any.  _still_live, can_egress.
Pick(row) ==
    /\ pc = "pick" /\ row \in todo /\ dest.state = "ACTIVE" /\ ~changed
    /\ todo' = todo \ {row}
    /\ IF Tlp[EventOf[row.of]] > Ceiling
         THEN delivery' = Settled(row.of, "REFUSED") /\ UNCHANGED <<pc, cur>>
         ELSE cur' = row /\ To("link") /\ UNCHANGED delivery
    /\ UNCHANGED <<admin, links, tried, issues, link, found, sweep, known, trouble>>

EndPass ==
    /\ pc = "pick" /\ (todo = {} \/ dest.state # "ACTIVE" \/ changed)
    /\ Rest /\ UNCHANGED <<admin, delivery, links, tried, issues, trouble>>

-----------------------------------------------------------------------------
(* One delivery: its link, then what the link and the event's row say *)

NextRow == cur' = NoRow /\ link' = 0 /\ found' = 0 /\ To("pick")      \* the next row
Again == IF cur.round = 2 THEN NextRow                                \* or deferred
         ELSE cur' = [cur EXCEPT !.round = 2] /\ link' = 0 /\ found' = 0 /\ To("link")

OpenLink ==
    /\ pc = "link" /\ Open(WorkOf[Event]) = {} /\ Len(links) < MaxLinks
    /\ links' = Append(links, NewLink(WorkOf[Event], Tlp[Event]))
    /\ UNCHANGED <<admin, delivery, tried, issues, pass, trouble>>

NeverUnsettled(l) == FALSE                                          \* a mutant
Unsettled(l) == links[l].attempt = "fresh"

Noted(d, l) == [delivery EXCEPT ![d].link = l]
Sent(d, l, spent) == [delivery EXCEPT ![d] =
    [state |-> "SENT", attempts |-> @.attempts + spent, waiting |-> FALSE, link |-> l]]

OnTheIssue(l) ==            \* ALREADY_ON_ISSUE: another recipient's post
    /\ links[l].event[Event] = "posted" /\ links[l].state = "LINKED"
    /\ delivery' = Sent(cur.of, l, 0) /\ NextRow
Defer(l) ==
    /\ \/ links[l].event[Event] = "posted" /\ links[l].state # "LINKED"
       \/ links[l].event[Event] = "fresh"
       \/ links[l].event[Event] # "posted" /\ links[l].state = "CREATING" /\ Unsettled(l)
    /\ delivery' = Noted(cur.of, l) /\ NextRow
GoOn(l) ==
    /\ links[l].event[Event] \in {"none", "settled"}
    /\ links[l].state = "CREATING" => ~Unsettled(l)
    /\ delivery' = Noted(cur.of, l) /\ link' = l /\ UNCHANGED <<cur, found>>
    /\ To(CASE links[l].state = "LINKED" -> "status"
            [] links[l].state = "CREATING" /\ links[l].attempt = "none" -> "claim"
            [] OTHER -> "search")

TakeLink ==
    /\ pc = "link"
    /\ \E l \in Open(WorkOf[Event]) : OnTheIssue(l) \/ Defer(l) \/ GoOn(l)
    /\ UNCHANGED <<admin, links, tried, issues, todo, sweep, known, trouble>>

Search ==
    /\ pc = "search"
    /\ \E i \in Answers(link) : found' = i /\ To(IF i = 0 THEN "claim" ELSE "linked")
    /\ UNCHANGED <<admin, delivery, links, tried, issues, todo, cur, link, sweep, known, trouble>>

\* The first claim tests only that nobody attempted; the next, the link too.
Claim ==
    /\ pc = "claim"
    /\ IF links[link].attempt = "none" \/ links[link].state = "CREATING"
       THEN /\ links' = [links EXCEPT ![link].attempt = "fresh", ![link].creator = Event]
            /\ tried' = Append(SelectSeq(tried, LAMBDA l : l # link), link)
            /\ To("mark") /\ UNCHANGED <<cur, link, found>>
       ELSE NextRow /\ UNCHANGED <<links, tried>>
    /\ UNCHANGED <<admin, delivery, issues, todo, sweep, known, trouble>>

\* _claim: the event's row says a post of it may be under way.
Mark ==
    /\ pc = "mark" /\ links' = NotedOn(link, Event, "fresh")
    /\ To(IF links[link].issue = 0 THEN "create" ELSE "comment")
    /\ UNCHANGED <<admin, delivery, tried, issues, todo, cur, link, found, sweep, known, trouble>>

\* The issue is made; its answer may be lost.
Create ==
    /\ pc = "create" /\ Len(issues) < MaxIssues
    /\ issues' = Append(issues, NewIssue(link, Event))
    /\ found' = Len(issues) + 1 /\ To("linked")
    /\ UNCHANGED <<admin, delivery, links, tried, todo, cur, link, sweep, known, trouble>>

\* _linked: a link closed underneath keeps its state and takes the key.
Linked ==
    /\ pc = "linked" /\ To("record")
    /\ links' = [links EXCEPT ![link].issue = IF @ = 0 THEN found ELSE @,
                              ![link].state = IF @ = "CREATING" THEN "LINKED" ELSE @]
    /\ UNCHANGED <<admin, delivery, tried, issues, todo, cur, link, found, sweep, known, trouble>>

WhoFound(l) == IF cur = NoRow THEN links[l].creator ELSE Event      \* a mutant
WhoCreated(l) == links[l].creator

\* The creator's event is on the issue.  Found for another event, the row
\* goes round again; found by _reconcile, a kept-out case's link is closed.
Record ==
    /\ pc = "record"
    /\ links' = [NotedOn(link, WhoCreated(link), "posted") EXCEPT ![link].state =
                    IF (cur = NoRow /\ vetoed /\ @ = "LINKED") THEN "CLOSED" ELSE @]
    /\ IF cur = NoRow THEN To("reconcile") /\ link' = 0 /\ found' = 0 /\ UNCHANGED cur
       ELSE IF WhoCreated(link) = Event THEN To("sent") /\ UNCHANGED <<cur, link, found>>
       ELSE Again
    /\ UNCHANGED <<admin, delivery, tried, issues, todo, sweep, known, trouble>>

SentOn ==
    /\ pc = "sent" /\ delivery' = Sent(cur.of, link, 1) /\ NextRow
    /\ UNCHANGED <<admin, links, tried, issues, todo, sweep, known, trouble>>

-----------------------------------------------------------------------------
(* On an issue that exists *)

Issue == links[link].issue

\* An answer that it is open is kept for the pass.
Status ==
    /\ pc = "status"
    /\ IF issues[Issue].done /\ Issue \notin known
       THEN /\ links' = [links EXCEPT ![link].state = "CLOSED"]
            /\ Again /\ UNCHANGED known
       ELSE /\ known' = known \cup {Issue}
            /\ To("label") /\ UNCHANGED <<links, cur, link, found>>
    /\ UNCHANGED <<admin, delivery, tried, issues, todo, sweep, trouble>>

Raises == Tlp[Event] > links[link].tlp

\* The label first, then the link's own record of it.
Label ==
    /\ pc = "label" /\ To("look")
    /\ IF Raises THEN /\ issues' = [issues EXCEPT ![Issue].label = HigherOf(@, Tlp[Event])]
                      /\ links' = [links EXCEPT ![link].tlp = Tlp[Event]]
       ELSE UNCHANGED <<issues, links>>
    /\ UNCHANGED <<admin, delivery, tried, todo, cur, link, found, sweep, known, trouble>>

\* comment_with reads comments, and not the description.
NotLooked == FALSE                                                  \* a mutant
AlreadyThere == links[link].event[Event] = "settled" /\ issues[Issue].comments[Event] > 0

Look ==
    /\ pc = "look" /\ To(IF AlreadyThere THEN "posted" ELSE "mark")
    /\ UNCHANGED <<admin, delivery, links, tried, issues, todo, cur, link, found, sweep, known, trouble>>

Comment ==
    /\ pc = "comment" /\ To("posted")
    /\ issues' = [issues EXCEPT ![Issue].comments[Event] = @ + 1]
    /\ UNCHANGED <<admin, delivery, links, tried, todo, cur, link, found, sweep, known, trouble>>

Posted ==
    /\ pc = "posted" /\ links' = NotedOn(link, Event, "posted") /\ To("sent")
    /\ UNCHANGED <<admin, delivery, tried, issues, todo, cur, link, found, sweep, known, trouble>>

-----------------------------------------------------------------------------
(* Failures *)

Trouble == trouble < MaxTrouble /\ trouble' = trouble + 1

NotCounted(tries) == tries                                          \* a mutant
Counted(tries) == tries + 1
AfterFailure(tries) == IF tries >= MaxAttempts THEN "FAILED" ELSE "PENDING"

\* The row's attempts are those _due read.  The circuit opens: the pass ends.
Failed ==
    /\ delivery' = [delivery EXCEPT ![cur.of] =
         LET tries == Counted(cur.attempts) IN
         [@ EXCEPT !.attempts = tries, !.state = AfterFailure(tries),
                   !.waiting = AfterFailure(tries) = "PENDING"]]
    /\ Rest

\* What Jira did before its answer was lost.
Done ==
    \/ UNCHANGED issues
    \/ pc = "create" /\ Len(issues) < MaxIssues /\ issues' = Append(issues, NewIssue(link, Event))
    \/ pc = "comment" /\ issues' = [issues EXCEPT ![Issue].comments[Event] = @ + 1]
    \/ pc = "label" /\ issues' = [issues EXCEPT ![Issue].label = HigherOf(@, Tlp[Event])]

\* A fault an administrator must mend breaks the destination: held until a test.
Calling == \/ pc \in {"search", "create", "comment"}
           \/ pc = "status" /\ Issue \notin known
           \/ pc = "label" /\ Raises
           \/ pc = "look" /\ links[link].event[Event] = "settled"
CallFails(config) ==
    /\ Calling /\ (config => UNCHANGED issues) /\ Done /\ Failed
    /\ dest' = [dest EXCEPT !.broken = config /\ dest.state # "RETIRED"]
    /\ UNCHANGED <<vetoed, optedOut, changed, links, tried, trouble>>

\* The process dies, and with its connection the lock.
Crash ==
    /\ pc # "idle" /\ Trouble /\ Rest /\ UNCHANGED <<admin, delivery, links, tried, issues>>

-----------------------------------------------------------------------------
(* Everyone else *)

\* SETTLE goes by: attempts settle, back-offs end, Jira's index catches up.
Settles ==
    /\ pc = "idle"
    /\ links' = [l \in DOMAIN links |-> [links[l] EXCEPT
         !.attempt = IF @ = "fresh" THEN "settled" ELSE @,
         !.event = [e \in Events |-> IF @[e] = "fresh" THEN "settled" ELSE @[e]]]]
    /\ delivery' = [d \in Deliveries |-> [delivery[d] EXCEPT !.waiting = FALSE]]
    /\ issues' = [i \in DOMAIN issues |-> [issues[i] EXCEPT !.indexed = TRUE]]
    /\ UNCHANGED <<admin, tried, pass, trouble>>

Finish(i) ==
    /\ ~issues[i].done /\ issues' = [issues EXCEPT ![i].done = TRUE]
    /\ UNCHANGED <<admin, delivery, links, tried, pass, trouble>>

Configured(state, ok) ==
    /\ Trouble /\ changed' = TRUE
    /\ dest' = [dest EXCEPT !.state = state, !.broken = @ /\ ~ok]
    /\ UNCHANGED <<vetoed, optedOut, delivery, tried, issues, pass>>
Unlinked == links' = [l \in DOMAIN links |-> [links[l] EXCEPT !.state = "CLOSED"]]

Pause    == dest.state = "ACTIVE" /\ Configured("PAUSED", FALSE) /\ UNCHANGED links
Activate == /\ dest.state \in {"DRAFT", "PAUSED"} /\ Configured("ACTIVE", TRUE)   \* after a Test
            /\ UNCHANGED links
Retire   == dest.state # "RETIRED" /\ Configured("RETIRED", FALSE) /\ Unlinked
Move     == dest.state # "RETIRED" /\ Configured("DRAFT", FALSE) /\ Unlinked
Mend     == /\ dest.state # "RETIRED" /\ dest.broken /\ Trouble        \* a Test that passes
            /\ dest' = [dest EXCEPT !.broken = FALSE]
            /\ UNCHANGED <<vetoed, optedOut, changed, delivery, links, tried, issues, pass>>

Veto ==     \* and its reversal
    /\ Trouble /\ vetoed' = ~vetoed
    /\ UNCHANGED <<dest, optedOut, changed, delivery, links, tried, issues, pass>>
OptOut(d) ==
    /\ Trouble /\ d \notin optedOut /\ optedOut' = optedOut \cup {d}
    /\ UNCHANGED <<dest, vetoed, changed, delivery, links, tried, issues, pass>>

NotYet(d) == LET l == delivery[d].link IN
    l # 0 /\ ((links[l].state = "CREATING" /\ Unsettled(l)) \/ links[l].event[EventOf[d]] = "fresh")
Requeue(d) ==
    /\ delivery[d].state = "FAILED" \/ (Pending(d) /\ delivery[d].attempts > 0)
    /\ d \notin optedOut /\ Trouble
    /\ delivery' = [delivery EXCEPT ![d] =
         [@ EXCEPT !.state = "PENDING", !.attempts = 0, !.waiting = NotYet(d)]]
    /\ UNCHANGED <<dest, vetoed, optedOut, changed, links, tried, issues, pass>>

-----------------------------------------------------------------------------
Pass == \/ Reconcile \/ ReadDue \/ (\E row \in todo : Pick(row)) \/ EndPass
        \/ OpenLink \/ TakeLink \/ Search \/ Claim \/ Mark \/ Create \/ Linked \/ Record
        \/ SentOn \/ Status \/ Label \/ Look \/ Comment \/ Posted
        \/ \E config \in BOOLEAN : CallFails(config)
Configure == \/ Pause \/ Activate \/ Retire \/ Move \/ Mend \/ Veto
             \/ \E d \in Deliveries : OptOut(d) \/ Requeue(d)

Next == \/ StartPass \/ Pass \/ Crash \/ Settles \/ Configure
        \/ \E d \in Deliveries : Queue(d)
        \/ \E i \in DOMAIN issues : Finish(i)

Spec == Init /\ [][Next]_vars

\* A drain is run again and again (cron, an operator) and time goes by, between
\* passes here; a search that keeps being made is answered in the end.
FairSpec == /\ Spec /\ WF_vars(StartPass) /\ WF_vars(Pass)
            /\ SF_vars(Settles) /\ SF_vars(Reconcile)
=============================================================================
