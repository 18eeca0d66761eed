------------------------------ MODULE JiraProofs ------------------------------
(***************************************************************************)
(* What delivery to Jira keeps for any deliveries, events, work items and  *)
(* bounds: IInv of JiraProps is inductive, so no ref has two issues, a     *)
(* delivery that says SENT is on an issue, and no step posts an event      *)
(* again but where NoSecondPost says.                                      *)
(***************************************************************************)
EXTENDS JiraProps, TLAPS

-----------------------------------------------------------------------------
(* Rows, links and issues as an UPDATE, an INSERT or Jira changes one      *)

\* A table whose rows are written in place has as many rows, each of its type.
LEMMA InPlace == ASSUME NEW S, NEW s \in Seq(S), NEW t, DOMAIN t = DOMAIN s, t = [i \in DOMAIN t |-> t[i]],
                        \A i \in DOMAIN s : t[i] \in S
                 PROVE  t \in Seq(S) /\ Len(t) = Len(s)
<1>1. DOMAIN s = 1..Len(s) /\ Len(s) \in Nat
  OBVIOUS
<1>2. t \in [1..Len(s) -> S]
  BY <1>1
<1>3. QED
  BY <1>1, <1>2

\* A link's row, field by field.
LEMMA LinkIs == ASSUME LinkTypes, NEW l \in DOMAIN links
                PROVE  /\ links[l] \in Link /\ l \in Nat /\ l # 0
                       /\ links[l].issue \in Nat /\ links[l].tlp \in Nat
                       /\ links[l].attempt \in {"none", "fresh", "settled"}
                       /\ links[l].state \in {"CREATING", "LINKED", "CLOSED"}
                       /\ links[l].creator \in Events \cup {Nobody}
                       /\ links[l].event \in [Events -> Note]
<1>1. links[l] \in Link /\ l \in Nat /\ l # 0
  BY DEF LinkTypes
<1>2. QED
  BY <1>1 DEF Link

\* An issue, field by field.
LEMMA IssueIs == ASSUME IssueTypes, NEW i \in DOMAIN issues
                 PROVE  /\ issues[i] \in Ticket /\ i \in Nat /\ i # 0
                        /\ issues[i].ref \in Nat /\ issues[i].first \in Events /\ issues[i].label \in Nat
                        /\ issues[i].comments \in [Events -> Nat]
<1>1. issues[i] \in Ticket /\ i \in Nat /\ i # 0
  BY DEF IssueTypes
<1>2. QED
  BY <1>1 DEF Ticket

\* A delivery's row, field by field.
LEMMA DeliveryIs == ASSUME DeliveryTypes, NEW d \in Deliveries
                    PROVE  /\ delivery[d] \in Delivery
                           /\ delivery[d].attempts \in Nat /\ delivery[d].link \in Nat
  BY DEF DeliveryTypes, Delivery

\* An event's row is written: the link's other columns and events stay.
LEMMA NotedIs == ASSUME LinkTypes, NEW l \in DOMAIN links, NEW e \in Events, NEW s \in Note,
                        NEW n, n = NotedOn(l, e, s)
                 PROVE  /\ n \in Seq(Link) /\ DOMAIN n = DOMAIN links
                        /\ \A k \in DOMAIN links :
                             /\ n[k].issue = links[k].issue /\ n[k].state = links[k].state
                             /\ n[k].attempt = links[k].attempt /\ n[k].creator = links[k].creator
                             /\ n[k].work = links[k].work /\ n[k].tlp = links[k].tlp
                             /\ \A x \in Events :
                                  n[k].event[x] = IF k = l /\ x = e THEN s ELSE links[k].event[x]
<1>1. links[l] \in Link /\ links[l].event \in [Events -> Note]
  BY LinkIs
<1>2. n = [links EXCEPT ![l] = [links[l] EXCEPT !.event = [links[l].event EXCEPT ![e] = s]]]
  BY DEF NotedOn
<1>3. [links[l].event EXCEPT ![e] = s] \in [Events -> Note]
  BY <1>1
<1>4. [links[l] EXCEPT !.event = [links[l].event EXCEPT ![e] = s]] \in Link
  BY <1>1, <1>3 DEF Link
<1>5. n \in Seq(Link) /\ DOMAIN n = DOMAIN links
  BY <1>2, <1>4 DEF LinkTypes
<1>6. ASSUME NEW k \in DOMAIN links
      PROVE /\ n[k].issue = links[k].issue /\ n[k].state = links[k].state
            /\ n[k].attempt = links[k].attempt /\ n[k].creator = links[k].creator
            /\ n[k].work = links[k].work /\ n[k].tlp = links[k].tlp
            /\ n[k].event = IF k = l THEN [links[l].event EXCEPT ![e] = s] ELSE links[k].event
  <2>1. CASE k = l
    BY <1>1, <1>2, <2>1 DEF Link
  <2>2. CASE k # l
    BY <1>2, <2>2
  <2>3. QED
    BY <2>1, <2>2
<1>7. \A k \in DOMAIN links : \A x \in Events :
        n[k].event[x] = IF k = l /\ x = e THEN s ELSE links[k].event[x]
  BY <1>1, <1>6
<1>8. QED
  BY <1>5, <1>6, <1>7

\* A comment is added: the issue's other fields and events stay.
Commented(i, e) == [issues EXCEPT ![i].comments[e] = @ + 1]
LEMMA CommentedIs == ASSUME IssueTypes, NEW i \in DOMAIN issues, NEW e \in Events,
                            NEW n, n = Commented(i, e)
                     PROVE  /\ n \in Seq(Ticket) /\ DOMAIN n = DOMAIN issues
                            /\ \A k \in DOMAIN issues :
                                 /\ n[k].ref = issues[k].ref /\ n[k].first = issues[k].first
                                 /\ n[k].indexed = issues[k].indexed
                                 /\ \A x \in Events : n[k].comments[x] =
                                      IF k = i /\ x = e THEN issues[k].comments[x] + 1 ELSE issues[k].comments[x]
<1>1. issues[i] \in Ticket /\ issues[i].comments \in [Events -> Nat]
  BY IssueIs
<1>2. PICK m : m = [issues[i].comments EXCEPT ![e] = issues[i].comments[e] + 1]
  OBVIOUS
<1>3. n = [issues EXCEPT ![i] = [issues[i] EXCEPT !.comments = m]]
  BY <1>2 DEF Commented
<1>4. m \in [Events -> Nat] /\ \A x \in Events : m[x] = IF x = e THEN issues[i].comments[x] + 1 ELSE issues[i].comments[x]
  BY <1>1, <1>2
<1>5. [issues[i] EXCEPT !.comments = m] \in Ticket
  BY <1>1, <1>4 DEF Ticket
<1>6. n \in Seq(Ticket) /\ DOMAIN n = DOMAIN issues
  BY <1>3, <1>5 DEF IssueTypes
<1>7. ASSUME NEW k \in DOMAIN issues
      PROVE /\ n[k].ref = issues[k].ref /\ n[k].first = issues[k].first /\ n[k].indexed = issues[k].indexed
            /\ n[k].comments = IF k = i THEN m ELSE issues[k].comments
  <2>1. CASE k = i
    BY <1>1, <1>3, <2>1 DEF Ticket
  <2>2. CASE k # i
    BY <1>3, <2>2
  <2>3. QED
    BY <2>1, <2>2
<1>8. QED
  BY <1>4, <1>6, <1>7

-----------------------------------------------------------------------------
(* What a step that makes or notes no post leaves as it was                *)

\* No attempt, claim, key, post or index changes: links may close.
Mild ==
    /\ DOMAIN links' = DOMAIN links /\ DOMAIN issues' = DOMAIN issues
    /\ \A l \in DOMAIN links :
         /\ links'[l].issue = links[l].issue /\ links'[l].attempt = links[l].attempt
         /\ links'[l].creator = links[l].creator /\ links'[l].event = links[l].event
         /\ links'[l].state \in {links[l].state, "CLOSED"}
    /\ \A i \in DOMAIN issues :
         /\ issues'[i].ref = issues[i].ref /\ issues'[i].first = issues[i].first
         /\ issues'[i].comments = issues[i].comments /\ issues'[i].indexed = issues[i].indexed

\* Nothing posted is lost.
Grown ==
    /\ \A i \in DOMAIN issues : /\ i \in DOMAIN issues' /\ issues'[i].ref = issues[i].ref
                                /\ \A e \in Events : PostsOf(i, e) > 0 => PostsOf(i, e)' > 0

\* Tables nobody writes.
LEMMA SameIsMild == ASSUME links' = links, issues' = issues PROVE Mild
  BY DEF Mild

\* So whatever is posted stays.
LEMMA MildGrows == ASSUME Mild PROVE Grown
  BY DEF Mild, Grown, PostsOf

\* Then issues and links are as they were to each other.
LEMMA MildKeeps == ASSUME IInv, Mild PROVE Filed' /\ Keyed' /\ OneIssuePerRef' /\ Told'
<1>1. Filed'
  BY DEF IInv, Mild, Filed
<1>2. Keyed'
  BY DEF IInv, Mild, Keyed
<1>3. OneIssuePerRef'
  BY DEF IInv, Mild, OneIssuePerRef
<1>4. Told'
  BY DEF IInv, Mild, Told, PostsOf
<1>5. QED
  BY <1>1, <1>2, <1>3, <1>4

\* And the pass knows what it knew.
LEMMA MildStep == ASSUME IInv, Mild, UNCHANGED <<pc, todo, cur, link, found>> PROVE AtStep'
<1>1. \A l : NoIssue(l)' <=> NoIssue(l)
  BY DEF Mild, NoIssue
<1>2. link \in DOMAIN links =>
        /\ links'[link].issue = links[link].issue /\ links'[link].attempt = links[link].attempt
        /\ links'[link].creator = links[link].creator /\ links'[link].event = links[link].event
  BY DEF Mild
<1>3. link \in DOMAIN links /\ links[link].issue # 0 =>
        issues'[links[link].issue].comments = issues[links[link].issue].comments
  BY DEF IInv, Keyed, Mild
<1>4. found \in DOMAIN issues => found \in DOMAIN issues' /\ issues'[found].ref = issues[found].ref
  BY DEF Mild
<1>5. link \in DOMAIN links => link \in DOMAIN links'
  BY DEF Mild
<1>6. link \in DOMAIN links => (Making' <=> Making) /\ (Lacking' <=> Lacking)
  BY <1>1, <1>2, <1>3 DEF Making, Lacking, Event, Issue
<1>7. NoIssue(link)' <=> NoIssue(link)
  BY <1>1 DEF NoIssue
<1>8. Event' = Event
  BY DEF Event
<1>9. link \in DOMAIN links /\ links[link].issue # 0 => issues'[Issue'].comments = issues[Issue].comments
  BY <1>2, <1>3 DEF Issue
<1>10. QED
  BY <1>2, <1>4, <1>5, <1>6, <1>7, <1>8, <1>9 DEF IInv, AtStep

\* What says SENT was so before, or is on an issue now.
LEMMA SentKept == ASSUME IInv, Grown,
                         \A d \in Deliveries : delivery'[d].state = "SENT" =>
                           delivery[d].state = "SENT" /\ delivery'[d].link = delivery[d].link
                  PROVE  SentIsThere'
<1>1. ASSUME NEW d \in Deliveries, delivery'[d].state = "SENT"
      PROVE \E i \in DOMAIN issues' : issues'[i].ref = delivery'[d].link /\ PostsOf(i, EventOf[d])' > 0
  <2>1. PICK i \in DOMAIN issues : issues[i].ref = delivery[d].link /\ PostsOf(i, EventOf[d]) > 0
    BY <1>1 DEF IInv, SentIsThere
  <2>2. EventOf[d] \in Events
    BY JiraAssumption
  <2>3. QED
    BY <1>1, <2>1, <2>2 DEF Grown
<1>2. QED
  BY <1>1 DEF SentIsThere

\* An event's row that says posted said so before, or is of a post now.
LEMMA ToldKept == ASSUME IInv, Grown,
                         \A l \in DOMAIN links' : \A e \in Events : links'[l].event[e] = "posted" =>
                           \/ l \in DOMAIN links /\ links[l].event[e] = "posted"
                           \/ \E i \in DOMAIN issues : issues[i].ref = l /\ PostsOf(i, e) > 0
                  PROVE  Told'
<1>1. ASSUME NEW l \in DOMAIN links', NEW e \in Events, links'[l].event[e] = "posted"
      PROVE \E i \in DOMAIN issues' : issues'[i].ref = l /\ PostsOf(i, e)' > 0
  <2>1. PICK i \in DOMAIN issues : issues[i].ref = l /\ PostsOf(i, e) > 0
    BY <1>1 DEF IInv, Told
  <2>2. QED
    BY <2>1 DEF Grown
<1>2. QED
  BY <1>1 DEF Told

\* Rows in hand stay so while nobody else settles their deliveries.
LEMMA RowsKept == ASSUME IInv, todo' \subseteq todo,
                         \/ cur' = cur \/ cur' = NoRow
                         \/ cur \in Row /\ cur' \in Row /\ cur'.of = cur.of /\ cur'.attempts = cur.attempts,
                         \A d \in Deliveries :
                           /\ Pending(d) /\ (d # cur.of \/ cur' # NoRow) => delivery'[d].state = "PENDING"
                           /\ delivery'[d].attempts <= MaxAttempts
                           /\ delivery'[d].state \in {"unqueued", "PENDING"} =>
                                delivery'[d].attempts < MaxAttempts
                  PROVE  Rows'
<1>1. NoRow.of = Nobody /\ NoRow \notin Row /\ Nobody \notin Deliveries
  BY JiraAssumption DEF NoRow, Row
<1>2. \A r \in todo : r.of \in Deliveries /\ r.of # cur.of /\ Pending(r.of) /\ r.attempts < MaxAttempts
  BY DEF IInv, TypeOK, PassTypes, Row, Rows
<1>3. \A r \in todo' : r.of # cur'.of
  BY <1>1, <1>2
<1>4. \A r \in todo' : delivery'[r.of].state = "PENDING" /\ r.attempts < MaxAttempts
  BY <1>2
<1>5. cur' \in Row => cur \in Row /\ cur'.of = cur.of /\ cur'.attempts = cur.attempts
  BY <1>1
<1>6. cur' \in Row => cur.of \in Deliveries /\ delivery'[cur.of].state = "PENDING" /\ cur.attempts < MaxAttempts
  BY <1>1, <1>5 DEF IInv, Rows, Row
<1>7. \A r, s \in todo' : r.of = s.of => r = s
  BY DEF IInv, Rows
<1>8. QED
  BY <1>3, <1>4, <1>5, <1>6, <1>7 DEF Rows, Pending

\* Rows are of deliveries, and those of a pass are due.
LEMMA CurIs == ASSUME IInv, cur \in Row
               PROVE  /\ cur.of \in Deliveries /\ cur.attempts \in Nat /\ Event \in Events
                      /\ delivery[cur.of].state = "PENDING" /\ delivery[cur.of].attempts < MaxAttempts
                      /\ cur.attempts < MaxAttempts /\ cur.round \in {1, 2} /\ cur # NoRow
<1>1. cur.of \in Deliveries /\ cur.attempts \in Nat /\ cur.round \in {1, 2}
  BY DEF Row
<1>2. Event \in Events
  BY <1>1, JiraAssumption DEF Event
<1>3. cur # NoRow
  BY <1>1, JiraAssumption DEF NoRow
<1>4. QED
  BY <1>1, <1>2, <1>3 DEF IInv, Rows, Pending

\* A delivery nobody writes is tried as often as before.
LEMMA TriesKept == ASSUME IInv, NEW d \in Deliveries
                   PROVE /\ delivery[d].attempts <= MaxAttempts
                         /\ delivery[d].state \in {"unqueued", "PENDING"} =>
                              delivery[d].attempts < MaxAttempts
  BY DEF IInv, Rows

\* Between rows and between passes nothing is in hand.
LEMMA Idling == ASSUME pc' \in {"idle", "reconcile", "pick"}, cur' = NoRow,
                       pc' = "idle" => todo' = {}
                PROVE  AtStep'
  BY DEF AtStep

\* A row in hand with no link yet.
LEMMA Starting == ASSUME pc' = "link", cur' \in Row PROVE AtStep'
  BY DEF AtStep

\* The next row, or the same one again.
LEMMA NextIs == ASSUME NextRow PROVE cur' = NoRow /\ pc' = "pick" /\ link' = 0 /\ found' = 0
  BY DEF NextRow, To

\* Round a second time, or deferred.
LEMMA AgainIs == ASSUME cur \in Row, Again
                 PROVE  /\ \/ cur' = NoRow /\ pc' = "pick"
                           \/ cur' \in Row /\ cur'.of = cur.of /\ cur'.attempts = cur.attempts /\ pc' = "link"
                        /\ cur' \in Row \cup {NoRow} /\ pc' \in {"pick", "link"} /\ link' = 0 /\ found' = 0
<1>1. CASE cur.round = 2
  BY <1>1, NextIs DEF Again
<1>2. CASE cur.round # 2
  <2>1. cur' = [cur EXCEPT !.round = 2] /\ pc' = "link" /\ link' = 0 /\ found' = 0
    BY <1>2 DEF Again, To
  <2>2. cur' \in Row /\ cur'.of = cur.of /\ cur'.attempts = cur.attempts
    BY <2>1 DEF Row
  <2>3. QED
    BY <2>1, <2>2
<1>3. QED
  BY <1>1, <1>2

\* The pass is over, or its process died.
LEMMA RestIs == ASSUME Rest
                PROVE pc' = "idle" /\ todo' = {} /\ cur' = NoRow /\ link' = 0 /\ found' = 0 /\ known' = {}
  BY DEF Rest

\* The destination's row is written in place.
LEMMA DestIs == ASSUME AdminTypes, NEW s \in {"DRAFT", "ACTIVE", "PAUSED", "RETIRED"}, NEW b \in BOOLEAN
                PROVE  [dest EXCEPT !.state = s, !.broken = b] \in
                         [state : {"DRAFT", "ACTIVE", "PAUSED", "RETIRED"}, broken : BOOLEAN]
  BY DEF AdminTypes

\* A change of its state, and perhaps of its fault, keeps its types.
LEMMA ConfiguredIs == ASSUME AdminTypes, NEW s \in {"DRAFT", "ACTIVE", "PAUSED", "RETIRED"}, NEW ok \in BOOLEAN,
                             Configured(s, ok)
                      PROVE  AdminTypes'
<1>1. PICK b \in BOOLEAN : b <=> (dest.broken /\ ~ok)
  <2>1. (dest.broken /\ ~ok) \in BOOLEAN
    OBVIOUS
  <2>2. QED
    BY <2>1, Zenon
<1>2. b = (dest.broken /\ ~ok)
  <2>1. dest.broken \in BOOLEAN
    BY DEF AdminTypes
  <2>2. QED
    BY <1>1, <2>1, Zenon
<1>3. dest' = [dest EXCEPT !.state = s, !.broken = b]
  BY <1>2, Zenon DEF Configured
<1>4. dest' \in [state : {"DRAFT", "ACTIVE", "PAUSED", "RETIRED"}, broken : BOOLEAN]
  BY <1>3, DestIs
<1>5. vetoed' = vetoed /\ optedOut' = optedOut /\ changed' = TRUE /\ trouble' = trouble + 1
  BY DEF Configured, Trouble
<1>6. QED
  BY <1>4, <1>5 DEF AdminTypes


-----------------------------------------------------------------------------
(* What Jira does with a call                                              *)

\* An issue is made where the ref has none, by the attempt the link tells of.
LEMMA CreatedKeeps == ASSUME IInv, Event \in Events, link \in DOMAIN links, Making,
                             issues' = Append(issues, NewIssue(link, Event)), links' = links
                      PROVE  /\ IssueTypes' /\ Filed' /\ Keyed' /\ OneIssuePerRef' /\ Told' /\ Grown
                             /\ Len(issues) + 1 \in DOMAIN issues' /\ issues'[Len(issues) + 1].ref = link
<1> DEFINE n == Len(issues) + 1
<1> DEFINE new == NewIssue(link, Event)
<1>1. /\ new \in Ticket /\ new.ref = link /\ new.first = Event /\ new.indexed = FALSE
      /\ \A e \in Events : new.comments[e] = 0
  BY LinkIs, JiraAssumption DEF NewIssue, Ticket, IInv, TypeOK
<1>2. issues \in Seq(Ticket)
  BY DEF IInv, TypeOK, IssueTypes
<1>3. /\ issues' \in Seq(Ticket) /\ DOMAIN issues' = DOMAIN issues \cup {n} /\ n \notin DOMAIN issues
      /\ issues'[n] = new /\ \A i \in DOMAIN issues : issues'[i] = issues[i]
  <2>1. DOMAIN issues = 1..Len(issues) /\ Len(issues) \in Nat
    BY <1>2
  <2>2. issues' = Append(issues, new)
    OBVIOUS
  <2>3. issues' \in Seq(Ticket) /\ Len(issues') = Len(issues) + 1
    BY <1>1, <1>2, <2>2
  <2>4. \A i \in 1..Len(issues) + 1 : issues'[i] = IF i <= Len(issues) THEN issues[i] ELSE new
    BY <1>1, <1>2, <2>2
  <2>5. DOMAIN issues' = 1..Len(issues) + 1
    BY <2>3
  <2>6. QED
    BY <2>1, <2>3, <2>4, <2>5
<1> HIDE DEF n, new
<1>4. \A i \in DOMAIN issues : issues[i].ref # link
  BY DEF Making, NoIssue
<1>5. Filed'
  <2>1. ASSUME NEW i \in DOMAIN issues
        PROVE LET l == issues[i].ref IN
              /\ l \in DOMAIN links /\ links[l].attempt # "none" /\ links[l].creator = issues[i].first
              /\ links[l].attempt = "settled" => issues[i].indexed
              /\ \A e \in Events : issues[i].comments[e] > 0 => links[l].event[e] # "none"
    BY DEF IInv, Filed
  <2>2. links[link].attempt = "fresh" /\ links[link].creator = Event
    BY DEF Making
  <2>3. \A i \in DOMAIN issues' : (i = n /\ issues'[i] = new) \/ (i \in DOMAIN issues /\ issues'[i] = issues[i])
    BY <1>3
  <2>4. QED
    BY <1>1, <2>1, <2>2, <2>3 DEF Filed
<1>6. Keyed'
  BY <1>3 DEF IInv, Keyed
<1>7. OneIssuePerRef'
  BY <1>1, <1>3, <1>4 DEF IInv, OneIssuePerRef
<1>8. Grown
  BY <1>3 DEF Grown, PostsOf
<1>9. Told'
  BY <1>8, ToldKept
<1>10. IssueTypes' /\ n \in DOMAIN issues' /\ issues'[n].ref = link
  BY <1>1, <1>3 DEF IssueTypes
<1>11. QED
  BY <1>5, <1>6, <1>7, <1>8, <1>9, <1>10 DEF n

\* The link's issue is the ref's, and the first post on it is its creator's.
LEMMA IssueHere == ASSUME IInv, link \in DOMAIN links, links[link].issue # 0
                   PROVE  Issue \in DOMAIN issues /\ issues[Issue].ref = link
                          /\ issues[Issue].first = links[link].creator /\ links[link].creator \in Events
                          /\ \A e \in Events : issues[Issue].comments[e] > 0 => links[link].event[e] # "none"
<1>1. Issue \in DOMAIN issues /\ issues[Issue].ref = link
  BY DEF IInv, Keyed, Issue
<1>2. issues[Issue].first \in Events
  BY <1>1, IssueIs DEF IInv, TypeOK
<1>3. QED
  BY <1>1, <1>2 DEF IInv, Filed

\* A post is counted.
LEMMA PostsIs == ASSUME IInv, NEW i \in DOMAIN issues, NEW e \in Events
                 PROVE  /\ PostsOf(i, e) \in Nat
                        /\ issues[i].comments[e] > 0 \/ issues[i].first = e => PostsOf(i, e) > 0
<1>1. issues[i].comments[e] \in Nat
  BY IssueIs DEF IInv, TypeOK
<1>2. QED
  BY <1>1 DEF PostsOf

\* A comment is made whose event's row says it may be.
LEMMA CommentKeeps == ASSUME IInv, Event \in Events, link \in DOMAIN links, links[link].issue # 0,
                             links[link].event[Event] # "none",
                             issues' = Commented(Issue, Event), links' = links
                      PROVE  /\ IssueTypes' /\ Filed' /\ Keyed' /\ OneIssuePerRef' /\ Told' /\ Grown
                             /\ issues'[Issue].comments[Event] > 0
<1>1. Issue \in DOMAIN issues /\ issues[Issue].ref = link
  BY IssueHere
<1>2. /\ issues' \in Seq(Ticket) /\ DOMAIN issues' = DOMAIN issues
      /\ \A k \in DOMAIN issues :
           /\ issues'[k].ref = issues[k].ref /\ issues'[k].first = issues[k].first
           /\ issues'[k].indexed = issues[k].indexed
           /\ \A x \in Events : issues'[k].comments[x] =
                IF k = Issue /\ x = Event THEN issues[k].comments[x] + 1 ELSE issues[k].comments[x]
  <2>1. IssueTypes
    BY DEF IInv, TypeOK
  <2>2. QED
    BY <1>1, <2>1, CommentedIs
<1>3. \A k \in DOMAIN issues : \A x \in Events : issues[k].comments[x] \in Nat
  BY IssueIs DEF IInv, TypeOK
<1>4. Filed'
  <2>1. ASSUME NEW i \in DOMAIN issues, NEW e \in Events, issues'[i].comments[e] > 0
        PROVE links[issues[i].ref].event[e] # "none"
    <3>1. CASE i = Issue /\ e = Event
      BY <1>1, <3>1
    <3>2. CASE ~(i = Issue /\ e = Event)
      BY <1>2, <2>1, <3>2 DEF IInv, Filed
    <3>3. QED
      BY <3>1, <3>2
  <2>2. QED
    BY <1>2, <2>1 DEF IInv, Filed
<1>5. Keyed'
  BY <1>2 DEF IInv, Keyed
<1>6. OneIssuePerRef'
  BY <1>2 DEF IInv, OneIssuePerRef
<1>7. Grown
  <2>1. ASSUME NEW i \in DOMAIN issues, NEW e \in Events, PostsOf(i, e) > 0
        PROVE issues'[i].comments[e] + (IF issues'[i].first = e THEN 1 ELSE 0) > 0
    BY <1>2, <1>3, <2>1 DEF PostsOf
  <2>2. QED
    BY <1>2, <2>1 DEF Grown, PostsOf
<1>8. Told'
  BY <1>7, ToldKept
<1>9. IssueTypes' /\ issues'[Issue].comments[Event] > 0
  <2>1. issues[Issue].comments[Event] \in Nat
    BY <1>1, <1>3
  <2>2. issues'[Issue].comments[Event] = issues[Issue].comments[Event] + 1
    BY <1>1, <1>2
  <2>3. QED
    BY <1>2, <2>1, <2>2 DEF IssueTypes
<1>10. QED
  BY <1>4, <1>5, <1>6, <1>7, <1>8, <1>9

\* A label is raised: no post, ref or index changes.
LEMMA LabelIs == ASSUME IInv, Event \in Events, link \in DOMAIN links, links[link].issue # 0,
                        issues' = [issues EXCEPT ![Issue].label = HigherOf(@, Tlp[Event])]
                 PROVE  /\ IssueTypes' /\ DOMAIN issues' = DOMAIN issues
                        /\ \A i \in DOMAIN issues :
                             /\ issues'[i].ref = issues[i].ref /\ issues'[i].first = issues[i].first
                             /\ issues'[i].comments = issues[i].comments
                             /\ issues'[i].indexed = issues[i].indexed
<1>1. Issue \in DOMAIN issues
  BY IssueHere
<1>2. PICK m : m = HigherOf(issues[Issue].label, Tlp[Event])
  OBVIOUS
<1>3. issues[Issue] \in Ticket /\ issues[Issue].label \in Nat /\ Tlp[Event] \in Nat
  BY <1>1, IssueIs, JiraAssumption DEF IInv, TypeOK
<1>4. m \in Nat
  BY <1>2, <1>3 DEF HigherOf
<1>5. issues' = [issues EXCEPT ![Issue] = [issues[Issue] EXCEPT !.label = m]]
  BY <1>2
<1>6. [issues[Issue] EXCEPT !.label = m] \in Ticket
  BY <1>3, <1>4 DEF Ticket
<1>7. issues \in Seq(Ticket)
  BY DEF IInv, TypeOK, IssueTypes
<1>8. issues' \in Seq(Ticket) /\ DOMAIN issues' = DOMAIN issues
  BY <1>1, <1>5, <1>6, <1>7
<1>9. ASSUME NEW i \in DOMAIN issues
      PROVE /\ issues'[i].ref = issues[i].ref /\ issues'[i].first = issues[i].first
            /\ issues'[i].comments = issues[i].comments /\ issues'[i].indexed = issues[i].indexed
  <2>1. CASE i = Issue
    BY <1>3, <1>5, <2>1 DEF Ticket
  <2>2. CASE i # Issue
    BY <1>5, <2>2
  <2>3. QED
    BY <2>1, <2>2
<1>10. QED
  BY <1>8, <1>9 DEF IssueTypes

\* What a delivery's row becomes when it is sent.
LEMMA SentRow == ASSUME IInv, NEW d \in Deliveries, NEW l \in Nat, NEW k \in Nat, delivery' = Sent(d, l, k)
                 PROVE  /\ delivery' \in [Deliveries -> Delivery]
                        /\ \A x \in Deliveries : x # d => delivery'[x] = delivery[x]
                        /\ delivery'[d].state = "SENT" /\ delivery'[d].link = l
                        /\ delivery'[d].attempts = delivery[d].attempts + k
<1> DEFINE r == [state |-> "SENT", attempts |-> delivery[d].attempts + k, waiting |-> FALSE, link |-> l]
<1>1. delivery' = [delivery EXCEPT ![d] = r]
  BY DEF Sent
<1>2. r \in Delivery
  BY DeliveryIs DEF IInv, TypeOK, Delivery
<1>3. QED
  BY <1>1, <1>2 DEF IInv, TypeOK, DeliveryTypes

\* What it becomes when its link is noted.
LEMMA NotedRow == ASSUME IInv, NEW d \in Deliveries, NEW l \in Nat, delivery' = Noted(d, l)
                  PROVE  /\ delivery' \in [Deliveries -> Delivery]
                         /\ \A x \in Deliveries : x # d => delivery'[x] = delivery[x]
                         /\ delivery'[d].state = delivery[d].state
                         /\ delivery'[d].attempts = delivery[d].attempts
<1>1. delivery' = [delivery EXCEPT ![d] = [delivery[d] EXCEPT !.link = l]]
  BY DEF Noted
<1>2. delivery[d] \in Delivery
  BY DeliveryIs DEF IInv, TypeOK
<1>3. [delivery[d] EXCEPT !.link = l] \in Delivery
  BY <1>2 DEF Delivery
<1>4. QED
  BY <1>1, <1>2, <1>3 DEF IInv, TypeOK, DeliveryTypes, Delivery

\* What is posted when a delivery becomes SENT.
LEMMA SentHere == ASSUME IInv, Grown, NEW d \in Deliveries, NEW l \in DOMAIN links,
                         links[l].event[EventOf[d]] = "posted",
                         delivery'[d].link = l, \A x \in Deliveries : x # d => delivery'[x] = delivery[x]
                  PROVE  SentIsThere'
<1>1. EventOf[d] \in Events
  BY JiraAssumption
<1>2. PICK i \in DOMAIN issues : issues[i].ref = l /\ PostsOf(i, EventOf[d]) > 0
  BY <1>1 DEF IInv, Told
<1>3. i \in DOMAIN issues' /\ issues'[i].ref = l /\ PostsOf(i, EventOf[d])' > 0
  BY <1>1, <1>2 DEF Grown
<1>4. ASSUME NEW x \in Deliveries, x # d, delivery'[x].state = "SENT"
      PROVE \E j \in DOMAIN issues' : issues'[j].ref = delivery'[x].link /\ PostsOf(j, EventOf[x])' > 0
  <2>1. PICK j \in DOMAIN issues : issues[j].ref = delivery[x].link /\ PostsOf(j, EventOf[x]) > 0
    BY <1>4 DEF IInv, SentIsThere
  <2>2. EventOf[x] \in Events
    BY JiraAssumption
  <2>3. QED
    BY <1>4, <2>1, <2>2 DEF Grown
<1>5. QED
  BY <1>3, <1>4 DEF SentIsThere

-----------------------------------------------------------------------------
(* Queueing and the pass *)

\* An event is queued for a recipient.
LEMMA QueueInv == ASSUME IInv, NEW d \in Deliveries, Queue(d)
                  PROVE  IInv'
<1>1. \A x \in Deliveries : /\ x # d => delivery'[x] = delivery[x]
                            /\ delivery'[d].state = "PENDING" /\ delivery'[d].attempts = delivery[d].attempts
                            /\ delivery[d].state = "unqueued" /\ delivery' \in [Deliveries -> Delivery]
  <2>1. delivery' = [delivery EXCEPT ![d] = [delivery[d] EXCEPT !.state = "PENDING"]]
    BY DEF Queue
  <2>2. delivery[d] \in Delivery
    BY DeliveryIs DEF IInv, TypeOK
  <2>3. [delivery[d] EXCEPT !.state = "PENDING"] \in Delivery
    BY <2>2 DEF Delivery
  <2>4. delivery' \in [Deliveries -> Delivery] /\ delivery'[d] = [delivery[d] EXCEPT !.state = "PENDING"]
    BY <2>1, <2>3 DEF IInv, TypeOK, DeliveryTypes
  <2>5. QED
    BY <2>1, <2>2, <2>4 DEF Delivery, Queue, IInv, Rows, TypeOK, DeliveryTypes
<1>2. AdminTypes'
  BY JiraAssumption DEF IInv, TypeOK, AdminTypes, Queue, pass, admin
<1>3. DeliveryTypes'
  BY <1>1 DEF DeliveryTypes
<1>4. LinkTypes'
  BY DEF IInv, TypeOK, LinkTypes, Queue, pass, admin
<1>5. IssueTypes'
  BY DEF IInv, TypeOK, IssueTypes, Queue, pass, admin
<1>6. PassTypes'
  BY JiraAssumption DEF IInv, TypeOK, PassTypes, Row, Queue, pass, admin
<1>7. Mild
  BY SameIsMild DEF Queue, pass, admin
<1>8. Filed' /\ Keyed' /\ OneIssuePerRef' /\ Told'
  BY <1>7, MildKeeps
<1>9. AtStep'
  BY <1>7, MildStep DEF Queue, pass, admin
<1>10. Rows'
  BY RowsKept, TriesKept, <1>1, JiraAssumption DEF Queue, Pending, pass, admin
<1>11. SentIsThere'
  BY <1>7, MildGrows, SentKept, <1>1 DEF Queue, pass, admin
<1>12. QED
  BY <1>2, <1>3, <1>4, <1>5, <1>6, <1>8, <1>9, <1>10, <1>11 DEF IInv, TypeOK

\* A pass withdraws what has nowhere to go, and reads what is unconfirmed.
LEMMA StartPassInv == ASSUME IInv, StartPass
                      PROVE  IInv'
<1>1. \A d \in Deliveries : delivery'[d] \in Delivery /\ delivery'[d].attempts = delivery[d].attempts
        /\ delivery'[d].state \in {delivery[d].state, "SUPPRESSED"} /\ delivery'[d].link = delivery[d].link
  <2>1. ASSUME NEW d \in Deliveries, NEW s \in {"SUPPRESSED"}
        PROVE LET r == [delivery[d] EXCEPT !.state = s]
              IN r \in Delivery /\ r.attempts = delivery[d].attempts /\ r.state = s /\ r.link = delivery[d].link
    BY DeliveryIs DEF IInv, TypeOK, Delivery
  <2>2. \A d \in Deliveries : delivery'[d] = delivery[d] \/ delivery'[d] = [delivery[d] EXCEPT !.state = "SUPPRESSED"]
    BY DEF StartPass, Withdrawn
  <2>3. \A d \in Deliveries : delivery[d] \in Delivery
    BY DeliveryIs DEF IInv, TypeOK
  <2>4. QED
    BY <2>1, <2>2, <2>3
<1>2. todo' = todo /\ cur' = cur /\ cur = NoRow /\ todo = {} /\ pc' \in {"idle", "reconcile"}
  BY DEF StartPass, To, IInv, AtStep
<1>3. AdminTypes'
  BY JiraAssumption DEF IInv, TypeOK, AdminTypes, StartPass, To
<1>4. DeliveryTypes'
  BY <1>1 DEF StartPass, Withdrawn, DeliveryTypes
<1>5. LinkTypes'
  BY DEF IInv, TypeOK, LinkTypes, StartPass, To
<1>6. IssueTypes'
  BY DEF IInv, TypeOK, IssueTypes, StartPass, To
<1>7. PassTypes'
  BY JiraAssumption DEF IInv, TypeOK, PassTypes, Row, StartPass, To
<1>8. Mild
  BY SameIsMild DEF StartPass, To
<1>9. Filed' /\ Keyed' /\ OneIssuePerRef' /\ Told'
  BY <1>8, MildKeeps
<1>10. AtStep'
  BY <1>2, Idling
<1>11. Rows'
  BY <1>2, <1>1, TriesKept, JiraAssumption DEF NoRow, Row, Rows, Pending
<1>12. SentIsThere'
  BY <1>8, MildGrows, SentKept, <1>1 DEF StartPass, To
<1>13. QED
  BY <1>3, <1>4, <1>5, <1>6, <1>7, <1>9, <1>10, <1>11, <1>12 DEF IInv, TypeOK

\* A link whose create was uncertain is searched for.
LEMMA ReconcileInv == ASSUME IInv, Reconcile
                      PROVE  IInv'
<1>1. /\ todo' = todo /\ cur' = cur /\ cur = NoRow /\ delivery' = delivery /\ known' = known
      /\ \/ pc' = "reconcile" /\ link' = link /\ found' = found
         \/ pc' = "linked" /\ found' \in DOMAIN issues /\ link' = issues[found'].ref
  BY DEF Reconcile, Answers, To, IInv, AtStep
<1>2. AdminTypes'
  BY JiraAssumption DEF IInv, TypeOK, AdminTypes, Reconcile, admin, To
<1>3. DeliveryTypes'
  BY DEF IInv, TypeOK, DeliveryTypes, Reconcile, admin, To
<1>4. LinkTypes'
  BY DEF IInv, TypeOK, LinkTypes, Reconcile, admin, To
<1>5. IssueTypes'
  BY DEF IInv, TypeOK, IssueTypes, Reconcile, admin, To
<1>6. PassTypes'
  BY <1>1, IssueIs, JiraAssumption DEF IInv, TypeOK, PassTypes, Row
<1>7. Mild
  BY SameIsMild DEF Reconcile, admin, To
<1>8. Filed' /\ Keyed' /\ OneIssuePerRef' /\ Told'
  BY <1>7, MildKeeps
<1>9. AtStep'
  <2>1. CASE pc' = "reconcile"
    BY <1>1, <2>1, Idling
  <2>2. CASE pc' = "linked"
    BY <1>1, <1>7, <2>2 DEF AtStep, Mild, IInv, Filed
  <2>3. QED
    BY <1>1, <2>1, <2>2
<1>10. Rows'
  BY RowsKept, TriesKept DEF Reconcile, Pending, admin, To
<1>11. SentIsThere'
  BY <1>7, MildGrows, SentKept DEF Reconcile, admin, To
<1>12. QED
  BY <1>2, <1>3, <1>4, <1>5, <1>6, <1>8, <1>9, <1>10, <1>11 DEF IInv, TypeOK

\* What is due is read.
LEMMA ReadDueInv == ASSUME IInv, ReadDue
                    PROVE  IInv'
<1>1. /\ todo' = {[of |-> d, attempts |-> delivery[d].attempts, round |-> 1] : d \in {x \in Deliveries : Due(x)}}
      /\ cur' = cur /\ cur = NoRow /\ pc' = "pick" /\ delivery' = delivery
  BY DEF ReadDue, To, IInv, AtStep
<1>2. \A r \in todo' : /\ r \in Row /\ Pending(r.of) /\ r.attempts = delivery[r.of].attempts
                       /\ r = [of |-> r.of, attempts |-> delivery[r.of].attempts, round |-> 1]
  BY <1>1, DeliveryIs DEF Due, Row, IInv, TypeOK
<1>3. AdminTypes'
  BY JiraAssumption DEF IInv, TypeOK, AdminTypes, ReadDue, admin, To
<1>4. DeliveryTypes'
  BY DEF IInv, TypeOK, DeliveryTypes, ReadDue, admin, To
<1>5. LinkTypes'
  BY DEF IInv, TypeOK, LinkTypes, ReadDue, admin, To
<1>6. IssueTypes'
  BY DEF IInv, TypeOK, IssueTypes, ReadDue, admin, To
<1>7. PassTypes'
  BY <1>1, <1>2 DEF ReadDue, IInv, TypeOK, PassTypes
<1>8. Mild
  BY SameIsMild DEF ReadDue, admin, To
<1>9. Filed' /\ Keyed' /\ OneIssuePerRef' /\ Told'
  BY <1>8, MildKeeps
<1>10. AtStep'
  BY <1>1, Idling
<1>11. Rows'
  <2>1. \A r \in todo' : r.of \in Deliveries /\ r.of # cur'.of
    BY <1>1, <1>2, JiraAssumption DEF Row, NoRow
  <2>2. \A r \in todo' : Pending(r.of)' /\ r.attempts < MaxAttempts
    BY <1>1, <1>2, TriesKept, <2>1 DEF Pending
  <2>3. \A r, s \in todo' : r.of = s.of => r = s
    BY <1>2
  <2>4. cur' \notin Row
    BY <1>1, JiraAssumption DEF Row, NoRow
  <2>5. QED
    BY <1>1, TriesKept, <2>1, <2>2, <2>3, <2>4 DEF Rows
<1>12. SentIsThere'
  BY <1>8, MildGrows, SentKept DEF ReadDue, admin, To
<1>13. QED
  BY <1>3, <1>4, <1>5, <1>6, <1>7, <1>9, <1>10, <1>11, <1>12 DEF IInv, TypeOK

\* A row is taken up, or refused at the gate.
LEMMA PickInv == ASSUME IInv, NEW row \in todo, Pick(row)
                 PROVE  IInv'
<1>1. row \in Row /\ row.of \in Deliveries /\ Pending(row.of) /\ row.attempts < MaxAttempts /\ cur = NoRow
  BY DEF Pick, IInv, TypeOK, PassTypes, Row, AtStep, Rows
<1>2. /\ todo' = todo \ {row} /\ delivery' \in [Deliveries -> Delivery]
      /\ \A d \in Deliveries : d # row.of => delivery'[d] = delivery[d]
      /\ \/ /\ cur' = NoRow /\ pc' = "pick" /\ delivery'[row.of].state = "REFUSED"
            /\ delivery'[row.of].attempts = delivery[row.of].attempts
         \/ cur' = row /\ pc' = "link" /\ delivery' = delivery
  <2>1. CASE Tlp[EventOf[row.of]] > Ceiling
    <3>1. delivery' = [delivery EXCEPT ![row.of] = [delivery[row.of] EXCEPT !.state = "REFUSED", !.waiting = FALSE]]
      BY <2>1 DEF Pick, Settled
    <3>2. delivery[row.of] \in Delivery
      BY <1>1, DeliveryIs DEF IInv, TypeOK
    <3>3. [delivery[row.of] EXCEPT !.state = "REFUSED", !.waiting = FALSE] \in Delivery
      BY <3>2 DEF Delivery
    <3>4. delivery' \in [Deliveries -> Delivery]
          /\ delivery'[row.of] = [delivery[row.of] EXCEPT !.state = "REFUSED", !.waiting = FALSE]
      BY <1>1, <3>1, <3>3 DEF IInv, TypeOK, DeliveryTypes
    <3>5. delivery'[row.of].state = "REFUSED" /\ delivery'[row.of].attempts = delivery[row.of].attempts
      BY <3>2, <3>4 DEF Delivery
    <3>6. QED
      BY <1>1, <2>1, <3>1, <3>4, <3>5 DEF Pick
  <2>2. CASE ~(Tlp[EventOf[row.of]] > Ceiling)
    BY <2>2 DEF Pick, To, IInv, TypeOK, DeliveryTypes
  <2>3. QED
    BY <2>1, <2>2
<1>3. AdminTypes'
  BY JiraAssumption DEF IInv, TypeOK, AdminTypes, Pick, admin, To
<1>4. DeliveryTypes'
  BY <1>2 DEF DeliveryTypes
<1>5. LinkTypes'
  BY DEF IInv, TypeOK, LinkTypes, Pick, admin, To
<1>6. IssueTypes'
  BY DEF IInv, TypeOK, IssueTypes, Pick, admin, To
<1>7. PassTypes'
  BY <1>1, <1>2 DEF Pick, IInv, TypeOK, PassTypes
<1>8. Mild
  BY SameIsMild DEF Pick, admin, To
<1>9. Filed' /\ Keyed' /\ OneIssuePerRef' /\ Told'
  BY <1>8, MildKeeps
<1>10. AtStep'
  BY <1>1, <1>2, Idling, Starting
<1>11. Rows'
  <2>1. /\ \A r \in todo' : r \in todo /\ r # row /\ r.of # row.of /\ r.of \in Deliveries
        /\ \A r, s \in todo' : r.of = s.of => r = s
    BY <1>2 DEF IInv, Rows, TypeOK, PassTypes, Row
  <2>2. cur' = NoRow \/ cur' = row
    BY <1>2
  <2>3. \A r \in todo' : r.of # cur'.of /\ Pending(r.of)' /\ r.attempts < MaxAttempts
    BY <1>2, <2>1, <2>2, JiraAssumption DEF IInv, Rows, Pending, NoRow
  <2>4. cur' \in Row => Pending(cur.of)' /\ cur'.attempts < MaxAttempts
    BY <1>1, <1>2, JiraAssumption DEF Row, NoRow, Pending
  <2>5. \A d \in Deliveries : /\ delivery'[d].attempts <= MaxAttempts
                              /\ delivery'[d].state \in {"unqueued", "PENDING"} =>
                                   delivery'[d].attempts < MaxAttempts
    BY <1>1, <1>2, TriesKept
  <2>6. QED
    BY <2>1, <2>3, <2>4, <2>5 DEF Rows
<1>12. SentIsThere'
  BY <1>8, MildGrows, SentKept, <1>1, <1>2 DEF Pick, admin, To
<1>13. QED
  BY <1>3, <1>4, <1>5, <1>6, <1>7, <1>9, <1>10, <1>11, <1>12 DEF IInv, TypeOK

\* The pass is over.
LEMMA EndPassInv == ASSUME IInv, EndPass
                    PROVE  IInv'
<1>1. pc' = "idle" /\ todo' = {} /\ cur' = NoRow /\ link' = 0 /\ found' = 0 /\ known' = {} /\ delivery' = delivery
  BY RestIs DEF EndPass
<1>2. AdminTypes'
  BY JiraAssumption DEF IInv, TypeOK, AdminTypes, EndPass, admin
<1>3. DeliveryTypes'
  BY DEF IInv, TypeOK, DeliveryTypes, EndPass, admin
<1>4. LinkTypes'
  BY DEF IInv, TypeOK, LinkTypes, EndPass, admin
<1>5. IssueTypes'
  BY DEF IInv, TypeOK, IssueTypes, EndPass, admin
<1>6. PassTypes'
  BY <1>1 DEF PassTypes
<1>7. Mild
  BY SameIsMild DEF EndPass, admin
<1>8. Filed' /\ Keyed' /\ OneIssuePerRef' /\ Told'
  BY <1>7, MildKeeps
<1>9. AtStep'
  BY <1>1, Idling
<1>10. Rows'
  BY RowsKept, TriesKept, <1>1 DEF EndPass, Pending, admin
<1>11. SentIsThere'
  BY <1>7, MildGrows, SentKept DEF EndPass, admin
<1>12. QED
  BY <1>2, <1>3, <1>4, <1>5, <1>6, <1>8, <1>9, <1>10, <1>11 DEF IInv, TypeOK

-----------------------------------------------------------------------------
(* One delivery, to an issue *)

\* A link is opened for a work item that has none.
LEMMA OpenLinkInv == ASSUME IInv, OpenLink
                     PROVE  IInv'
<1>1. cur \in Row /\ cur.of \in Deliveries /\ Event \in Events
  BY CurIs DEF OpenLink, IInv, AtStep
<1>2. issues' = issues /\ delivery' = delivery /\ pc' = "link" /\ cur' = cur /\ todo' = todo
  BY DEF OpenLink, pass, admin, To
<1>3. /\ links' \in Seq(Link) /\ DOMAIN links' = DOMAIN links \cup {Len(links) + 1}
      /\ Len(links) + 1 \notin DOMAIN links /\ \A l \in DOMAIN links : links'[l] = links[l]
      /\ links'[Len(links) + 1].issue = 0 /\ links'[Len(links) + 1].state = "CREATING"
      /\ \A e \in Events : links'[Len(links) + 1].event[e] = "none"
  <2>1. PICK new : new = NewLink(WorkOf[Event], Tlp[Event])
    OBVIOUS
  <2>2. /\ new \in Link /\ new.issue = 0 /\ new.state = "CREATING" /\ \A e \in Events : new.event[e] = "none"
    BY <1>1, <2>1, JiraAssumption DEF NewLink, Link, Note
  <2>3. links \in Seq(Link) /\ links' = Append(links, new)
    BY <2>1 DEF OpenLink, IInv, TypeOK, LinkTypes
  <2>4. DOMAIN links = 1..Len(links) /\ Len(links) \in Nat
    BY <2>3
  <2>5. links' \in Seq(Link) /\ Len(links') = Len(links) + 1
    BY <2>2, <2>3
  <2>6. \A l \in 1..Len(links) + 1 : links'[l] = IF l <= Len(links) THEN links[l] ELSE new
    BY <2>2, <2>3
  <2>7. DOMAIN links' = 1..Len(links) + 1
    BY <2>5
  <2>8. QED
    BY <2>2, <2>4, <2>5, <2>6, <2>7
<1>4. Grown
  BY <1>2 DEF Grown, PostsOf
<1>5. AdminTypes'
  BY JiraAssumption DEF IInv, TypeOK, AdminTypes, OpenLink, pass, admin
<1>6. DeliveryTypes'
  BY DEF IInv, TypeOK, DeliveryTypes, OpenLink, pass, admin
<1>7. LinkTypes'
  BY <1>3 DEF LinkTypes
<1>8. IssueTypes'
  BY DEF IInv, TypeOK, IssueTypes, OpenLink, pass, admin
<1>9. PassTypes'
  BY JiraAssumption DEF IInv, TypeOK, PassTypes, Row, OpenLink, pass, admin
<1>10. Filed'
  BY <1>2, <1>3 DEF IInv, Filed
<1>11. Keyed'
  BY <1>2, <1>3 DEF IInv, Keyed
<1>12. OneIssuePerRef'
  BY <1>2 DEF IInv, OneIssuePerRef
<1>13. Told'
  BY <1>2, <1>3, <1>4, ToldKept DEF IInv, Told
<1>14. AtStep'
  BY <1>1, <1>2, Starting
<1>15. Rows'
  BY RowsKept, TriesKept, <1>2 DEF OpenLink, Pending, pass, admin
<1>16. SentIsThere'
  BY <1>2, <1>4, SentKept
<1>17. QED
  BY <1>5, <1>6, <1>7, <1>8, <1>9, <1>10, <1>11, <1>12, <1>13, <1>14, <1>15, <1>16 DEF IInv, TypeOK

\* The link is taken: the event is on its issue, or must wait, or goes on.
LEMMA TakeLinkInv == ASSUME IInv, TakeLink
                     PROVE  IInv'
<1>1. cur \in Row /\ cur.of \in Deliveries /\ Event \in Events
  BY CurIs DEF TakeLink, IInv, AtStep
<1>2. PICK l \in DOMAIN links : /\ links[l].state # "CLOSED"
                                /\ OnTheIssue(l) \/ Defer(l) \/ GoOn(l)
  BY DEF TakeLink, Open
<1>3. issues' = issues /\ links' = links /\ todo' = todo /\ known' = known /\ pc = "link"
  BY DEF TakeLink
<1>4. l \in Nat /\ l # 0
  BY LinkIs DEF IInv, TypeOK
<1>5. /\ delivery' \in [Deliveries -> Delivery]
      /\ \A d \in Deliveries : d # cur.of => delivery'[d] = delivery[d]
      /\ delivery'[cur.of].attempts = delivery[cur.of].attempts
      /\ \/ delivery'[cur.of].state = delivery[cur.of].state
         \/ /\ delivery'[cur.of].state = "SENT" /\ delivery'[cur.of].link = l
            /\ links[l].event[Event] = "posted" /\ cur' = NoRow
  <2>1. CASE OnTheIssue(l)
    <3>1. delivery' = Sent(cur.of, l, 0) /\ links[l].event[Event] = "posted" /\ cur' = NoRow
      BY <2>1, NextIs DEF OnTheIssue
    <3>2. delivery[cur.of].attempts + 0 = delivery[cur.of].attempts
      BY <1>1, DeliveryIs DEF IInv, TypeOK
    <3>3. QED
      BY <1>1, <1>4, <3>1, <3>2, SentRow
  <2>2. CASE Defer(l) \/ GoOn(l)
    <3>1. delivery' = Noted(cur.of, l)
      BY <2>2 DEF Defer, GoOn
    <3>2. QED
      BY <1>1, <1>4, <3>1, NotedRow
  <2>3. QED
    BY <1>2, <2>1, <2>2
<1>6. \/ cur' = NoRow /\ pc' = "pick" /\ link' = 0 /\ found' = 0
      \/ /\ cur' = cur /\ link' = l /\ found' = found /\ links[l].event[Event] \in {"none", "settled"}
         /\ \/ pc' = "status" /\ links[l].state = "LINKED"
            \/ pc' = "claim" /\ links[l].state = "CREATING" /\ links[l].attempt = "none"
            \/ pc' = "search" /\ links[l].state = "CREATING" /\ links[l].attempt = "settled"
  <2>1. CASE OnTheIssue(l) \/ Defer(l)
    BY <2>1, NextIs DEF OnTheIssue, Defer
  <2>2. CASE GoOn(l)
    <3>1. links[l].state \in {"CREATING", "LINKED"} /\ links[l].attempt \in {"none", "fresh", "settled"}
      BY <1>2, LinkIs DEF IInv, TypeOK
    <3>2. links[l].state = "CREATING" => links[l].attempt # "fresh"
      BY <2>2 DEF GoOn, Unsettled
    <3>3. pc' = CASE links[l].state = "LINKED" -> "status"
                  [] links[l].state = "CREATING" /\ links[l].attempt = "none" -> "claim"
                  [] OTHER -> "search"
      BY <2>2 DEF GoOn, To
    <3>4. /\ cur' = cur /\ link' = l /\ found' = found /\ links[l].event[Event] \in {"none", "settled"}
      BY <2>2 DEF GoOn
    <3>5. QED
      BY <3>1, <3>2, <3>3, <3>4
  <2>3. QED
    BY <1>2, <2>1, <2>2
<1>7. AdminTypes'
  BY JiraAssumption DEF IInv, TypeOK, AdminTypes, TakeLink, admin, To
<1>8. DeliveryTypes'
  BY <1>5 DEF DeliveryTypes
<1>9. LinkTypes'
  BY DEF IInv, TypeOK, LinkTypes, TakeLink, admin, To
<1>10. IssueTypes'
  BY DEF IInv, TypeOK, IssueTypes, TakeLink, admin, To
<1>11. PassTypes'
  BY <1>3, <1>6, <1>4, <1>1 DEF IInv, TypeOK, PassTypes
<1>12. Mild
  BY SameIsMild DEF TakeLink, admin, To
<1>13. Filed' /\ Keyed' /\ OneIssuePerRef' /\ Told'
  BY <1>12, MildKeeps
<1>14. AtStep'
  <2>1. CASE pc' = "pick"
    BY <1>6, <2>1, Idling
  <2>2. CASE pc' # "pick"
    <3>1. (links[l].state = "LINKED" => links[l].issue # 0) /\ (links[l].state = "CREATING" => links[l].issue = 0)
      BY DEF IInv, Keyed
    <3>2. pc' = "claim" => NoIssue(l)
      BY <1>6, <2>2 DEF IInv, Filed, NoIssue
    <3>3. NoIssue(link)' <=> NoIssue(l)
      BY <1>6, <1>3, <2>2 DEF NoIssue
    <3>4. /\ links'[link'].issue = links[l].issue /\ links'[link'].attempt = links[l].attempt
          /\ links'[link'].event = links[l].event /\ Event' = Event /\ link' \in DOMAIN links' /\ cur' \in Row
      BY <1>6, <1>3, <1>1, <2>2 DEF Event
    <3>5. QED
      BY <1>6, <2>2, <3>1, <3>2, <3>3, <3>4 DEF AtStep
  <2>3. QED
    BY <2>1, <2>2
<1>15. Rows'
  <2>1. \A d \in Deliveries : Pending(d) /\ (d # cur.of \/ cur' # NoRow) => delivery'[d].state = "PENDING"
    BY <1>5, <1>1 DEF Pending
  <2>2. \A d \in Deliveries : /\ delivery'[d].attempts <= MaxAttempts
                              /\ delivery'[d].state \in {"unqueued", "PENDING"} =>
                                   delivery'[d].attempts < MaxAttempts
    BY <1>5, <1>1, TriesKept
  <2>3. cur' = cur \/ cur' = NoRow
    BY <1>6
  <2>4. QED
    BY <1>3, <2>1, <2>2, <2>3, RowsKept
<1>16. SentIsThere'
  <2>1. CASE delivery'[cur.of].state = delivery[cur.of].state
    <3>1. delivery[cur.of].state = "PENDING"
      BY <1>1, CurIs
    <3>2. QED
      BY <1>12, MildGrows, <1>5, <1>1, <2>1, <3>1, SentKept
  <2>2. CASE delivery'[cur.of].state # delivery[cur.of].state
    BY <1>12, MildGrows, <1>5, <1>1, <2>2, SentHere DEF Event
  <2>3. QED
    BY <2>1, <2>2
<1>17. QED
  BY <1>7, <1>8, <1>9, <1>10, <1>11, <1>13, <1>14, <1>15, <1>16 DEF IInv, TypeOK

\* The ref is searched for before the create is claimed again.
LEMMA SearchInv == ASSUME IInv, Search
                   PROVE  IInv'
<1>1. cur \in Row /\ cur.of \in Deliveries /\ Event \in Events /\ link \in DOMAIN links
  BY CurIs DEF Search, IInv, AtStep
<1>2. issues' = issues /\ links' = links /\ delivery' = delivery /\ cur' = cur /\ todo' = todo /\ link' = link /\ known' = known
  BY DEF Search
<1>3. links[link].attempt = "settled" /\ links[link].issue = 0
  BY DEF Search, IInv, AtStep
<1>4. \/ pc' = "claim" /\ found' = 0 /\ NoIssue(link)
      \/ pc' = "linked" /\ found' \in DOMAIN issues /\ issues[found'].ref = link
  <2>1. PICK i \in Answers(link) : found' = i /\ pc' = IF i = 0 THEN "claim" ELSE "linked"
    BY DEF Search, To
  <2>2. \A k \in DOMAIN issues : k # 0
    BY IssueIs DEF IInv, TypeOK
  <2>3. CASE i = 0
    <3>1. ~\E k \in DOMAIN issues : issues[k].ref = link /\ issues[k].indexed
      BY <2>1, <2>2, <2>3 DEF Answers
    <3>2. NoIssue(link)
      BY <1>3, <3>1 DEF IInv, Filed, NoIssue
    <3>3. QED
      BY <2>1, <2>3, <3>2
  <2>4. CASE i # 0
    BY <2>1, <2>4 DEF Answers
  <2>5. QED
    BY <2>3, <2>4
<1>5. AdminTypes'
  BY JiraAssumption DEF IInv, TypeOK, AdminTypes, Search, admin, To
<1>6. DeliveryTypes'
  BY DEF IInv, TypeOK, DeliveryTypes, Search, admin, To
<1>7. LinkTypes'
  BY DEF IInv, TypeOK, LinkTypes, Search, admin, To
<1>8. IssueTypes'
  BY DEF IInv, TypeOK, IssueTypes, Search, admin, To
<1>9. PassTypes'
  BY <1>2, <1>4, IssueIs DEF IInv, TypeOK, PassTypes
<1>10. Mild
  BY SameIsMild DEF Search, admin, To
<1>11. Filed' /\ Keyed' /\ OneIssuePerRef' /\ Told'
  BY <1>10, MildKeeps
<1>12. AtStep'
  <2>1. NoIssue(link)' <=> NoIssue(link)
    BY <1>2 DEF NoIssue
  <2>2. QED
    BY <1>1, <1>2, <1>3, <1>4, <2>1 DEF AtStep
<1>13. Rows'
  BY RowsKept, TriesKept, <1>2 DEF Search, Pending, admin, To
<1>14. SentIsThere'
  BY <1>10, MildGrows, SentKept DEF Search, admin, To
<1>15. QED
  BY <1>5, <1>6, <1>7, <1>8, <1>9, <1>11, <1>12, <1>13, <1>14 DEF IInv, TypeOK

\* The create is claimed: an attempt may be under way.
LEMMA ClaimInv == ASSUME IInv, Claim
                  PROVE  IInv'
<1>1. cur \in Row /\ cur.of \in Deliveries /\ Event \in Events /\ link \in DOMAIN links
  BY CurIs DEF Claim, IInv, AtStep
<1>2. issues' = issues /\ delivery' = delivery /\ todo' = todo /\ known' = known
  BY DEF Claim
<1>3. NoIssue(link) /\ links[link].issue = 0
  BY DEF Claim, IInv, AtStep
<1>4. \/ cur' = NoRow /\ pc' = "pick" /\ link' = 0 /\ found' = 0 /\ links' = links
      \/ /\ cur' = cur /\ link' = link /\ found' = found /\ pc' = "mark"
         /\ links' = [links EXCEPT ![link] = [links[link] EXCEPT !.attempt = "fresh", !.creator = Event]]
  <2>1. CASE links[link].attempt = "none" \/ links[link].state = "CREATING"
    <3>1. links' = [links EXCEPT ![link].attempt = "fresh", ![link].creator = Event]
          /\ cur' = cur /\ link' = link /\ found' = found /\ pc' = "mark"
      BY <2>1 DEF Claim, To
    <3>2. links' = [links EXCEPT ![link] = [links[link] EXCEPT !.attempt = "fresh", !.creator = Event]]
      BY <1>1, <3>1
    <3>3. QED
      BY <3>1, <3>2
  <2>2. CASE ~(links[link].attempt = "none" \/ links[link].state = "CREATING")
    BY <2>2, NextIs DEF Claim
  <2>3. QED
    BY <2>1, <2>2
<1>5. /\ links' \in Seq(Link) /\ DOMAIN links' = DOMAIN links
      /\ \A l \in DOMAIN links : /\ links'[l].issue = links[l].issue /\ links'[l].state = links[l].state
                                 /\ links'[l].event = links[l].event /\ (l # link => links'[l] = links[l])
      /\ pc' = "mark" => links'[link].attempt = "fresh" /\ links'[link].creator = Event
      /\ pc' # "mark" => links' = links
  <2>1. links \in Seq(Link) /\ links[link] \in Link
    BY <1>1, LinkIs DEF IInv, TypeOK, LinkTypes
  <2>2. CASE pc' # "mark"
    BY <1>4, <2>1, <2>2
  <2>3. CASE pc' = "mark"
    <3>1. PICK r : r = [links[link] EXCEPT !.attempt = "fresh", !.creator = Event]
      OBVIOUS
    <3>2. /\ r \in Link /\ r.issue = links[link].issue /\ r.state = links[link].state
          /\ r.event = links[link].event /\ r.attempt = "fresh" /\ r.creator = Event
      BY <1>1, <2>1, <3>1 DEF Link
    <3>3. links' = [links EXCEPT ![link] = r]
      BY <1>4, <2>3, <3>1
    <3>4. QED
      BY <1>1, <2>1, <2>3, <3>2, <3>3
  <2>4. QED
    BY <2>2, <2>3
<1>6. Grown
  BY <1>2 DEF Grown, PostsOf
<1>7. AdminTypes'
  BY JiraAssumption DEF IInv, TypeOK, AdminTypes, Claim, admin, To
<1>8. DeliveryTypes'
  BY DEF IInv, TypeOK, DeliveryTypes, Claim, admin, To
<1>9. LinkTypes'
  BY <1>5 DEF LinkTypes
<1>10. IssueTypes'
  BY DEF IInv, TypeOK, IssueTypes, Claim, admin, To
<1>11. PassTypes'
  BY <1>2, <1>4, <1>1 DEF IInv, TypeOK, PassTypes
<1>12. Filed'
  BY <1>2, <1>5, <1>3 DEF IInv, Filed, NoIssue
<1>13. Keyed'
  BY <1>2, <1>5 DEF IInv, Keyed
<1>14. OneIssuePerRef'
  BY <1>2 DEF IInv, OneIssuePerRef
<1>15. Told'
  BY <1>2, <1>5, <1>6, ToldKept DEF IInv, Told
<1>16. AtStep'
  <2>1. CASE pc' = "mark"
    <3>1. NoIssue(link)' <=> NoIssue(link)
      BY <1>2, <1>4, <2>1 DEF NoIssue
    <3>2. Event' = Event /\ links'[link'].issue = 0 /\ link' \in DOMAIN links' /\ cur' \in Row
      BY <1>4, <1>5, <1>3, <1>1, <2>1 DEF Event
    <3>3. Making'
      BY <1>4, <1>5, <1>3, <2>1, <3>1, <3>2 DEF Making
    <3>4. QED
      BY <2>1, <3>2, <3>3 DEF AtStep
  <2>2. CASE pc' # "mark"
    BY <1>4, <2>2, Idling
  <2>3. QED
    BY <2>1, <2>2
<1>17. Rows'
  BY <1>2, <1>4, RowsKept, TriesKept DEF Pending
<1>18. SentIsThere'
  BY <1>2, <1>6, SentKept
<1>19. QED
  BY <1>7, <1>8, <1>9, <1>10, <1>11, <1>12, <1>13, <1>14, <1>15, <1>16, <1>17, <1>18 DEF IInv,
     TypeOK

\* The event's row says that a post of it may be under way.
LEMMA MarkInv == ASSUME IInv, Mark
                 PROVE  IInv'
<1>1. cur \in Row /\ cur.of \in Deliveries /\ Event \in Events /\ link \in DOMAIN links
  BY CurIs DEF Mark, IInv, AtStep
<1>2. issues' = issues /\ delivery' = delivery /\ todo' = todo /\ known' = known /\ cur' = cur /\ link' = link /\ found' = found
  BY DEF Mark
<1>3. /\ links' \in Seq(Link) /\ DOMAIN links' = DOMAIN links
      /\ \A k \in DOMAIN links :
           /\ links'[k].issue = links[k].issue /\ links'[k].state = links[k].state
           /\ links'[k].attempt = links[k].attempt /\ links'[k].creator = links[k].creator
           /\ \A x \in Events : links'[k].event[x] = IF k = link /\ x = Event THEN "fresh" ELSE links[k].event[x]
  <2>1. LinkTypes /\ "fresh" \in Note /\ links' = NotedOn(link, Event, "fresh")
    BY DEF Mark, IInv, TypeOK, Note
  <2>2. QED
    BY <1>1, <2>1, NotedIs
<1>4. Grown
  BY <1>2 DEF Grown, PostsOf
<1>5. \/ pc' = "create" /\ links[link].issue = 0 /\ Making
      \/ pc' = "comment" /\ Lacking
  BY DEF Mark, To, IInv, AtStep, Lacking
<1>6. AdminTypes'
  BY JiraAssumption DEF IInv, TypeOK, AdminTypes, Mark, admin, To
<1>7. DeliveryTypes'
  BY DEF IInv, TypeOK, DeliveryTypes, Mark, admin, To
<1>8. LinkTypes'
  BY <1>3 DEF LinkTypes
<1>9. IssueTypes'
  BY DEF IInv, TypeOK, IssueTypes, Mark, admin, To
<1>10. PassTypes'
  BY <1>2, <1>5 DEF IInv, TypeOK, PassTypes
<1>11. Filed'
  BY <1>2, <1>3, IssueIs DEF IInv, Filed, TypeOK
<1>12. Keyed'
  BY <1>2, <1>3 DEF IInv, Keyed
<1>13. OneIssuePerRef'
  BY <1>2 DEF IInv, OneIssuePerRef
<1>14. Told'
  BY <1>2, <1>3, <1>4, ToldKept DEF IInv, Told
<1>15. AtStep'
  <2>1. NoIssue(link)' <=> NoIssue(link)
    BY <1>2 DEF NoIssue
  <2>2. /\ Event' = Event /\ Issue' = Issue /\ links'[link].issue = links[link].issue
        /\ links'[link].attempt = links[link].attempt /\ links'[link].creator = links[link].creator
        /\ links'[link].event[Event] = "fresh"
    BY <1>2, <1>3, <1>1 DEF Event, Issue
  <2>3. Making => Making'
    BY <1>2, <2>1, <2>2 DEF Making
  <2>4. Lacking => Lacking'
    BY <1>2, <2>2 DEF Lacking
  <2>5. QED
    BY <1>1, <1>2, <1>3, <1>5, <2>2, <2>3, <2>4 DEF AtStep
<1>16. Rows'
  BY RowsKept, TriesKept, <1>2 DEF Mark, Pending, admin, To
<1>17. SentIsThere'
  BY <1>2, <1>4, SentKept
<1>18. QED
  BY <1>6, <1>7, <1>8, <1>9, <1>10, <1>11, <1>12, <1>13, <1>14, <1>15, <1>16, <1>17 DEF IInv, TypeOK

\* An issue is made.
LEMMA CreateInv == ASSUME IInv, Create
                   PROVE  IInv'
<1>1. cur \in Row /\ cur.of \in Deliveries /\ Event \in Events /\ link \in DOMAIN links
  BY CurIs DEF Create, IInv, AtStep
<1>2. links' = links /\ delivery' = delivery /\ todo' = todo /\ known' = known /\ cur' = cur /\ link' = link /\ found' = Len(issues) + 1 /\ pc' = "linked"
  BY DEF Create, To
<1>3. /\ IssueTypes' /\ Filed' /\ Keyed' /\ OneIssuePerRef' /\ Told' /\ Grown
      /\ found' \in DOMAIN issues' /\ issues'[found'].ref = link
  <2>1. Making
    BY DEF Create, IInv, AtStep
  <2>2. issues' = Append(issues, NewIssue(link, Event))
    BY DEF Create
  <2>3. QED
    BY <1>1, <1>2, <2>1, <2>2, CreatedKeeps
<1>4. AdminTypes'
  BY JiraAssumption DEF IInv, TypeOK, AdminTypes, Create, admin, To
<1>5. DeliveryTypes'
  BY DEF IInv, TypeOK, DeliveryTypes, Create, admin, To
<1>6. LinkTypes'
  BY DEF IInv, TypeOK, LinkTypes, Create, admin, To
<1>7. IssueTypes'
  BY <1>3
<1>8. PassTypes'
  <2>1. Len(issues) + 1 \in Nat
    BY DEF IInv, TypeOK, IssueTypes
  <2>2. QED
    BY <1>2, <2>1 DEF IInv, TypeOK, PassTypes
<1>9. Filed'
  BY <1>3
<1>10. Keyed'
  BY <1>3
<1>11. OneIssuePerRef'
  BY <1>3
<1>12. Told'
  BY <1>3
<1>13. AtStep'
  BY <1>1, <1>2, <1>3 DEF AtStep
<1>14. Rows'
  BY RowsKept, TriesKept, <1>2 DEF Create, Pending, admin, To
<1>15. SentIsThere'
  BY <1>2, <1>3, SentKept
<1>16. QED
  BY <1>4, <1>5, <1>6, <1>7, <1>8, <1>9, <1>10, <1>11, <1>12, <1>13, <1>14, <1>15 DEF IInv, TypeOK

\* The link takes the key of the issue an answer named.
LEMMA LinkedInv == ASSUME IInv, Linked
                   PROVE  IInv'
<1>1. link \in DOMAIN links /\ cur \in Row \cup {NoRow} /\ link \in Nat
  BY DEF Linked, IInv, AtStep, TypeOK, PassTypes
<1>2. issues' = issues /\ delivery' = delivery /\ todo' = todo /\ known' = known /\ cur' = cur /\ link' = link /\ found' = found /\ pc' = "record"
  BY DEF Linked, To
<1>3. found \in DOMAIN issues /\ issues[found].ref = link /\ found # 0 /\ found \in Nat
  BY IssueIs DEF Linked, IInv, AtStep, TypeOK
<1>4. links \in Seq(Link) /\ links[link] \in Link
  BY <1>1, LinkIs DEF IInv, TypeOK, LinkTypes
<1>5. PICK k \in Nat, s \in {"CREATING", "LINKED", "CLOSED"} :
        /\ k = IF links[link].issue = 0 THEN found ELSE links[link].issue
        /\ s = IF links[link].state = "CREATING" THEN "LINKED" ELSE links[link].state
  BY <1>4, <1>3 DEF Link
<1>6. PICK r : r = [links[link] EXCEPT !.issue = k, !.state = s]
  OBVIOUS
<1>7. /\ r.issue = IF links[link].issue = 0 THEN found ELSE links[link].issue
      /\ r.state = IF links[link].state = "CREATING" THEN "LINKED" ELSE links[link].state
      /\ r.attempt = links[link].attempt /\ r.creator = links[link].creator /\ r.event = links[link].event
      /\ r \in Link
  BY <1>4, <1>5, <1>6 DEF Link
<1>8. /\ links' \in Seq(Link) /\ DOMAIN links' = DOMAIN links
      /\ \A l \in DOMAIN links : links'[l] = IF l = link THEN r ELSE links[l]
  <2>1. links' = [links EXCEPT ![link] = [links[link] EXCEPT !.issue = k, !.state = s]]
    BY <1>5 DEF Linked
  <2>2. QED
    BY <1>1, <1>4, <1>6, <1>7, <2>1
<1>9. Grown
  BY <1>2 DEF Grown, PostsOf
<1>10. \A l \in DOMAIN links : /\ links'[l].attempt = links[l].attempt
                               /\ links'[l].creator = links[l].creator /\ links'[l].event = links[l].event
  BY <1>8, <1>7
<1>11. AdminTypes'
  BY JiraAssumption DEF IInv, TypeOK, AdminTypes, Linked, admin, To
<1>12. DeliveryTypes'
  BY DEF IInv, TypeOK, DeliveryTypes, Linked, admin, To
<1>13. LinkTypes'
  BY <1>8 DEF LinkTypes
<1>14. IssueTypes'
  BY DEF IInv, TypeOK, IssueTypes, Linked, admin, To
<1>15. PassTypes'
  BY <1>2 DEF IInv, TypeOK, PassTypes
<1>16. Filed'
  BY <1>2, <1>8, <1>10 DEF IInv, Filed
<1>17. Keyed'
  <2>1. /\ r.issue # 0 => r.issue \in DOMAIN issues /\ issues[r.issue].ref = link
        /\ r.state = "LINKED" => r.issue # 0
        /\ r.state = "CREATING" => r.issue = 0
    BY <1>1, <1>3, <1>7 DEF IInv, Keyed
  <2>2. QED
    BY <1>2, <1>8, <2>1 DEF IInv, Keyed
<1>18. OneIssuePerRef'
  BY <1>2 DEF IInv, OneIssuePerRef
<1>19. Told'
  BY <1>2, <1>8, <1>10, <1>9, ToldKept DEF IInv, Told
<1>20. AtStep'
  BY <1>1, <1>2, <1>3, <1>7, <1>8 DEF AtStep
<1>21. Rows'
  BY RowsKept, TriesKept, <1>2 DEF Linked, Pending, admin, To
<1>22. SentIsThere'
  BY <1>2, <1>9, SentKept
<1>23. QED
  BY <1>11, <1>12, <1>13, <1>14, <1>15, <1>16, <1>17, <1>18, <1>19, <1>20, <1>21, <1>22 DEF IInv,
     TypeOK

\* The creator's event is on the issue, and a kept-out case's link is closed.
LEMMA RecordInv == ASSUME IInv, Record
                   PROVE  IInv'
<1>1. link \in DOMAIN links /\ cur \in Row \cup {NoRow} /\ link \in Nat
  BY DEF Record, IInv, AtStep, TypeOK, PassTypes
<1>2. issues' = issues /\ delivery' = delivery /\ todo' = todo /\ known' = known
  BY DEF Record
<1>3. links[link].issue # 0 /\ links[link].issue \in DOMAIN issues
  BY <1>1 DEF Record, IInv, AtStep, Keyed
<1>4. /\ WhoCreated(link) \in Events /\ issues[links[link].issue].ref = link
      /\ PostsOf(links[link].issue, WhoCreated(link)) > 0
  BY <1>1, <1>3, IssueHere, PostsIs DEF Issue, WhoCreated
<1>5. PICK n : n = NotedOn(link, WhoCreated(link), "posted")
  OBVIOUS
<1>6. /\ n \in Seq(Link) /\ DOMAIN n = DOMAIN links
      /\ \A k \in DOMAIN links :
           /\ n[k].issue = links[k].issue /\ n[k].state = links[k].state
           /\ n[k].attempt = links[k].attempt /\ n[k].creator = links[k].creator
           /\ \A e \in Events : n[k].event[e] = IF k = link /\ e = WhoCreated(link) THEN "posted"
                                                ELSE links[k].event[e]
  <2>1. LinkTypes /\ "posted" \in Note
    BY DEF IInv, TypeOK, Note
  <2>2. QED
    BY <1>1, <1>4, <1>5, <2>1, NotedIs
<1>7. PICK s \in {"CREATING", "LINKED", "CLOSED"} :
        /\ s = IF (cur = NoRow /\ vetoed /\ n[link].state = "LINKED") THEN "CLOSED" ELSE n[link].state
        /\ s \in {n[link].state, "CLOSED"}
  <2>1. n[link].state \in {"CREATING", "LINKED", "CLOSED"}
    BY <1>1, <1>6, LinkIs DEF IInv, TypeOK
  <2>2. QED
    BY <2>1
<1>8. /\ links' \in Seq(Link) /\ DOMAIN links' = DOMAIN links
      /\ \A k \in DOMAIN links :
           /\ links'[k].issue = links[k].issue /\ links'[k].state \in {links[k].state, "CLOSED"}
           /\ links'[k].attempt = links[k].attempt /\ links'[k].creator = links[k].creator
           /\ \A e \in Events : links'[k].event[e] = IF k = link /\ e = WhoCreated(link) THEN "posted"
                                                     ELSE links[k].event[e]
  <2>1. links' = [n EXCEPT ![link] = [n[link] EXCEPT !.state = s]]
    BY <1>5, <1>7 DEF Record
  <2>2. n[link] \in Link
    BY <1>1, <1>6
  <2>3. PICK r : r = [n[link] EXCEPT !.state = s]
    OBVIOUS
  <2>4. /\ r \in Link /\ r.issue = n[link].issue /\ r.attempt = n[link].attempt
        /\ r.creator = n[link].creator /\ r.event = n[link].event /\ r.state = s
    BY <2>2, <2>3 DEF Link
  <2>5. links' = [n EXCEPT ![link] = r]
    BY <2>1, <2>3
  <2>6. /\ links' \in Seq(Link) /\ DOMAIN links' = DOMAIN links
        /\ \A k \in DOMAIN links : links'[k] = IF k = link THEN r ELSE n[k]
    <3>1. n \in Seq(Link) /\ DOMAIN n = DOMAIN links /\ r \in Link
      BY <1>6, <2>4
    <3>2. QED
      BY <1>1, <2>5, <3>1
  <2>7. \A k \in DOMAIN links :
          /\ links'[k].issue = n[k].issue /\ links'[k].state \in {n[k].state, "CLOSED"}
          /\ links'[k].attempt = n[k].attempt /\ links'[k].creator = n[k].creator
          /\ links'[k].event = n[k].event
    BY <1>7, <2>4, <2>6
  <2>8. QED
    BY <1>6, <2>6, <2>7
<1>9. pc = "record"
  BY DEF Record
<1>10. \/ /\ cur = NoRow /\ cur' = cur /\ pc' = "reconcile" /\ link' = 0 /\ found' = 0
       \/ /\ cur \in Row /\ WhoCreated(link) = Event /\ cur' = cur /\ link' = link /\ found' = found
          /\ pc' = "sent"
       \/ cur \in Row /\ Again
  BY <1>1 DEF Record, To
<1>11. cur \in Row /\ Again =>
         /\ \/ cur' = NoRow /\ pc' = "pick"
            \/ cur' \in Row /\ cur'.of = cur.of /\ cur'.attempts = cur.attempts /\ pc' = "link"
         /\ cur' \in Row \cup {NoRow} /\ pc' \in {"pick", "link"} /\ link' = 0 /\ found' = 0
  BY AgainIs
<1>12. Grown
  BY <1>2 DEF Grown, PostsOf
<1>13. AdminTypes'
  BY JiraAssumption DEF IInv, TypeOK, AdminTypes, Record, admin, To
<1>14. DeliveryTypes'
  BY DEF IInv, TypeOK, DeliveryTypes, Record, admin, To
<1>15. LinkTypes'
  BY <1>8 DEF LinkTypes
<1>16. IssueTypes'
  BY DEF IInv, TypeOK, IssueTypes, Record, admin, To
<1>17. PassTypes'
  <2>1. cur' \in Row \cup {NoRow} /\ link' \in Nat /\ found' \in Nat
    BY <1>1, <1>10, <1>11 DEF IInv, TypeOK, PassTypes
  <2>2. pc' \in {"reconcile", "sent", "pick", "link"}
    BY <1>10, <1>11
  <2>3. QED
    BY <1>2, <2>1, <2>2 DEF IInv, TypeOK, PassTypes
<1>18. Filed'
  <2>1. \A l \in DOMAIN links : \A e \in Events : links[l].event[e] # "none" => links'[l].event[e] # "none"
    BY <1>8
  <2>2. ASSUME NEW i \in DOMAIN issues
        PROVE LET l == issues[i].ref IN
              /\ l \in DOMAIN links' /\ links'[l].attempt # "none" /\ links'[l].creator = issues[i].first
              /\ links'[l].attempt = "settled" => issues[i].indexed
              /\ \A e \in Events : issues[i].comments[e] > 0 => links'[l].event[e] # "none"
    BY <1>8, <2>1 DEF IInv, Filed
  <2>3. QED
    BY <1>2, <2>2 DEF Filed
<1>19. Keyed'
  BY <1>2, <1>8 DEF IInv, Keyed
<1>20. OneIssuePerRef'
  BY <1>2 DEF IInv, OneIssuePerRef
<1>21. Told'
  <2>1. ASSUME NEW l \in DOMAIN links', NEW e \in Events, links'[l].event[e] = "posted"
        PROVE \/ l \in DOMAIN links /\ links[l].event[e] = "posted"
              \/ \E i \in DOMAIN issues : issues[i].ref = l /\ PostsOf(i, e) > 0
    <3>1. CASE l = link /\ e = WhoCreated(link)
      BY <1>3, <1>4, <3>1
    <3>2. CASE ~(l = link /\ e = WhoCreated(link))
      BY <1>8, <2>1, <3>2
    <3>3. QED
      BY <3>1, <3>2
  <2>2. QED
    BY <1>12, <2>1, ToldKept
<1>22. AtStep'
  <2>1. CASE cur = NoRow /\ pc' = "reconcile"
    BY <1>10, <1>11, <2>1, Idling
  <2>2. CASE cur \in Row /\ pc' = "sent"
    <3>1. Event' = Event /\ link' = link /\ cur' = cur /\ WhoCreated(link) = Event
      BY <1>10, <1>11, <2>2 DEF Event
    <3>2. links'[link].event[Event] = "posted" /\ link \in DOMAIN links'
      BY <1>1, <1>8, <1>4, <3>1
    <3>3. QED
      BY <2>2, <3>1, <3>2 DEF AtStep
  <2>3. CASE cur \in Row /\ Again
    BY <1>11, <2>3, Idling, Starting
  <2>4. QED
    BY <1>10, <2>1, <2>2, <2>3
<1>23. Rows'
  <2>1. \/ cur' = cur \/ cur' = NoRow
        \/ cur \in Row /\ cur' \in Row /\ cur'.of = cur.of /\ cur'.attempts = cur.attempts
    BY <1>10, <1>11
  <2>2. QED
    BY <1>2, <2>1, RowsKept, TriesKept DEF Pending
<1>24. SentIsThere'
  BY <1>2, <1>12, SentKept
<1>25. QED
  BY <1>13, <1>14, <1>15, <1>16, <1>17, <1>18, <1>19, <1>20, <1>21, <1>22, <1>23, <1>24 DEF IInv,
     TypeOK

\* The delivery is sent.
LEMMA SentOnInv == ASSUME IInv, SentOn
                   PROVE  IInv'
<1>1. cur \in Row /\ cur.of \in Deliveries /\ Event \in Events /\ link \in DOMAIN links
  BY CurIs DEF SentOn, IInv, AtStep
<1>2. issues' = issues /\ links' = links /\ todo' = todo /\ known' = known /\ pc' = "pick" /\ cur' = NoRow /\ link' = 0 /\ found' = 0
  BY NextIs DEF SentOn
<1>3. /\ delivery' \in [Deliveries -> Delivery]
      /\ \A d \in Deliveries : d # cur.of => delivery'[d] = delivery[d]
      /\ delivery'[cur.of].state = "SENT" /\ delivery'[cur.of].link = link
      /\ delivery'[cur.of].attempts = delivery[cur.of].attempts + 1
  <2>1. link \in Nat /\ 1 \in Nat /\ delivery' = Sent(cur.of, link, 1)
    BY DEF SentOn, IInv, TypeOK, PassTypes
  <2>2. QED
    BY <1>1, <2>1, SentRow
<1>4. delivery[cur.of].attempts + 1 <= MaxAttempts
  <2>1. delivery[cur.of].attempts < MaxAttempts /\ delivery[cur.of].attempts \in Nat
    BY <1>1, CurIs, DeliveryIs DEF IInv, TypeOK
  <2>2. QED
    BY <2>1, JiraAssumption
<1>5. AdminTypes'
  BY JiraAssumption DEF IInv, TypeOK, AdminTypes, SentOn, admin, To
<1>6. DeliveryTypes'
  BY <1>3 DEF DeliveryTypes
<1>7. LinkTypes'
  BY DEF IInv, TypeOK, LinkTypes, SentOn, admin, To
<1>8. IssueTypes'
  BY DEF IInv, TypeOK, IssueTypes, SentOn, admin, To
<1>9. PassTypes'
  BY <1>2 DEF IInv, TypeOK, PassTypes
<1>10. Mild
  BY SameIsMild DEF SentOn, admin, To
<1>11. Filed' /\ Keyed' /\ OneIssuePerRef' /\ Told'
  BY <1>10, MildKeeps
<1>12. AtStep'
  BY <1>2, Idling
<1>13. Rows'
  <2>1. \A d \in Deliveries : Pending(d) /\ (d # cur.of \/ cur' # NoRow) => delivery'[d].state = "PENDING"
    BY <1>2, <1>3 DEF Pending
  <2>2. \A d \in Deliveries : /\ delivery'[d].attempts <= MaxAttempts
                              /\ delivery'[d].state \in {"unqueued", "PENDING"} =>
                                   delivery'[d].attempts < MaxAttempts
    BY <1>3, <1>4, TriesKept
  <2>3. QED
    BY <1>2, <2>1, <2>2, RowsKept
<1>14. SentIsThere'
  <2>1. links[link].event[EventOf[cur.of]] = "posted"
    BY DEF SentOn, IInv, AtStep, Event
  <2>2. QED
    BY <1>10, MildGrows, <1>1, <1>3, <2>1, SentHere
<1>15. QED
  BY <1>5, <1>6, <1>7, <1>8, <1>9, <1>11, <1>12, <1>13, <1>14 DEF IInv, TypeOK

-----------------------------------------------------------------------------
(* On an issue that exists *)

\* The status of the link's issue is read: a link of an issue that is done is closed.
LEMMA StatusInv == ASSUME IInv, Status
                   PROVE  IInv'
<1>1. cur \in Row /\ cur.of \in Deliveries /\ Event \in Events /\ link \in DOMAIN links
  BY CurIs DEF Status, IInv, AtStep
<1>2. issues' = issues /\ delivery' = delivery /\ todo' = todo
  BY DEF Status
<1>3. Issue \in DOMAIN issues /\ Issue \in Nat /\ links[link].issue # 0 /\ links[link].event[Event] \in {"none", "settled"}
  BY <1>1, IssueHere, IssueIs DEF Status, IInv, AtStep, TypeOK
<1>4. \/ links' = [links EXCEPT ![link].state = "CLOSED"] /\ Again /\ known' = known
      \/ /\ links' = links /\ cur' = cur /\ link' = link /\ found' = found /\ pc' = "label"
         /\ known' = known \cup {Issue}
  BY DEF Status, To
<1>5. Again =>
        /\ \/ cur' = NoRow /\ pc' = "pick"
           \/ cur' \in Row /\ cur'.of = cur.of /\ cur'.attempts = cur.attempts /\ pc' = "link"
        /\ cur' \in Row \cup {NoRow} /\ pc' \in {"pick", "link"} /\ link' = 0 /\ found' = 0
  BY <1>1, AgainIs
<1>6. /\ links' \in Seq(Link) /\ DOMAIN links' = DOMAIN links
      /\ \A l \in DOMAIN links : /\ links'[l].issue = links[l].issue /\ links'[l].attempt = links[l].attempt
                                 /\ links'[l].creator = links[l].creator /\ links'[l].event = links[l].event
                                 /\ links'[l].state \in {links[l].state, "CLOSED"}
  <2>1. links \in Seq(Link) /\ links[link] \in Link
    BY <1>1, LinkIs DEF IInv, TypeOK, LinkTypes
  <2>2. CASE links' = links
    BY <2>1, <2>2
  <2>3. CASE links' = [links EXCEPT ![link].state = "CLOSED"]
    <3>1. PICK r : r = [links[link] EXCEPT !.state = "CLOSED"]
      OBVIOUS
    <3>2. /\ r \in Link /\ r.issue = links[link].issue /\ r.attempt = links[link].attempt
          /\ r.creator = links[link].creator /\ r.event = links[link].event /\ r.state = "CLOSED"
      BY <2>1, <3>1 DEF Link
    <3>3. links' = [links EXCEPT ![link] = r]
      BY <2>3, <3>1
    <3>4. QED
      BY <1>1, <2>1, <3>2, <3>3
  <2>4. QED
    BY <1>4, <2>2, <2>3
<1>7. AdminTypes'
  BY JiraAssumption DEF IInv, TypeOK, AdminTypes, Status, admin, To
<1>8. DeliveryTypes'
  BY DEF IInv, TypeOK, DeliveryTypes, Status, admin, To
<1>9. LinkTypes'
  BY <1>6 DEF LinkTypes
<1>10. IssueTypes'
  BY DEF IInv, TypeOK, IssueTypes, Status, admin, To
<1>11. PassTypes'
  <2>1. cur' \in Row \cup {NoRow} /\ link' \in Nat /\ found' \in Nat /\ known' \subseteq Nat
    BY <1>1, <1>3, <1>4, <1>5 DEF IInv, TypeOK, PassTypes
  <2>2. pc' \in {"pick", "link", "label"}
    BY <1>4, <1>5
  <2>3. QED
    BY <1>2, <2>1, <2>2 DEF IInv, TypeOK, PassTypes
<1>12. Mild
  BY <1>2, <1>6 DEF Mild
<1>13. Filed' /\ Keyed' /\ OneIssuePerRef' /\ Told'
  BY <1>12, MildKeeps
<1>14. AtStep'
  <2>1. CASE pc' = "label"
    <3>1. Event' = Event /\ cur' \in Row /\ link' = link /\ link \in DOMAIN links'
          /\ links'[link].issue = links[link].issue /\ links'[link].event = links[link].event
      BY <1>1, <1>4, <1>5, <1>6, <2>1 DEF Event
    <3>2. QED
      BY <1>3, <2>1, <3>1 DEF AtStep
  <2>2. CASE Again
    BY <1>5, <2>2, Idling, Starting
  <2>3. QED
    BY <1>4, <2>1, <2>2
<1>15. Rows'
  <2>1. \/ cur' = cur \/ cur' = NoRow
        \/ cur \in Row /\ cur' \in Row /\ cur'.of = cur.of /\ cur'.attempts = cur.attempts
    BY <1>1, <1>4, <1>5
  <2>2. QED
    BY <1>2, <2>1, RowsKept, TriesKept DEF Pending
<1>16. SentIsThere'
  BY <1>12, MildGrows, SentKept, <1>2 DEF Status, admin, To
<1>17. QED
  BY <1>7, <1>8, <1>9, <1>10, <1>11, <1>13, <1>14, <1>15, <1>16 DEF IInv, TypeOK

\* The label of the issue is raised, then the link's record of it.
LEMMA LabelInv == ASSUME IInv, Label
                  PROVE  IInv'
<1>1. cur \in Row /\ cur.of \in Deliveries /\ Event \in Events /\ link \in DOMAIN links
  BY CurIs DEF Label, IInv, AtStep
<1>2. delivery' = delivery /\ todo' = todo /\ cur' = cur /\ link' = link /\ found' = found /\ known' = known /\ pc' = "look"
  BY DEF Label, To
<1>3. links[link].issue # 0 /\ links[link].event[Event] \in {"none", "settled"}
  BY DEF Label, IInv, AtStep
<1>4. \/ links' = links /\ issues' = issues
      \/ /\ issues' = [issues EXCEPT ![Issue].label = HigherOf(@, Tlp[Event])]
         /\ links' = [links EXCEPT ![link].tlp = Tlp[Event]]
  BY DEF Label
<1>5. /\ IssueTypes' /\ DOMAIN issues' = DOMAIN issues
      /\ \A i \in DOMAIN issues :
           /\ issues'[i].ref = issues[i].ref /\ issues'[i].first = issues[i].first
           /\ issues'[i].comments = issues[i].comments /\ issues'[i].indexed = issues[i].indexed
  <2>1. CASE issues' = issues
    BY <2>1 DEF IInv, TypeOK, IssueTypes
  <2>2. CASE issues' = [issues EXCEPT ![Issue].label = HigherOf(@, Tlp[Event])]
    BY <1>1, <1>3, <2>2, LabelIs
  <2>3. QED
    BY <1>4, <2>1, <2>2
<1>6. /\ links' \in Seq(Link) /\ DOMAIN links' = DOMAIN links
      /\ \A l \in DOMAIN links : /\ links'[l].issue = links[l].issue /\ links'[l].attempt = links[l].attempt
                                 /\ links'[l].creator = links[l].creator /\ links'[l].event = links[l].event
                                 /\ links'[l].state = links[l].state
  <2>1. links \in Seq(Link) /\ links[link] \in Link
    BY <1>1, LinkIs DEF IInv, TypeOK, LinkTypes
  <2>2. CASE links' = links
    BY <2>1, <2>2
  <2>3. CASE links' = [links EXCEPT ![link].tlp = Tlp[Event]]
    <3>1. PICK r : r = [links[link] EXCEPT !.tlp = Tlp[Event]]
      OBVIOUS
    <3>2. /\ r \in Link /\ r.issue = links[link].issue /\ r.attempt = links[link].attempt
          /\ r.creator = links[link].creator /\ r.event = links[link].event /\ r.state = links[link].state
      BY <1>1, <2>1, <3>1, JiraAssumption DEF Link
    <3>3. links' = [links EXCEPT ![link] = r]
      BY <2>3, <3>1
    <3>4. QED
      BY <1>1, <2>1, <3>2, <3>3
  <2>4. QED
    BY <1>4, <2>2, <2>3
<1>7. AdminTypes'
  BY JiraAssumption DEF IInv, TypeOK, AdminTypes, Label, admin, To
<1>8. DeliveryTypes'
  BY DEF IInv, TypeOK, DeliveryTypes, Label, admin, To
<1>9. LinkTypes'
  BY <1>6 DEF LinkTypes
<1>10. IssueTypes'
  BY <1>5
<1>11. PassTypes'
  BY <1>2 DEF IInv, TypeOK, PassTypes
<1>12. Mild
  BY <1>5, <1>6 DEF Mild
<1>13. Filed' /\ Keyed' /\ OneIssuePerRef' /\ Told'
  BY <1>12, MildKeeps
<1>14. AtStep'
  <2>1. Event' = Event /\ link \in DOMAIN links'
        /\ links'[link].issue = links[link].issue /\ links'[link].event = links[link].event
    BY <1>1, <1>2, <1>6 DEF Event
  <2>2. QED
    BY <1>1, <1>3, <1>2, <2>1 DEF AtStep
<1>15. Rows'
  BY RowsKept, TriesKept, <1>2 DEF Label, Pending, admin, To
<1>16. SentIsThere'
  BY <1>12, MildGrows, SentKept, <1>2 DEF Label, admin, To
<1>17. QED
  BY <1>7, <1>8, <1>9, <1>10, <1>11, <1>13, <1>14, <1>15, <1>16 DEF IInv, TypeOK

\* The comment is looked for before it is made again.
LEMMA LookInv == ASSUME IInv, Look
                 PROVE  IInv'
<1>1. cur \in Row /\ cur.of \in Deliveries /\ Event \in Events /\ link \in DOMAIN links
  BY CurIs DEF Look, IInv, AtStep
<1>2. links' = links /\ issues' = issues /\ delivery' = delivery /\ todo' = todo /\ cur' = cur /\ link' = link /\ found' = found /\ known' = known
  BY DEF Look
<1>3. links[link].issue # 0 /\ links[link].event[Event] \in {"none", "settled"}
  BY DEF Look, IInv, AtStep
<1>4. Issue \in DOMAIN issues /\ issues[Issue].comments[Event] \in Nat /\ (issues[Issue].comments[Event] > 0 => links[link].event[Event] # "none")
  BY <1>1, <1>3, IssueHere, IssueIs DEF IInv, TypeOK
<1>5. \/ pc' = "posted" /\ issues[Issue].comments[Event] > 0
      \/ pc' = "mark" /\ Lacking
  <2>1. CASE AlreadyThere
    BY <2>1 DEF Look, To, AlreadyThere
  <2>2. CASE ~AlreadyThere
    <3>1. issues[Issue].comments[Event] = 0
      BY <1>3, <1>4, <2>2 DEF AlreadyThere
    <3>2. QED
      BY <1>3, <2>2, <3>1 DEF Look, To, Lacking
  <2>3. QED
    BY <2>1, <2>2
<1>6. AdminTypes'
  BY JiraAssumption DEF IInv, TypeOK, AdminTypes, Look, admin, To
<1>7. DeliveryTypes'
  BY DEF IInv, TypeOK, DeliveryTypes, Look, admin, To
<1>8. LinkTypes'
  BY DEF IInv, TypeOK, LinkTypes, Look, admin, To
<1>9. IssueTypes'
  BY DEF IInv, TypeOK, IssueTypes, Look, admin, To
<1>10. PassTypes'
  BY <1>2, <1>5 DEF IInv, TypeOK, PassTypes
<1>11. Mild
  BY SameIsMild DEF Look, admin, To
<1>12. Filed' /\ Keyed' /\ OneIssuePerRef' /\ Told'
  BY <1>11, MildKeeps
<1>13. AtStep'
  <2>1. Event' = Event /\ Issue' = Issue /\ (Lacking' <=> Lacking)
    BY <1>2 DEF Event, Issue, Lacking
  <2>2. QED
    BY <1>1, <1>3, <1>2, <1>5, <2>1 DEF AtStep
<1>14. Rows'
  BY RowsKept, TriesKept, <1>2 DEF Look, Pending, admin, To
<1>15. SentIsThere'
  BY <1>11, MildGrows, SentKept, <1>2 DEF Look, admin, To
<1>16. QED
  BY <1>6, <1>7, <1>8, <1>9, <1>10, <1>12, <1>13, <1>14, <1>15 DEF IInv, TypeOK

\* A comment is made.
LEMMA CommentInv == ASSUME IInv, Comment
                    PROVE  IInv'
<1>1. cur \in Row /\ cur.of \in Deliveries /\ Event \in Events /\ link \in DOMAIN links
  BY CurIs DEF Comment, IInv, AtStep
<1>2. links' = links /\ delivery' = delivery /\ todo' = todo /\ cur' = cur /\ link' = link /\ found' = found /\ known' = known /\ pc' = "posted"
  BY DEF Comment, To
<1>3. links[link].issue # 0 /\ links[link].event[Event] # "none"
  BY DEF Comment, IInv, AtStep, Lacking
<1>4. /\ IssueTypes' /\ Filed' /\ Keyed' /\ OneIssuePerRef' /\ Told' /\ Grown
      /\ issues'[Issue].comments[Event] > 0
  <2>1. issues' = Commented(Issue, Event)
    BY DEF Comment, Commented
  <2>2. QED
    BY <1>1, <1>2, <1>3, <2>1, CommentKeeps
<1>5. AdminTypes'
  BY JiraAssumption DEF IInv, TypeOK, AdminTypes, Comment, admin, To
<1>6. DeliveryTypes'
  BY DEF IInv, TypeOK, DeliveryTypes, Comment, admin, To
<1>7. LinkTypes'
  BY DEF IInv, TypeOK, LinkTypes, Comment, admin, To
<1>8. IssueTypes'
  BY <1>4
<1>9. PassTypes'
  BY <1>2 DEF IInv, TypeOK, PassTypes
<1>10. Filed'
  BY <1>4
<1>11. Keyed'
  BY <1>4
<1>12. OneIssuePerRef'
  BY <1>4
<1>13. Told'
  BY <1>4
<1>14. AtStep'
  <2>1. Event' = Event /\ Issue' = Issue
    BY <1>2 DEF Event, Issue
  <2>2. QED
    BY <1>1, <1>3, <1>2, <1>4, <2>1 DEF AtStep
<1>15. Rows'
  BY RowsKept, TriesKept, <1>2 DEF Comment, Pending, admin, To
<1>16. SentIsThere'
  BY <1>2, <1>4, SentKept
<1>17. QED
  BY <1>5, <1>6, <1>7, <1>8, <1>9, <1>10, <1>11, <1>12, <1>13, <1>14, <1>15, <1>16 DEF IInv, TypeOK

\* The event's row says posted.
LEMMA PostedInv == ASSUME IInv, Posted
                   PROVE  IInv'
<1>1. cur \in Row /\ cur.of \in Deliveries /\ Event \in Events /\ link \in DOMAIN links
  BY CurIs DEF Posted, IInv, AtStep
<1>2. issues' = issues /\ delivery' = delivery /\ todo' = todo /\ known' = known /\ cur' = cur /\ link' = link /\ found' = found /\ pc' = "sent"
  BY DEF Posted, To
<1>3. Issue \in DOMAIN issues /\ issues[Issue].ref = link /\ PostsOf(Issue, Event) > 0
  BY <1>1, IssueHere, PostsIs DEF Posted, IInv, AtStep
<1>4. /\ links' \in Seq(Link) /\ DOMAIN links' = DOMAIN links
      /\ \A k \in DOMAIN links :
           /\ links'[k].issue = links[k].issue /\ links'[k].state = links[k].state
           /\ links'[k].attempt = links[k].attempt /\ links'[k].creator = links[k].creator
           /\ \A x \in Events : links'[k].event[x] = IF k = link /\ x = Event THEN "posted" ELSE links[k].event[x]
  <2>1. LinkTypes /\ "posted" \in Note /\ links' = NotedOn(link, Event, "posted")
    BY DEF Posted, IInv, TypeOK, Note
  <2>2. QED
    BY <1>1, <2>1, NotedIs
<1>5. Grown
  BY <1>2 DEF Grown, PostsOf
<1>6. AdminTypes'
  BY JiraAssumption DEF IInv, TypeOK, AdminTypes, Posted, admin, To
<1>7. DeliveryTypes'
  BY DEF IInv, TypeOK, DeliveryTypes, Posted, admin, To
<1>8. LinkTypes'
  BY <1>4 DEF LinkTypes
<1>9. IssueTypes'
  BY DEF IInv, TypeOK, IssueTypes, Posted, admin, To
<1>10. PassTypes'
  BY <1>2 DEF IInv, TypeOK, PassTypes
<1>11. Filed'
  <2>1. \A l \in DOMAIN links : \A e \in Events : links[l].event[e] # "none" => links'[l].event[e] # "none"
    BY <1>4
  <2>2. QED
    BY <1>2, <1>4, <2>1 DEF IInv, Filed
<1>12. Keyed'
  BY <1>2, <1>4 DEF IInv, Keyed
<1>13. OneIssuePerRef'
  BY <1>2 DEF IInv, OneIssuePerRef
<1>14. Told'
  <2>1. ASSUME NEW l \in DOMAIN links', NEW e \in Events, links'[l].event[e] = "posted"
        PROVE \/ l \in DOMAIN links /\ links[l].event[e] = "posted"
              \/ \E i \in DOMAIN issues : issues[i].ref = l /\ PostsOf(i, e) > 0
    <3>1. CASE l = link /\ e = Event
      BY <1>3, <3>1
    <3>2. CASE ~(l = link /\ e = Event)
      BY <1>4, <2>1, <3>2
    <3>3. QED
      BY <3>1, <3>2
  <2>2. QED
    BY <1>5, <2>1, ToldKept
<1>15. AtStep'
  <2>1. Event' = Event /\ links'[link].event[Event] = "posted" /\ link \in DOMAIN links'
    BY <1>1, <1>2, <1>4 DEF Event
  <2>2. QED
    BY <1>1, <1>2, <2>1 DEF AtStep
<1>16. Rows'
  BY RowsKept, TriesKept, <1>2 DEF Posted, Pending, admin, To
<1>17. SentIsThere'
  BY <1>2, <1>5, SentKept
<1>18. QED
  BY <1>6, <1>7, <1>8, <1>9, <1>10, <1>11, <1>12, <1>13, <1>14, <1>15, <1>16, <1>17 DEF IInv, TypeOK

-----------------------------------------------------------------------------
(* Failures *)

\* A call fails, or its answer is lost after Jira did what it asked.
LEMMA CallFailsInv == ASSUME IInv, NEW config \in BOOLEAN, CallFails(config)
                      PROVE  IInv'
<1>1. cur \in Row /\ cur.of \in Deliveries /\ Event \in Events /\ link \in DOMAIN links
  BY CurIs DEF CallFails, IInv, AtStep, Calling
<1>2. links' = links /\ vetoed' = vetoed /\ optedOut' = optedOut /\ changed' = changed /\ trouble' = trouble
  BY DEF CallFails
<1>3. pc' = "idle" /\ todo' = {} /\ cur' = NoRow /\ link' = 0 /\ found' = 0 /\ known' = {}
  BY RestIs DEF CallFails, Failed
<1>4. /\ delivery' \in [Deliveries -> Delivery]
      /\ \A d \in Deliveries : d # cur.of => delivery'[d] = delivery[d]
      /\ delivery'[cur.of].state \in {"PENDING", "FAILED"} /\ delivery'[cur.of].attempts <= MaxAttempts
      /\ delivery'[cur.of].state = "PENDING" => delivery'[cur.of].attempts < MaxAttempts
  <2>1. PICK t : t = cur.attempts + 1
    OBVIOUS
  <2>2. t \in Nat /\ t <= MaxAttempts /\ MaxAttempts \in Nat
    BY <1>1, <2>1, CurIs, JiraAssumption
  <2>3. PICK s : s = AfterFailure(t)
    OBVIOUS
  <2>4. s \in {"PENDING", "FAILED"} /\ (s = "PENDING" => t < MaxAttempts)
    BY <2>2, <2>3 DEF AfterFailure
  <2>5. PICK w \in BOOLEAN : w = (s = "PENDING")
    OBVIOUS
  <2>6. delivery' = [delivery EXCEPT ![cur.of] =
                       [delivery[cur.of] EXCEPT !.attempts = t, !.state = s, !.waiting = w]]
    BY <2>1, <2>3, <2>5 DEF CallFails, Failed, Counted
  <2>7. delivery[cur.of] \in Delivery
    BY <1>1, DeliveryIs DEF IInv, TypeOK
  <2>8. PICK r : r = [delivery[cur.of] EXCEPT !.attempts = t, !.state = s, !.waiting = w]
    OBVIOUS
  <2>9. r \in Delivery /\ r.attempts = t /\ r.state = s
    BY <2>2, <2>4, <2>7, <2>8 DEF Delivery
  <2>10. delivery' = [delivery EXCEPT ![cur.of] = r] /\ delivery \in [Deliveries -> Delivery]
    BY <2>6, <2>8 DEF IInv, TypeOK, DeliveryTypes
  <2>11. QED
    BY <1>1, <2>2, <2>4, <2>9, <2>10
<1>5. /\ pc = "create" => Making
      /\ pc \in {"comment", "label"} => links[link].issue # 0
      /\ pc = "comment" => links[link].event[Event] # "none"
  BY DEF IInv, AtStep, Lacking
<1>6. IssueTypes' /\ Filed' /\ Keyed' /\ OneIssuePerRef' /\ Told' /\ Grown
  <2>1. CASE issues' = issues
    <3>1. Mild
      BY <1>2, <2>1, SameIsMild
    <3>2. QED
      BY <2>1, <3>1, MildKeeps, MildGrows DEF IInv, TypeOK, IssueTypes
  <2>2. CASE pc = "create" /\ issues' = Append(issues, NewIssue(link, Event))
    BY <1>1, <1>2, <1>5, <2>2, CreatedKeeps
  <2>3. CASE pc = "comment" /\ issues' = [issues EXCEPT ![Issue].comments[Event] = @ + 1]
    <3>1. issues' = Commented(Issue, Event)
      BY <2>3 DEF Commented
    <3>2. QED
      BY <1>1, <1>2, <1>5, <2>3, <3>1, CommentKeeps
  <2>4. CASE pc = "label" /\ issues' = [issues EXCEPT ![Issue].label = HigherOf(@, Tlp[Event])]
    <3>1. /\ IssueTypes' /\ DOMAIN issues' = DOMAIN issues
          /\ \A i \in DOMAIN issues :
               /\ issues'[i].ref = issues[i].ref /\ issues'[i].first = issues[i].first
               /\ issues'[i].comments = issues[i].comments /\ issues'[i].indexed = issues[i].indexed
      BY <1>1, <1>5, <2>4, LabelIs
    <3>2. Mild
      BY <1>2, <3>1 DEF Mild
    <3>3. QED
      BY <3>1, <3>2, MildKeeps, MildGrows
  <2>5. QED
    BY <2>1, <2>2, <2>3, <2>4 DEF CallFails, Done
<1>7. AdminTypes'
  <2>1. PICK b \in BOOLEAN : b <=> (config /\ dest.state # "RETIRED")
    <3>1. (config /\ dest.state # "RETIRED") \in BOOLEAN
      OBVIOUS
    <3>2. QED
      BY <3>1, Zenon
  <2>2. b = (config /\ dest.state # "RETIRED")
    BY <2>1, Zenon
  <2>3. dest' = [dest EXCEPT !.broken = b]
    BY <2>2, Zenon DEF CallFails
  <2>4. dest' \in [state : {"DRAFT", "ACTIVE", "PAUSED", "RETIRED"}, broken : BOOLEAN]
    BY <2>3 DEF IInv, TypeOK, AdminTypes
  <2>5. QED
    BY <1>2, <2>4 DEF IInv, TypeOK, AdminTypes
<1>8. DeliveryTypes'
  BY <1>4 DEF DeliveryTypes
<1>9. LinkTypes'
  BY <1>2 DEF IInv, TypeOK, LinkTypes
<1>10. IssueTypes'
  BY <1>6
<1>11. PassTypes'
  BY <1>3 DEF PassTypes
<1>12. Filed'
  BY <1>6
<1>13. Keyed'
  BY <1>6
<1>14. OneIssuePerRef'
  BY <1>6
<1>15. Told'
  BY <1>6
<1>16. AtStep'
  BY <1>3, Idling
<1>17. Rows'
  <2>1. \A d \in Deliveries : Pending(d) /\ (d # cur.of \/ cur' # NoRow) => delivery'[d].state = "PENDING"
    BY <1>3, <1>4 DEF Pending
  <2>2. \A d \in Deliveries : /\ delivery'[d].attempts <= MaxAttempts
                              /\ delivery'[d].state \in {"unqueued", "PENDING"} =>
                                   delivery'[d].attempts < MaxAttempts
    BY <1>4, TriesKept
  <2>3. QED
    BY <1>3, <2>1, <2>2, RowsKept
<1>18. SentIsThere'
  <2>1. \A d \in Deliveries : delivery'[d].state = "SENT" =>
                           delivery[d].state = "SENT" /\ delivery'[d].link = delivery[d].link
    BY <1>4
  <2>2. QED
    BY <1>6, <2>1, SentKept
<1>19. QED
  BY <1>7, <1>8, <1>9, <1>10, <1>11, <1>12, <1>13, <1>14, <1>15, <1>16, <1>17, <1>18 DEF IInv,
     TypeOK

\* The process dies.
LEMMA CrashInv == ASSUME IInv, Crash
                  PROVE  IInv'
<1>1. pc' = "idle" /\ todo' = {} /\ cur' = NoRow /\ link' = 0 /\ found' = 0 /\ known' = {} /\ delivery' = delivery
  BY RestIs DEF Crash
<1>2. AdminTypes'
  BY JiraAssumption DEF IInv, TypeOK, AdminTypes, Crash, admin, Trouble
<1>3. DeliveryTypes'
  BY DEF IInv, TypeOK, DeliveryTypes, Crash, admin, Trouble
<1>4. LinkTypes'
  BY DEF IInv, TypeOK, LinkTypes, Crash, admin, Trouble
<1>5. IssueTypes'
  BY DEF IInv, TypeOK, IssueTypes, Crash, admin, Trouble
<1>6. PassTypes'
  BY <1>1 DEF PassTypes
<1>7. Mild
  BY SameIsMild DEF Crash, admin, Trouble
<1>8. Filed' /\ Keyed' /\ OneIssuePerRef' /\ Told'
  BY <1>7, MildKeeps
<1>9. AtStep'
  BY <1>1, Idling
<1>10. Rows'
  BY RowsKept, TriesKept, <1>1 DEF Crash, Pending, admin, Trouble
<1>11. SentIsThere'
  BY <1>7, MildGrows, SentKept DEF Crash, admin, Trouble
<1>12. QED
  BY <1>2, <1>3, <1>4, <1>5, <1>6, <1>8, <1>9, <1>10, <1>11 DEF IInv, TypeOK

-----------------------------------------------------------------------------
(* Everyone else *)

\* SETTLE goes by: attempts settle, back-offs end, the index catches up.
LEMMA SettlesInv == ASSUME IInv, Settles
                    PROVE  IInv'
<1>1. todo' = todo /\ known' = known /\ cur' = cur /\ link' = link /\ found' = found /\ pc' = pc /\ pc = "idle" /\ cur = NoRow /\ todo = {}
  BY DEF Settles, pass, IInv, AtStep
<1>2. \A d \in Deliveries : /\ delivery'[d] \in Delivery /\ delivery'[d].attempts = delivery[d].attempts
                            /\ delivery'[d].state = delivery[d].state /\ delivery'[d].link = delivery[d].link
  <2>1. ASSUME NEW d \in Deliveries
        PROVE /\ delivery'[d] \in Delivery /\ delivery'[d].attempts = delivery[d].attempts
              /\ delivery'[d].state = delivery[d].state /\ delivery'[d].link = delivery[d].link
    <3>1. delivery'[d] = [delivery[d] EXCEPT !.waiting = FALSE]
      BY DEF Settles
    <3>2. delivery[d] \in Delivery
      BY DeliveryIs DEF IInv, TypeOK
    <3>3. QED
      BY <3>1, <3>2 DEF Delivery
  <2>2. QED
    BY <2>1
<1>3. \A l \in DOMAIN links :
        /\ links'[l] \in Link /\ links'[l].issue = links[l].issue /\ links'[l].state = links[l].state
        /\ links'[l].creator = links[l].creator
        /\ links'[l].attempt = IF links[l].attempt = "fresh" THEN "settled" ELSE links[l].attempt
        /\ \A e \in Events : links'[l].event[e] =
                               IF links[l].event[e] = "fresh" THEN "settled" ELSE links[l].event[e]
  <2>1. ASSUME NEW l \in DOMAIN links
        PROVE /\ links'[l] \in Link /\ links'[l].issue = links[l].issue /\ links'[l].state = links[l].state
              /\ links'[l].creator = links[l].creator
              /\ links'[l].attempt = IF links[l].attempt = "fresh" THEN "settled" ELSE links[l].attempt
              /\ \A e \in Events : links'[l].event[e] =
                   IF links[l].event[e] = "fresh" THEN "settled" ELSE links[l].event[e]
    <3>1. PICK m : m = [e \in Events |-> IF links[l].event[e] = "fresh" THEN "settled"
                                         ELSE links[l].event[e]]
      OBVIOUS
    <3>2. PICK t : t = IF links[l].attempt = "fresh" THEN "settled" ELSE links[l].attempt
      OBVIOUS
    <3>3. links'[l] = [links[l] EXCEPT !.attempt = t, !.event = m]
      BY <3>1, <3>2 DEF Settles
    <3>4. links[l] \in Link
      BY LinkIs DEF IInv, TypeOK
    <3>5. m \in [Events -> Note] /\ t \in {"none", "fresh", "settled"}
      BY <3>1, <3>2, <3>4 DEF Link, Note
    <3>6. /\ links'[l] \in Link /\ links'[l].issue = links[l].issue /\ links'[l].state = links[l].state
          /\ links'[l].creator = links[l].creator /\ links'[l].attempt = t /\ links'[l].event = m
      BY <3>3, <3>4, <3>5 DEF Link
    <3>7. QED
      BY <3>1, <3>2, <3>6
  <2>2. QED
    BY <2>1
<1>4. \A i \in DOMAIN issues :
        /\ issues'[i] \in Ticket /\ issues'[i].ref = issues[i].ref /\ issues'[i].first = issues[i].first
        /\ issues'[i].comments = issues[i].comments /\ issues'[i].indexed = TRUE
  <2>1. ASSUME NEW i \in DOMAIN issues
        PROVE /\ issues'[i] \in Ticket /\ issues'[i].ref = issues[i].ref
              /\ issues'[i].first = issues[i].first
              /\ issues'[i].comments = issues[i].comments /\ issues'[i].indexed = TRUE
    <3>1. issues'[i] = [issues[i] EXCEPT !.indexed = TRUE]
      BY DEF Settles
    <3>2. issues[i] \in Ticket
      BY IssueIs DEF IInv, TypeOK
    <3>3. QED
      BY <3>1, <3>2 DEF Ticket
  <2>2. QED
    BY <2>1
<1>5. /\ DOMAIN links' = DOMAIN links /\ DOMAIN issues' = DOMAIN issues
      /\ links' \in Seq(Link) /\ issues' \in Seq(Ticket)
  <2>1. /\ DOMAIN links' = DOMAIN links /\ DOMAIN issues' = DOMAIN issues
        /\ links' = [l \in DOMAIN links' |-> links'[l]] /\ issues' = [i \in DOMAIN issues' |-> issues'[i]]
    BY DEF Settles
  <2>2. links \in Seq(Link) /\ issues \in Seq(Ticket)
    BY DEF IInv, TypeOK, LinkTypes, IssueTypes
  <2>3. links' \in Seq(Link)
    BY <1>3, <2>1, <2>2, InPlace
  <2>4. issues' \in Seq(Ticket)
    BY <1>4, <2>1, <2>2, InPlace
  <2>5. QED
    BY <2>1, <2>3, <2>4
<1>6. Grown
  BY <1>4, <1>5 DEF Grown, PostsOf
<1>7. AdminTypes'
  BY JiraAssumption DEF IInv, TypeOK, AdminTypes, Settles, pass, admin
<1>8. DeliveryTypes'
  BY <1>2 DEF DeliveryTypes, Settles
<1>9. LinkTypes'
  BY <1>5 DEF LinkTypes
<1>10. IssueTypes'
  BY <1>5 DEF IssueTypes
<1>11. PassTypes'
  BY <1>1 DEF IInv, TypeOK, PassTypes
<1>12. Filed'
  <2>1. \A l \in DOMAIN links : \A e \in Events : links[l].event[e] # "none" => links'[l].event[e] # "none"
    BY <1>3
  <2>2. \A l \in DOMAIN links : links[l].attempt # "none" => links'[l].attempt # "none"
    BY <1>3
  <2>3. ASSUME NEW i \in DOMAIN issues
        PROVE LET l == issues[i].ref IN
              /\ l \in DOMAIN links' /\ links'[l].attempt # "none" /\ links'[l].creator = issues[i].first
              /\ \A e \in Events : issues[i].comments[e] > 0 => links'[l].event[e] # "none"
    BY <1>3, <1>5, <2>1, <2>2 DEF IInv, Filed
  <2>4. QED
    BY <1>4, <1>5, <2>3 DEF Filed
<1>13. Keyed'
  BY <1>3, <1>4, <1>5 DEF IInv, Keyed
<1>14. OneIssuePerRef'
  BY <1>4, <1>5 DEF IInv, OneIssuePerRef
<1>15. Told'
  <2>1. \A l \in DOMAIN links : \A e \in Events : links'[l].event[e] = "posted" => links[l].event[e] = "posted"
    BY <1>3
  <2>2. QED
    BY <1>5, <1>6, <2>1, ToldKept
<1>16. AtStep'
  BY <1>1, Idling
<1>17. Rows'
  BY <1>1, <1>2, RowsKept, TriesKept DEF Pending
<1>18. SentIsThere'
  BY <1>2, <1>6, SentKept
<1>19. QED
  BY <1>7, <1>8, <1>9, <1>10, <1>11, <1>12, <1>13, <1>14, <1>15, <1>16, <1>17, <1>18 DEF IInv,
     TypeOK

\* Somebody moves an issue to done.
LEMMA FinishInv == ASSUME IInv, NEW i \in DOMAIN issues, Finish(i)
                   PROVE  IInv'
<1>1. /\ issues' \in Seq(Ticket) /\ DOMAIN issues' = DOMAIN issues
      /\ \A k \in DOMAIN issues : /\ issues'[k].ref = issues[k].ref /\ issues'[k].first = issues[k].first
                                  /\ issues'[k].comments = issues[k].comments
                                  /\ issues'[k].indexed = issues[k].indexed
  <2>1. issues[i] \in Ticket
    BY IssueIs DEF IInv, TypeOK
  <2>2. issues' = [issues EXCEPT ![i] = [issues[i] EXCEPT !.done = TRUE]]
    BY DEF Finish
  <2>3. [issues[i] EXCEPT !.done = TRUE] \in Ticket
    BY <2>1 DEF Ticket
  <2>4. issues' \in Seq(Ticket) /\ DOMAIN issues' = DOMAIN issues
    BY <2>2, <2>3 DEF IInv, TypeOK, IssueTypes
  <2>5. QED
    BY <2>1, <2>2, <2>4 DEF Ticket
<1>2. AdminTypes'
  BY JiraAssumption DEF IInv, TypeOK, AdminTypes, Finish, pass, admin
<1>3. DeliveryTypes'
  BY DEF IInv, TypeOK, DeliveryTypes, Finish, pass, admin
<1>4. LinkTypes'
  BY DEF IInv, TypeOK, LinkTypes, Finish, pass, admin
<1>5. IssueTypes'
  BY <1>1 DEF IssueTypes
<1>6. PassTypes'
  BY JiraAssumption DEF IInv, TypeOK, PassTypes, Row, Finish, pass, admin
<1>7. Mild
  BY <1>1 DEF Finish, Mild, pass
<1>8. Filed' /\ Keyed' /\ OneIssuePerRef' /\ Told'
  BY <1>7, MildKeeps
<1>9. AtStep'
  BY <1>7, MildStep DEF Finish, pass, admin
<1>10. Rows'
  BY RowsKept, TriesKept DEF Finish, Pending, pass, admin
<1>11. SentIsThere'
  BY <1>7, MildGrows, SentKept DEF Finish, pass, admin
<1>12. QED
  BY <1>2, <1>3, <1>4, <1>5, <1>6, <1>8, <1>9, <1>10, <1>11 DEF IInv, TypeOK

\* The destination is paused ...
LEMMA PauseInv == ASSUME IInv, Pause
                  PROVE  IInv'
<1>1. AdminTypes'
  BY ConfiguredIs DEF Pause, IInv, TypeOK
<1>2. DeliveryTypes'
  BY DEF IInv, TypeOK, DeliveryTypes, Pause, Configured, pass, Trouble
<1>3. LinkTypes'
  BY DEF IInv, TypeOK, LinkTypes, Pause, Configured, pass, Trouble
<1>4. IssueTypes'
  BY DEF IInv, TypeOK, IssueTypes, Pause, Configured, pass, Trouble
<1>5. PassTypes'
  BY JiraAssumption DEF IInv, TypeOK, PassTypes, Row, Pause, Configured, pass, Trouble
<1>6. Mild
  BY SameIsMild DEF Pause, Configured, pass, Trouble
<1>7. Filed' /\ Keyed' /\ OneIssuePerRef' /\ Told'
  BY <1>6, MildKeeps
<1>8. AtStep'
  BY <1>6, MildStep DEF Pause, Configured, pass, Trouble
<1>9. Rows'
  BY RowsKept, TriesKept DEF Pause, Pending, Configured, pass, Trouble
<1>10. SentIsThere'
  BY <1>6, MildGrows, SentKept DEF Pause, Configured, pass, Trouble
<1>11. QED
  BY <1>1, <1>2, <1>3, <1>4, <1>5, <1>7, <1>8, <1>9, <1>10 DEF IInv, TypeOK

\* ... or activated ...
LEMMA ActivateInv == ASSUME IInv, Activate
                     PROVE  IInv'
<1>1. AdminTypes'
  BY ConfiguredIs DEF Activate, IInv, TypeOK
<1>2. DeliveryTypes'
  BY DEF IInv, TypeOK, DeliveryTypes, Activate, Configured, pass, Trouble
<1>3. LinkTypes'
  BY DEF IInv, TypeOK, LinkTypes, Activate, Configured, pass, Trouble
<1>4. IssueTypes'
  BY DEF IInv, TypeOK, IssueTypes, Activate, Configured, pass, Trouble
<1>5. PassTypes'
  BY JiraAssumption DEF IInv, TypeOK, PassTypes, Row, Activate, Configured, pass, Trouble
<1>6. Mild
  BY SameIsMild DEF Activate, Configured, pass, Trouble
<1>7. Filed' /\ Keyed' /\ OneIssuePerRef' /\ Told'
  BY <1>6, MildKeeps
<1>8. AtStep'
  BY <1>6, MildStep DEF Activate, Configured, pass, Trouble
<1>9. Rows'
  BY RowsKept, TriesKept DEF Activate, Pending, Configured, pass, Trouble
<1>10. SentIsThere'
  BY <1>6, MildGrows, SentKept DEF Activate, Configured, pass, Trouble
<1>11. QED
  BY <1>1, <1>2, <1>3, <1>4, <1>5, <1>7, <1>8, <1>9, <1>10 DEF IInv, TypeOK

\* ... or retired, and its links closed ...
LEMMA RetireInv == ASSUME IInv, Retire
                   PROVE  IInv'
<1>1. /\ links' \in Seq(Link) /\ DOMAIN links' = DOMAIN links
      /\ \A l \in DOMAIN links : /\ links'[l].issue = links[l].issue /\ links'[l].attempt = links[l].attempt
                                 /\ links'[l].creator = links[l].creator /\ links'[l].event = links[l].event
                                 /\ links'[l].state = "CLOSED"
  <2>1. links' = [l \in DOMAIN links |-> [links[l] EXCEPT !.state = "CLOSED"]]
    BY DEF Retire, Unlinked
  <2>2. \A l \in DOMAIN links : links'[l] \in Link
    BY <2>1, LinkIs DEF IInv, TypeOK, Link
  <2>3. links' \in Seq(Link)
    BY <2>1, <2>2, InPlace DEF IInv, TypeOK, LinkTypes
  <2>4. \A l \in DOMAIN links : links[l] \in Link
    BY LinkIs DEF IInv, TypeOK
  <2>5. QED
    BY <2>1, <2>3, <2>4 DEF Link
<1>2. AdminTypes'
  BY ConfiguredIs DEF Retire, IInv, TypeOK
<1>3. DeliveryTypes'
  BY DEF IInv, TypeOK, DeliveryTypes, Retire, Configured, pass, Trouble
<1>4. LinkTypes'
  BY <1>1 DEF LinkTypes
<1>5. IssueTypes'
  BY DEF IInv, TypeOK, IssueTypes, Retire, Configured, pass, Trouble
<1>6. PassTypes'
  BY JiraAssumption DEF IInv, TypeOK, PassTypes, Row, Retire, Configured, pass, Trouble
<1>7. Mild
  BY <1>1 DEF Retire, Configured, Mild
<1>8. Filed' /\ Keyed' /\ OneIssuePerRef' /\ Told'
  BY <1>7, MildKeeps
<1>9. AtStep'
  BY <1>7, MildStep DEF Retire, Configured, pass, Trouble
<1>10. Rows'
  BY RowsKept, TriesKept DEF Retire, Pending, Configured, pass, Trouble
<1>11. SentIsThere'
  BY <1>7, MildGrows, SentKept DEF Retire, Configured, pass, Trouble
<1>12. QED
  BY <1>2, <1>3, <1>4, <1>5, <1>6, <1>8, <1>9, <1>10, <1>11 DEF IInv, TypeOK

\* ... or moved, and its links closed ...
LEMMA MoveInv == ASSUME IInv, Move
                 PROVE  IInv'
<1>1. /\ links' \in Seq(Link) /\ DOMAIN links' = DOMAIN links
      /\ \A l \in DOMAIN links : /\ links'[l].issue = links[l].issue /\ links'[l].attempt = links[l].attempt
                                 /\ links'[l].creator = links[l].creator /\ links'[l].event = links[l].event
                                 /\ links'[l].state = "CLOSED"
  <2>1. links' = [l \in DOMAIN links |-> [links[l] EXCEPT !.state = "CLOSED"]]
    BY DEF Move, Unlinked
  <2>2. \A l \in DOMAIN links : links'[l] \in Link
    BY <2>1, LinkIs DEF IInv, TypeOK, Link
  <2>3. links' \in Seq(Link)
    BY <2>1, <2>2, InPlace DEF IInv, TypeOK, LinkTypes
  <2>4. \A l \in DOMAIN links : links[l] \in Link
    BY LinkIs DEF IInv, TypeOK
  <2>5. QED
    BY <2>1, <2>3, <2>4 DEF Link
<1>2. AdminTypes'
  BY ConfiguredIs DEF Move, IInv, TypeOK
<1>3. DeliveryTypes'
  BY DEF IInv, TypeOK, DeliveryTypes, Move, Configured, pass, Trouble
<1>4. LinkTypes'
  BY <1>1 DEF LinkTypes
<1>5. IssueTypes'
  BY DEF IInv, TypeOK, IssueTypes, Move, Configured, pass, Trouble
<1>6. PassTypes'
  BY JiraAssumption DEF IInv, TypeOK, PassTypes, Row, Move, Configured, pass, Trouble
<1>7. Mild
  BY <1>1 DEF Move, Configured, Mild
<1>8. Filed' /\ Keyed' /\ OneIssuePerRef' /\ Told'
  BY <1>7, MildKeeps
<1>9. AtStep'
  BY <1>7, MildStep DEF Move, Configured, pass, Trouble
<1>10. Rows'
  BY RowsKept, TriesKept DEF Move, Pending, Configured, pass, Trouble
<1>11. SentIsThere'
  BY <1>7, MildGrows, SentKept DEF Move, Configured, pass, Trouble
<1>12. QED
  BY <1>2, <1>3, <1>4, <1>5, <1>6, <1>8, <1>9, <1>10, <1>11 DEF IInv, TypeOK

\* ... or mended ...
LEMMA MendInv == ASSUME IInv, Mend
                 PROVE  IInv'
<1>1. AdminTypes'
  <2>1. dest' = [dest EXCEPT !.broken = FALSE]
    BY DEF Mend
  <2>2. dest' \in [state : {"DRAFT", "ACTIVE", "PAUSED", "RETIRED"}, broken : BOOLEAN]
    BY <2>1 DEF IInv, TypeOK, AdminTypes
  <2>3. QED
    BY <2>2 DEF Mend, Trouble, IInv, TypeOK, AdminTypes
<1>2. DeliveryTypes'
  BY DEF IInv, TypeOK, DeliveryTypes, Mend, pass, Trouble
<1>3. LinkTypes'
  BY DEF IInv, TypeOK, LinkTypes, Mend, pass, Trouble
<1>4. IssueTypes'
  BY DEF IInv, TypeOK, IssueTypes, Mend, pass, Trouble
<1>5. PassTypes'
  BY JiraAssumption DEF IInv, TypeOK, PassTypes, Row, Mend, pass, Trouble
<1>6. Mild
  BY SameIsMild DEF Mend, pass, Trouble
<1>7. Filed' /\ Keyed' /\ OneIssuePerRef' /\ Told'
  BY <1>6, MildKeeps
<1>8. AtStep'
  BY <1>6, MildStep DEF Mend, pass, Trouble
<1>9. Rows'
  BY RowsKept, TriesKept DEF Mend, Pending, pass, Trouble
<1>10. SentIsThere'
  BY <1>6, MildGrows, SentKept DEF Mend, pass, Trouble
<1>11. QED
  BY <1>1, <1>2, <1>3, <1>4, <1>5, <1>7, <1>8, <1>9, <1>10 DEF IInv, TypeOK

\* ... or a case is kept out, or let in.
LEMMA VetoInv == ASSUME IInv, Veto
                 PROVE  IInv'
<1>1. AdminTypes'
  BY JiraAssumption DEF IInv, TypeOK, AdminTypes, Veto, pass, Trouble
<1>2. DeliveryTypes'
  BY DEF IInv, TypeOK, DeliveryTypes, Veto, pass, Trouble
<1>3. LinkTypes'
  BY DEF IInv, TypeOK, LinkTypes, Veto, pass, Trouble
<1>4. IssueTypes'
  BY DEF IInv, TypeOK, IssueTypes, Veto, pass, Trouble
<1>5. PassTypes'
  BY JiraAssumption DEF IInv, TypeOK, PassTypes, Row, Veto, pass, Trouble
<1>6. Mild
  BY SameIsMild DEF Veto, pass, Trouble
<1>7. Filed' /\ Keyed' /\ OneIssuePerRef' /\ Told'
  BY <1>6, MildKeeps
<1>8. AtStep'
  BY <1>6, MildStep DEF Veto, pass, Trouble
<1>9. Rows'
  BY RowsKept, TriesKept DEF Veto, Pending, pass, Trouble
<1>10. SentIsThere'
  BY <1>6, MildGrows, SentKept DEF Veto, pass, Trouble
<1>11. QED
  BY <1>1, <1>2, <1>3, <1>4, <1>5, <1>7, <1>8, <1>9, <1>10 DEF IInv, TypeOK

\* A recipient stops receiving work items.
LEMMA OptOutInv == ASSUME IInv, NEW d \in Deliveries, OptOut(d)
                   PROVE  IInv'
<1>1. AdminTypes'
  BY JiraAssumption DEF IInv, TypeOK, AdminTypes, OptOut, pass, Trouble
<1>2. DeliveryTypes'
  BY DEF IInv, TypeOK, DeliveryTypes, OptOut, pass, Trouble
<1>3. LinkTypes'
  BY DEF IInv, TypeOK, LinkTypes, OptOut, pass, Trouble
<1>4. IssueTypes'
  BY DEF IInv, TypeOK, IssueTypes, OptOut, pass, Trouble
<1>5. PassTypes'
  BY JiraAssumption DEF IInv, TypeOK, PassTypes, Row, OptOut, pass, Trouble
<1>6. Mild
  BY SameIsMild DEF OptOut, pass, Trouble
<1>7. Filed' /\ Keyed' /\ OneIssuePerRef' /\ Told'
  BY <1>6, MildKeeps
<1>8. AtStep'
  BY <1>6, MildStep DEF OptOut, pass, Trouble
<1>9. Rows'
  BY RowsKept, TriesKept DEF OptOut, Pending, pass, Trouble
<1>10. SentIsThere'
  BY <1>6, MildGrows, SentKept DEF OptOut, pass, Trouble
<1>11. QED
  BY <1>1, <1>2, <1>3, <1>4, <1>5, <1>7, <1>8, <1>9, <1>10 DEF IInv, TypeOK

\* A delivery is sent again by hand.
LEMMA RequeueInv == ASSUME IInv, NEW d \in Deliveries, Requeue(d)
                    PROVE  IInv'
<1>1. /\ \A x \in Deliveries : x # d => delivery'[x] = delivery[x]
      /\ delivery'[d].state = "PENDING" /\ delivery'[d].attempts = 0 /\ delivery[d].state # "SENT"
      /\ delivery' \in [Deliveries -> Delivery]
  <2>1. PICK w \in BOOLEAN : w = NotYet(d)
    BY DEF NotYet
  <2>2. delivery' = [delivery EXCEPT ![d] =
                       [delivery[d] EXCEPT !.state = "PENDING", !.attempts = 0, !.waiting = w]]
    BY <2>1 DEF Requeue
  <2>3. delivery[d] \in Delivery
    BY DeliveryIs DEF IInv, TypeOK
  <2>4. [delivery[d] EXCEPT !.state = "PENDING", !.attempts = 0, !.waiting = w] \in Delivery
    BY <2>3 DEF Delivery
  <2>5. QED
    BY <2>2, <2>3, <2>4 DEF Requeue, Pending, IInv, TypeOK, DeliveryTypes, Delivery
<1>2. AdminTypes'
  BY JiraAssumption DEF IInv, TypeOK, AdminTypes, Requeue, pass, Trouble
<1>3. DeliveryTypes'
  BY <1>1 DEF DeliveryTypes
<1>4. LinkTypes'
  BY DEF IInv, TypeOK, LinkTypes, Requeue, pass, Trouble
<1>5. IssueTypes'
  BY DEF IInv, TypeOK, IssueTypes, Requeue, pass, Trouble
<1>6. PassTypes'
  BY JiraAssumption DEF IInv, TypeOK, PassTypes, Row, Requeue, pass, Trouble
<1>7. Mild
  BY SameIsMild DEF Requeue, pass, Trouble
<1>8. Filed' /\ Keyed' /\ OneIssuePerRef' /\ Told'
  BY <1>7, MildKeeps
<1>9. AtStep'
  BY <1>7, MildStep DEF Requeue, pass, Trouble
<1>10. Rows'
  BY RowsKept, TriesKept, <1>1, JiraAssumption DEF Requeue, Pending, pass, Trouble
<1>11. SentIsThere'
  BY <1>7, MildGrows, SentKept, <1>1 DEF Requeue, pass, Trouble
<1>12. QED
  BY <1>2, <1>3, <1>4, <1>5, <1>6, <1>8, <1>9, <1>10, <1>11 DEF IInv, TypeOK

-----------------------------------------------------------------------------
(* Every step, and what is always so                                       *)

\* Nothing is queued yet.
LEMMA InitInv == Init => IInv
<1> SUFFICES ASSUME Init PROVE IInv
  OBVIOUS
<1>1. /\ links = << >> /\ issues = << >> /\ pc = "idle" /\ todo = {} /\ cur = NoRow /\ link = 0
      /\ found = 0 /\ known = {} /\ vetoed = FALSE /\ optedOut = {} /\ changed = FALSE /\ trouble = 0
  BY DEF Init
<1>2. /\ delivery \in [Deliveries -> Delivery]
      /\ \A d \in Deliveries : delivery[d].state = "unqueued" /\ delivery[d].attempts = 0
  BY DEF Init, Delivery
<1>3. DOMAIN links = {} /\ DOMAIN issues = {} /\ links \in Seq(Link) /\ issues \in Seq(Ticket)
  BY <1>1
<1>4. AdminTypes
  <2>1. dest \in [state : {"ACTIVE", "PAUSED"}, broken : {FALSE}]
    BY DEF Init
  <2>2. PICK s \in {"ACTIVE", "PAUSED"}, b \in BOOLEAN : dest = [state |-> s, broken |-> b]
    BY <2>1
  <2>3. dest \in [state : {"DRAFT", "ACTIVE", "PAUSED", "RETIRED"}, broken : BOOLEAN]
    BY <2>2
  <2>4. QED
    BY <1>1, <2>3 DEF AdminTypes
<1>5. TypeOK
  BY <1>1, <1>2, <1>3, <1>4 DEF TypeOK, DeliveryTypes, LinkTypes, IssueTypes, PassTypes
<1>6. Filed /\ Keyed /\ OneIssuePerRef /\ Told
  BY <1>3 DEF Filed, Keyed, OneIssuePerRef, Told
<1>7. AtStep
  BY <1>1 DEF AtStep
<1>8. Rows
  BY <1>1, <1>2, JiraAssumption DEF Rows, Row, NoRow
<1>9. SentIsThere
  BY <1>2 DEF SentIsThere
<1>10. QED
  BY <1>5, <1>6, <1>7, <1>8, <1>9 DEF IInv

\* A step that touches nothing.
LEMMA StutterInv == ASSUME IInv, UNCHANGED vars PROVE IInv'
<1>1. /\ dest' = dest /\ vetoed' = vetoed /\ optedOut' = optedOut /\ delivery' = delivery
      /\ links' = links /\ issues' = issues /\ pc' = pc /\ todo' = todo /\ cur' = cur /\ link' = link
      /\ found' = found /\ changed' = changed /\ known' = known /\ trouble' = trouble
  BY DEF vars
<1>2. TypeOK'
  BY <1>1 DEF IInv, TypeOK, AdminTypes, DeliveryTypes, LinkTypes, IssueTypes, PassTypes
<1>3. Mild
  BY <1>1, SameIsMild
<1>4. Filed' /\ Keyed' /\ OneIssuePerRef' /\ Told'
  BY <1>3, MildKeeps
<1>5. AtStep'
  BY <1>1, <1>3, MildStep
<1>6. Rows'
  BY <1>1, RowsKept, TriesKept DEF Pending
<1>7. SentIsThere'
  BY <1>1, <1>3, MildGrows, SentKept
<1>8. QED
  BY <1>2, <1>4, <1>5, <1>6, <1>7 DEF IInv

\* Whatever the step, the invariant holds after it.
LEMMA NextInv == ASSUME IInv, [Next]_vars PROVE IInv'
<1>1. CASE UNCHANGED vars
  BY <1>1, StutterInv
<1>2. CASE Pass
  <2>1. CASE Reconcile \/ ReadDue \/ EndPass \/ OpenLink \/ TakeLink \/ Search
    BY <2>1, ReconcileInv, ReadDueInv, EndPassInv, OpenLinkInv, TakeLinkInv, SearchInv
  <2>2. CASE Claim \/ Mark \/ Create \/ Linked \/ Record \/ SentOn
    BY <2>2, ClaimInv, MarkInv, CreateInv, LinkedInv, RecordInv, SentOnInv
  <2>3. CASE Status \/ Label \/ Look \/ Comment \/ Posted
    BY <2>3, StatusInv, LabelInv, LookInv, CommentInv, PostedInv
  <2>4. ASSUME NEW row \in todo, Pick(row) PROVE IInv'
    BY <2>4, PickInv
  <2>5. ASSUME NEW config \in BOOLEAN, CallFails(config) PROVE IInv'
    BY <2>5, CallFailsInv
  <2>6. QED
    BY <1>2, <2>1, <2>2, <2>3, <2>4, <2>5 DEF Pass
<1>3. CASE Configure
  <2>1. CASE Pause \/ Activate \/ Retire \/ Move \/ Mend \/ Veto
    BY <2>1, PauseInv, ActivateInv, RetireInv, MoveInv, MendInv, VetoInv
  <2>2. ASSUME NEW d \in Deliveries, OptOut(d) \/ Requeue(d) PROVE IInv'
    BY <2>2, OptOutInv, RequeueInv
  <2>3. QED
    BY <1>3, <2>1, <2>2 DEF Configure
<1>4. CASE StartPass \/ Crash \/ Settles
  BY <1>4, StartPassInv, CrashInv, SettlesInv
<1>5. ASSUME NEW d \in Deliveries, Queue(d) PROVE IInv'
  BY <1>5, QueueInv
<1>6. ASSUME NEW i \in DOMAIN issues, Finish(i) PROVE IInv'
  BY <1>6, FinishInv
<1>7. QED
  BY <1>1, <1>2, <1>3, <1>4, <1>5, <1>6 DEF Next

\* The inductive invariant of delivery to Jira (transports.dispatch_due,
\* jira.JiraTransport.send): for any deliveries, events, work items and bounds.
THEOREM JiraInductive == Spec => []IInv
<1>1. QED
  BY InitInv, NextInv, PTL DEF Spec

\* Deliveries, links, issues and the pass keep their types.
THEOREM JiraTypes == Spec => []TypeOK
<1>1. IInv => TypeOK
  BY DEF IInv
<1>2. QED
  BY <1>1, JiraInductive, PTL

\* A create whose answer was lost is searched for before it is made again
\* (_create, _search): no two issues carry one ref, whatever is lost, wherever
\* the process dies.
THEOREM OneIssue == Spec => []OneIssuePerRef
<1>1. IInv => OneIssuePerRef
  BY DEF IInv
<1>2. QED
  BY <1>1, JiraInductive, PTL

\* What says SENT is on an issue of the link it names, whoever posted it
\* (ALREADY_ON_ISSUE, _posted).
THEOREM SentDeliveryIsPosted == Spec => []SentIsThere
<1>1. IInv => SentIsThere
  BY DEF IInv
<1>2. QED
  BY <1>1, JiraInductive, PTL

-----------------------------------------------------------------------------
(* No second post                                                          *)

PostedTwice(i, e) == PostsOf(i, e) > 0 /\ PostsOf(i, e)' > PostsOf(i, e)
PostsOnce == \A i \in DOMAIN issues, e \in Events :
    PostedTwice(i, e) => links[issues[i].ref].creator = e /\ issues[i].comments[e] = 0

\* An issue whose posts nobody adds to.
LEMMA SamePosts == ASSUME IInv, \A i \in DOMAIN issues :
                            issues'[i].first = issues[i].first /\ issues'[i].comments = issues[i].comments
                   PROVE  PostsOnce
<1>1. ASSUME NEW i \in DOMAIN issues, NEW e \in Events PROVE ~PostedTwice(i, e)
  <2>1. PostsOf(i, e)' = PostsOf(i, e) /\ PostsOf(i, e) \in Nat
    BY PostsIs DEF PostsOf
  <2>2. QED
    BY <2>1 DEF PostedTwice
<1>2. QED
  BY <1>1 DEF PostsOnce

\* An issue is added: those that are there stay as they are.
LEMMA MadePosts == ASSUME IInv, NEW new, issues' = Append(issues, new) PROVE PostsOnce
<1>1. issues \in Seq(Ticket)
  BY DEF IInv, TypeOK, IssueTypes
<1>2. \A i \in DOMAIN issues : issues'[i] = issues[i]
  BY <1>1
<1>3. QED
  BY <1>2, SamePosts

\* A comment goes where the event has none: a second post is its creator's.
LEMMA CommentPosts == ASSUME IInv, pc = "comment", issues' = Commented(Issue, Event) PROVE PostsOnce
<1>1. cur \in Row /\ Event \in Events /\ link \in DOMAIN links /\ Lacking
  BY CurIs DEF IInv, AtStep
<1>2. Issue \in DOMAIN issues /\ issues[Issue].ref = link /\ issues[Issue].first = links[link].creator
  BY <1>1, IssueHere DEF Lacking
<1>3. IssueTypes
  BY DEF IInv, TypeOK
<1>4. \A k \in DOMAIN issues : /\ issues'[k].first = issues[k].first
                               /\ \A x \in Events : k # Issue \/ x # Event =>
                                    issues'[k].comments[x] = issues[k].comments[x]
  BY <1>1, <1>2, <1>3, CommentedIs
<1>5. ASSUME NEW i \in DOMAIN issues, NEW e \in Events, PostedTwice(i, e)
      PROVE links[issues[i].ref].creator = e /\ issues[i].comments[e] = 0
  <2>1. i = Issue /\ e = Event
    <3>1. PostsOf(i, e) \in Nat /\ PostsOf(i, e)' # PostsOf(i, e)
      BY <1>5, PostsIs DEF PostedTwice
    <3>2. QED
      BY <1>4, <3>1 DEF PostsOf
  <2>2. issues[i].comments[e] = 0 /\ PostsOf(i, e) > 0
    BY <1>1, <1>5, <2>1 DEF Lacking, PostedTwice
  <2>3. issues[i].first = e
    BY <2>2 DEF PostsOf
  <2>4. QED
    BY <1>2, <2>1, <2>2, <2>3
<1>6. QED
  BY <1>5 DEF PostsOnce

\* Whatever the step.
LEMMA NextPosts == ASSUME IInv, [Next]_vars PROVE PostsOnce
<1>1. CASE issues' = issues
  BY <1>1, SamePosts
<1>2. CASE Create
  BY <1>2, MadePosts DEF Create
<1>3. CASE Label
  <2>1. cur \in Row /\ Event \in Events /\ link \in DOMAIN links /\ links[link].issue # 0
    BY <1>3, CurIs DEF Label, IInv, AtStep
  <2>2. issues' = issues \/ issues' = [issues EXCEPT ![Issue].label = HigherOf(@, Tlp[Event])]
    BY <1>3 DEF Label
  <2>3. QED
    BY <1>1, <2>1, <2>2, LabelIs, SamePosts
<1>4. CASE Comment
  BY <1>4, CommentPosts DEF Comment, Commented
<1>5. ASSUME NEW config \in BOOLEAN, CallFails(config) PROVE PostsOnce
  <2>1. CASE pc = "create" /\ issues' = Append(issues, NewIssue(link, Event))
    BY <2>1, MadePosts
  <2>2. CASE pc = "comment" /\ issues' = [issues EXCEPT ![Issue].comments[Event] = @ + 1]
    BY <2>2, CommentPosts DEF Commented
  <2>3. CASE pc = "label" /\ issues' = [issues EXCEPT ![Issue].label = HigherOf(@, Tlp[Event])]
    <3>1. cur \in Row /\ Event \in Events /\ link \in DOMAIN links /\ links[link].issue # 0
      BY <2>3, CurIs DEF IInv, AtStep
    <3>2. QED
      BY <2>3, <3>1, LabelIs, SamePosts
  <2>4. QED
    BY <1>1, <1>5, <2>1, <2>2, <2>3 DEF CallFails, Done
<1>6. CASE Settles
  <2>1. ASSUME NEW i \in DOMAIN issues
        PROVE issues'[i].first = issues[i].first /\ issues'[i].comments = issues[i].comments
    <3>1. issues'[i] = [issues[i] EXCEPT !.indexed = TRUE] /\ issues[i] \in Ticket
      BY <1>6, IssueIs DEF Settles, IInv, TypeOK
    <3>2. QED
      BY <3>1 DEF Ticket
  <2>2. QED
    BY <2>1, SamePosts
<1>7. ASSUME NEW i \in DOMAIN issues, Finish(i) PROVE PostsOnce
  <2>1. ASSUME NEW k \in DOMAIN issues
        PROVE issues'[k].first = issues[k].first /\ issues'[k].comments = issues[k].comments
    <3>1. issues' = [issues EXCEPT ![i] = [issues[i] EXCEPT !.done = TRUE]]
      BY <1>7 DEF Finish
    <3>2. issues[k] \in Ticket /\ (issues'[k] = issues[k] \/ issues'[k] = [issues[k] EXCEPT !.done = TRUE])
      BY <3>1, IssueIs DEF IInv, TypeOK
    <3>3. QED
      BY <3>2 DEF Ticket
  <2>2. QED
    BY <2>1, SamePosts
<1>8. CASE Pass
  <2>1. CASE Reconcile \/ ReadDue \/ EndPass \/ OpenLink \/ TakeLink \/ Search
    BY <1>1, <2>1 DEF Reconcile, ReadDue, EndPass, OpenLink, TakeLink, Search
  <2>2. CASE Claim \/ Mark \/ Linked \/ Record \/ SentOn \/ Status \/ Look \/ Posted
    BY <1>1, <2>2 DEF Claim, Mark, Linked, Record, SentOn, Status, Look, Posted
  <2>3. CASE \E row \in todo : Pick(row)
    BY <1>1, <2>3 DEF Pick
  <2>4. QED
    BY <1>2, <1>3, <1>4, <1>5, <1>8, <2>1, <2>2, <2>3 DEF Pass
<1>9. CASE Configure
  BY <1>1, <1>9 DEF Configure, Pause, Activate, Retire, Move, Configured, Mend, Veto, OptOut, Requeue
<1>10. CASE StartPass \/ Crash \/ (\E d \in Deliveries : Queue(d)) \/ UNCHANGED vars
  BY <1>1, <1>10 DEF StartPass, Crash, Queue, vars
<1>11. QED
  BY <1>6, <1>7, <1>8, <1>9, <1>10 DEF Next

\* An event goes again onto an issue that has it only when it opened that issue
\* and its process died, or its answer was lost, before the event's row said so
\* (_claim, comment_with): no retry, and no other recipient's delivery, posts it.
THEOREM PostedAgainByItsCreator == Spec => NoSecondPost
<1>1. IInv /\ [Next]_vars =>
        [\A i \in DOMAIN issues, e \in Events : PostsOf(i, e) > 0 /\ PostsOf(i, e)' > PostsOf(i, e)
           => links[issues[i].ref].creator = e /\ issues[i].comments[e] = 0]_vars
  BY NextPosts DEF PostsOnce, PostedTwice
<1>2. QED
  BY <1>1, JiraInductive, PTL DEF Spec, NoSecondPost
=============================================================================
