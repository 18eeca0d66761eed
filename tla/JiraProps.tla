------------------------------ MODULE JiraProps ------------------------------
(* What delivery to Jira promises its recipients, and Jira's readers. *)
EXTENDS Jira

AdminTypes ==
    /\ dest \in [state : {"DRAFT", "ACTIVE", "PAUSED", "RETIRED"}, broken : BOOLEAN]
    /\ vetoed \in BOOLEAN /\ optedOut \subseteq Deliveries /\ changed \in BOOLEAN /\ trouble \in Nat
Delivery ==
    [state : {"unqueued", "PENDING", "SENT", "REFUSED", "FAILED", "SUPPRESSED"},
     attempts : Nat, waiting : BOOLEAN, link : Nat]
Note == {"none", "fresh", "settled", "posted"}
Link ==
    [work : Works, state : {"CREATING", "LINKED", "CLOSED"}, issue : Nat, tlp : Nat,
     attempt : {"none", "fresh", "settled"}, creator : Events \cup {Nobody},
     event : [Events -> Note]]
Ticket ==
    [ref : Nat, label : Nat, first : Events, comments : [Events -> Nat],
     done : BOOLEAN, indexed : BOOLEAN]
DeliveryTypes == delivery \in [Deliveries -> Delivery]
LinkTypes == links \in Seq(Link)
IssueTypes == issues \in Seq(Ticket)
Row == [of : Deliveries, attempts : Nat, round : {1, 2}]
\* tried and sweep are orders of links, which nothing here rests on.
PassTypes ==
    /\ pc \in {"idle", "reconcile", "pick", "link", "search", "claim", "mark", "create", "linked",
               "record", "sent", "status", "label", "look", "comment", "posted"}
    /\ todo \subseteq Row /\ cur \in Row \cup {NoRow}
    /\ link \in Nat /\ found \in Nat /\ known \subseteq Nat
TypeOK == AdminTypes /\ DeliveryTypes /\ LinkTypes /\ IssueTypes /\ PassTypes

\* A create of unknown outcome is looked for before it is made again: no two
\* issues carry one ref.
OneIssuePerRef == \A i, j \in DOMAIN issues : issues[i].ref = issues[j].ref => i = j

\* A delivery that says SENT is on an issue, whoever posted it, whatever was
\* lost on the way.
SentIsThere == \A d \in Deliveries : delivery[d].state = "SENT" =>
    \E i \in DOMAIN issues : issues[i].ref = delivery[d].link /\ PostsOf(i, EventOf[d]) > 0

\* An event goes a second time onto an issue that has it only when it opened
\* the issue and the process died between the link's row and the event's.
NoSecondPost == [][
    \A i \in DOMAIN issues, e \in Events : PostsOf(i, e) > 0 /\ PostsOf(i, e)' > PostsOf(i, e)
        => links[issues[i].ref].creator = e /\ issues[i].comments[e] = 0]_vars

\* While the destination is up, every delivery is settled in the end, one way
\* or another.
EveryDeliverySettles ==
    \A d \in Deliveries : [](Pending(d) => <>(~Pending(d) \/ Held))

\* _comment's comment: "The label goes FIRST: the issue is never left carrying
\* higher-TLP text under a lower label."  Two links that meet on one issue break
\* it; no run checks it.
LabelFirst == \A i \in DOMAIN issues, e \in Events :
    PostsOf(i, e) > 0 => Tlp[e] <= issues[i].label

\* _reconcile's docstring: an issue of an uncertain create that no delivery
\* will come back to "is still found and named".  Older links whose issue was
\* never made are read first by every pass, and break it; no run checks it.
Unnamed(l) == l \in DOMAIN links /\ Unconfirmed(l) /\ Answers(l) # {0}
UncertainIsNamed == \A l \in 1..MaxLinks : Unnamed(l) ~> (Held \/ ~Unnamed(l))

-----------------------------------------------------------------------------
(* Why the first three hold: IInv is inductive                             *)

NoIssue(l) == \A i \in DOMAIN issues : issues[i].ref # l

\* An issue is of a link that was attempted, by the attempt that made it, and
\* after SETTLE a search finds it; a comment was claimed before it was made.
Filed == \A i \in DOMAIN issues :
    LET l == issues[i].ref IN
    /\ l \in DOMAIN links /\ links[l].attempt # "none" /\ links[l].creator = issues[i].first
    /\ links[l].attempt = "settled" => issues[i].indexed
    /\ \A e \in Events : issues[i].comments[e] > 0 => links[l].event[e] # "none"

\* A link names its own issue, and is LINKED only when it has one.
Keyed == \A l \in DOMAIN links :
    /\ links[l].issue # 0 => links[l].issue \in DOMAIN issues /\ issues[links[l].issue].ref = l
    /\ links[l].state = "LINKED" => links[l].issue # 0
    /\ links[l].state = "CREATING" => links[l].issue = 0

\* What the pass knows of the link in hand, where it is.
Making == NoIssue(link) /\ links[link].creator = Event /\ links[link].attempt = "fresh"
Lacking == links[link].issue # 0 /\ issues[Issue].comments[Event] = 0
AtStep ==
    /\ pc \in {"idle", "reconcile", "pick"} => cur = NoRow
    /\ pc = "idle" => todo = {}
    /\ pc \notin {"idle", "reconcile", "pick", "linked", "record"} => cur \in Row
    /\ pc \notin {"idle", "reconcile", "pick", "link"} => link \in DOMAIN links
    /\ pc = "search" => links[link].attempt = "settled" /\ links[link].issue = 0
    /\ pc = "claim" => NoIssue(link) /\ links[link].issue = 0
    /\ pc = "mark" => (links[link].issue = 0 /\ Making) \/ Lacking
    /\ pc = "create" => links[link].issue = 0 /\ Making
    /\ pc = "linked" => found \in DOMAIN issues /\ issues[found].ref = link
    /\ pc = "record" => links[link].issue # 0
    /\ pc \in {"status", "label", "look"} =>
         links[link].issue # 0 /\ links[link].event[Event] \in {"none", "settled"}
    /\ pc = "comment" => Lacking /\ links[link].event[Event] # "none"
    /\ pc = "posted" => links[link].issue # 0 /\ issues[Issue].comments[Event] > 0
    /\ pc = "sent" => links[link].event[Event] = "posted"

\* A row in hand, or still to take, is of a delivery that is due, and it is its
\* only one; none is tried more often than MaxAttempts.
Rows ==
    /\ \A r \in todo : Pending(r.of) /\ r.of # cur.of /\ r.attempts < MaxAttempts
    /\ \A r, s \in todo : r.of = s.of => r = s
    /\ cur \in Row => Pending(cur.of) /\ cur.attempts < MaxAttempts
    /\ \A d \in Deliveries : /\ delivery[d].attempts <= MaxAttempts
                             /\ delivery[d].state \in {"unqueued", "PENDING"} =>
                                  delivery[d].attempts < MaxAttempts

\* An event's row says posted only of a post that is there.
Told == \A l \in DOMAIN links : \A e \in Events : links[l].event[e] = "posted" =>
    \E i \in DOMAIN issues : issues[i].ref = l /\ PostsOf(i, e) > 0

IInv == TypeOK /\ Filed /\ Keyed /\ OneIssuePerRef /\ AtStep /\ Rows /\ Told /\ SentIsThere
=============================================================================
