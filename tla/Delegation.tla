------------------------------ MODULE Delegation ------------------------------
(***************************************************************************)
(* Continuable subagents (subagents.cpp): sessions that a session starts   *)
(* and talks to, each driven by the agent loop, and the notices by which a *)
(* parent hears that a child's drive has ended.                            *)
(*                                                                         *)
(* The loop is reduced to what delegation sees of it: a drive takes input  *)
(* turn by turn until there is none, or ends at once when it is stopped or *)
(* fails, its input left for whoever wakes the session next.  Messages     *)
(* that wait are a set: "said" for a message of the parent, a child for    *)
(* its notice.                                                             *)
(***************************************************************************)
EXTENDS Naturals

CONSTANTS
    Root,           \* the user's session
    Kids,           \* the sessions that may be started
    MaxDepth,       \* max_depth
    MaxCalls        \* bound: prompts, messages, cancellations, interruptions

Sessions == {Root} \cup Kids

VARIABLES
    open,           \* the sessions in the store
    children,       \* children_
    parent, depth,  \* of each child
    driving,        \* the sessions with a drive
    stopped,        \* those whose drive has been asked to stop
    bridged,        \* those whose drive is stopped with the child's parent_stop
    tied,           \* the children whose parent_stop is that of a drive still going on
    fired,          \* the children whose parent_stop has fired
    inbox,          \* what waits for each session
    posted,         \* the children whose end is on its way to deliver_settlement
    owed,           \* history: children whose end the parent has not read about
    left,           \* history: sessions whose last drive left input unread
    calls           \* the bound's counter

tree == <<open, children, parent, depth>>
stops == <<stopped, bridged, tied, fired>>
vars == <<tree, driving, stops, inbox, posted, owed, left, calls>>

Init ==
    /\ open = {Root} /\ children = {} /\ driving = {}
    /\ parent = [k \in Kids |-> Root] /\ depth = [s \in Sessions |-> 0]
    /\ stopped = {} /\ bridged = {} /\ tied = {} /\ fired = {}
    /\ inbox = [s \in Sessions |-> {}] /\ posted = {} /\ owed = {} /\ left = {} /\ calls = 0

Counted == calls < MaxCalls /\ calls' = calls + 1
Given(s, m) == inbox' = [inbox EXCEPT ![s] = @ \cup {m}]
TiedTo(S) == {k \in tied : parent[k] \in S}

(* kick(): a drive starts unless there is one; by a token that has fired   *)
(* it is stopped before it begins.                                         *)
Kick(s, tokens) ==
    IF s \in driving
    THEN UNCHANGED <<driving, stopped, bridged, left>>
    ELSE /\ driving' = driving \cup {s} /\ left' = left \ {s}
         /\ bridged' = IF s \in tokens THEN bridged \cup {s} ELSE bridged
         /\ stopped' = IF s \in tokens \cap fired THEN stopped \cup {s} ELSE stopped

(* The user's message.                                                     *)
Prompt ==
    /\ Root \in open /\ Counted /\ Given(Root, "said") /\ Kick(Root, {})
    /\ UNCHANGED <<tree, tied, fired, posted, owed>>

(* start_continuable(), called by a tool in a turn of s.  Too deep, or a   *)
(* route or composition that is refused, and no child is kept.             *)
Start(s, k) ==
    /\ s \in driving \ stopped /\ k \notin open \cup children /\ Counted
    /\ IF depth[s] + 1 <= MaxDepth
       THEN /\ open' = open \cup {k} /\ children' = children \cup {k}
            /\ parent' = [parent EXCEPT ![k] = s] /\ depth' = [depth EXCEPT ![k] = depth[s] + 1]
            /\ tied' = tied \cup {k} /\ Given(k, "said") /\ Kick(k, {k})
       ELSE UNCHANGED <<tree, driving, stopped, bridged, left, tied, inbox>>
    /\ UNCHANGED <<fired, posted, owed>>

(* send_message(): a steer while the child runs, a followup when not, with *)
(* the token of the drive that started the child.                          *)
Send(k) ==
    /\ k \in children /\ k \in open /\ parent[k] \in driving /\ Counted
    /\ Given(k, "said") /\ Kick(k, {k})
    /\ UNCHANGED <<tree, tied, fired, posted, owed>>

(* A stop reaches the drives that started with a token of it.              *)
Struck(S) == S \cup (TiedTo(S) \cap bridged \cap driving)
Stops(s) ==
    LET struck == Struck(Struck({s}))
    IN  stopped' = stopped \cup struck /\ fired' = fired \cup TiedTo(struck)

(* cancel() by the user, which empties the inbox, and interrupt(), which   *)
(* keeps it.                                                               *)
Cancel(s) ==
    /\ s \in driving /\ Counted /\ Stops(s)
    /\ inbox' = [inbox EXCEPT ![s] = {}] /\ owed' = owed \ inbox[s]
    /\ UNCHANGED <<tree, driving, bridged, tied, posted, left>>
Interrupt(k) ==
    /\ k \in children \cap driving /\ parent[k] \in driving /\ Counted /\ Stops(k)
    /\ UNCHANGED <<tree, driving, bridged, tied, inbox, posted, owed, left>>

(* A turn takes some of what waits.                                        *)
Turn(s) ==
    /\ s \in driving \ stopped
    /\ \E took \in SUBSET inbox[s] \ {{}} :
        /\ inbox' = [inbox EXCEPT ![s] = @ \ took] /\ owed' = owed \ took
    /\ UNCHANGED <<tree, driving, stops, posted, left, calls>>

(* on_drive_done(), the idle event and on_agent_idle().                    *)
End(s) ==
    /\ s \in driving
    /\ driving' = driving \ {s} /\ stopped' = stopped \ {s} /\ bridged' = bridged \ {s}
    /\ tied' = tied \ TiedTo({s})
    /\ posted' = posted \cup ({s} \cap children)
    /\ owed' = (owed \ inbox[s]) \cup ({s} \cap children)
    /\ left' = IF inbox[s] # {} THEN left \cup {s} ELSE left
    /\ UNCHANGED <<tree, fired, inbox, calls>>
Finish(s) == inbox[s] = {} /\ s \notin stopped /\ End(s)
Fail(s) == s \notin stopped /\ End(s)
Abort(s) == s \in stopped /\ End(s)

(* Mutant of Deliver: the notice is always injected.                       *)
DeliverInjects(k) ==
    /\ k \in posted /\ posted' = posted \ {k}
    /\ IF k \in children \cap open /\ parent[k] \in open
       THEN Given(parent[k], k) /\ UNCHANGED <<driving, stopped, bridged, left, owed>>
       ELSE owed' = owed \ {k} /\ UNCHANGED <<driving, stopped, bridged, left, inbox>>
    /\ UNCHANGED <<tree, tied, fired, calls>>

(* deliver_settlement(): injected into a running drive, a followup to an   *)
(* idle parent; nothing if either session is gone.                         *)
Deliver(k) ==
    /\ k \in posted /\ posted' = posted \ {k}
    /\ IF k \in children \cap open /\ parent[k] \in open
       THEN Given(parent[k], k) /\ Kick(parent[k], {}) /\ UNCHANGED owed
       ELSE owed' = owed \ {k} /\ UNCHANGED <<driving, stopped, bridged, left, inbox>>
    /\ UNCHANGED <<tree, tied, fired, calls>>

(* Sessions are closed, by the user or, all children, by dispose_children: *)
(* their drives are stopped.                                               *)
Gone(S) ==
    /\ open' = open \ S /\ stopped' = stopped \cup (S \cap driving)
    /\ inbox' = [s \in Sessions |-> IF s \in S THEN {} ELSE inbox[s] \ (S \cap children)]
    /\ owed' = {k \in owed \ S : parent[k] \notin S}
    /\ fired' = fired \cup TiedTo(S \cap driving)
    /\ UNCHANGED <<parent, depth, driving, bridged, tied, posted, left>>
Close(s) == s \in open /\ Counted /\ Gone({s}) /\ UNCHANGED children
Dispose == children # {} /\ Counted /\ Gone(children) /\ children' = {}

Next ==
    \/ Prompt \/ Dispose
    \/ \E s \in Sessions : Cancel(s) \/ Turn(s) \/ Finish(s) \/ Fail(s) \/ Abort(s) \/ Close(s)
    \/ \E s \in Sessions, k \in Kids : Start(s, k)
    \/ \E k \in Kids : Send(k) \/ Interrupt(k) \/ Deliver(k)

(* The strand runs what is posted, and a drive goes on.                    *)
Fairness ==
    /\ \A s \in Sessions : WF_vars(Turn(s)) /\ WF_vars(Finish(s)) /\ WF_vars(Abort(s))
    /\ \A k \in Kids : WF_vars(Deliver(k))
Spec == Init /\ [][Next]_vars /\ Fairness

(***************************************************************************)
(* Whoever delegates hears of it: the end of a child's drive reaches a     *)
(* turn of its parent, and a message reaches a turn of its child, whether  *)
(* they come while the other runs or wake it; except what a drive that was *)
(* stopped or failed left unread (subagents.cpp:547-577, 652-697).         *)
(***************************************************************************)
Heard ==
    /\ \A k \in Kids : k \in owed ~> k \notin owed
    /\ \A s \in Sessions : inbox[s] # {} ~> (inbox[s] = {} \/ s \in left)
===============================================================================
