------------------------------- MODULE LlmStream -------------------------------
(***************************************************************************)
(* One model call of the agent loop: the provider's events as they arrive  *)
(* over HTTP (http.cpp, sse.hpp), translated to chunks under either wire   *)
(* protocol (translate.cpp, messages.cpp), handed one by one to the loop's *)
(* sink, folded there and committed to the session (agent.cpp, run_step).  *)
(***************************************************************************)
EXTENDS Naturals, SequencesExt

CONSTANTS
    Wires,        \* the names the wire gives its blocks
    Reasons,      \* stop reasons of a provider: "stop", "tool_calls", "filtered"
    MaxEvents,    \* bound: events of one call's stream
    MaxAttempts   \* bound: streams of one step

VARIABLES
    protocol,     \* "chat" or "messages"
    at,           \* "idle", "connecting", "reading", "sinking", "failed", "ended", "retry", "over"
    told,         \* the events the provider has sent in this attempt
    t,            \* the translator: [order, reason, done, started]
    pending,      \* chunks translated and not yet in the sink
    over,         \* the response's body has been read to its end
    failure,      \* why the attempt failed: "none" or a code
    sunk,         \* the chunks the sink has been given in this attempt
    acc,          \* what it makes of them: [closed, open, why, failed]
    stop,         \* the caller's stop token has fired
    attempts,
    outcome       \* the step's end: [status, blocks]

vars == <<protocol, at, told, t, pending, over, failure, sunk, acc, stop, attempts, outcome>>

Translator == [order |-> << >>, reason |-> "none", done |-> FALSE, started |-> FALSE]
Empty == [closed |-> << >>, open |-> << >>, why |-> "stop", failed |-> FALSE]
Going == [status |-> "none", blocks |-> << >>]

wire == <<told, t>>
sinks == <<sunk, acc>>
frame == <<protocol, attempts, outcome>>

Init ==
    /\ protocol \in {"chat", "messages"} /\ at = "idle" /\ told = << >> /\ t = Translator /\ pending = << >>
    /\ over = FALSE /\ failure = "none" /\ sunk = << >> /\ acc = Empty /\ stop = FALSE /\ attempts = 0
    /\ outcome = Going

----------------------------------------------------------------------------
(* What a provider may send, in any order: a translator trusts none of it. *)
Event(kind, w, r) == [kind |-> kind, wire |-> w, why |-> r]
Blocks(kinds) == {Event(k, w, "none") : k \in kinds, w \in Wires}
Plain(kinds) == {Event(k, 0, "none") : k \in kinds}
Settles == {Event("settle", 0, r) : r \in Reasons}
Events == Settles \cup Plain({"end", "garbage"}) \cup
    IF protocol = "chat" THEN Blocks({"piece"}) ELSE Plain({"begin"}) \cup Blocks({"open", "piece", "close"})

Start(i) == [c |-> "start", i |-> i, n |-> 0, why |-> "none"]
Delta(i) == [c |-> "delta", i |-> i, n |-> 1, why |-> "none"]
End(i, n) == [c |-> "end", i |-> i, n |-> n, why |-> "none"]
Finish(why) == [c |-> "finish", i |-> 0, n |-> 0, why |-> why]

Block(w) == [wire |-> w, n |-> 0, closed |-> FALSE]
Known(w) == {i \in DOMAIN t.order : t.order[i].wire = w}
Malformed == [ok |-> FALSE, t |-> t, chunks |-> << >>]
Gives(new, chunks) == [ok |-> TRUE, t |-> new, chunks |-> chunks]
(* A stop with nothing said is an empty response; a reason nobody knows is *)
(* an error as well.                                                       *)
Finished == IF t.reason = "filtered" \/ (t.reason \in {"stop", "none"} /\ t.order = << >>)
            THEN Finish("error") ELSE Finish(IF t.reason = "none" THEN "stop" ELSE t.reason)

(* chunk_translator: a piece opens its block; all of them end at [DONE].   *)
FeedChat(e) ==
    CASE t.done \/ e.kind = "garbage" -> Malformed
      [] ~t.done /\ e.kind = "piece" ->
            LET new == Known(e.wire) = {}
                order == IF new THEN Append(t.order, Block(e.wire)) ELSE t.order
                i == CHOOSE j \in DOMAIN order : order[j].wire = e.wire
            IN  Gives([t EXCEPT !.order = [order EXCEPT ![i].n = @ + 1]],
                      (IF new THEN <<Start(i)>> ELSE << >>) \o <<Delta(i)>>)
      [] ~t.done /\ e.kind = "settle" -> Gives([t EXCEPT !.reason = e.why], << >>)
      [] ~t.done /\ e.kind = "end" ->
            Gives([t EXCEPT !.done = TRUE], [i \in DOMAIN t.order |-> End(i, t.order[i].n)] \o <<Finished>>)


Live(i) == i # 0 /\ ~t.order[i].closed

(* messages_translator: blocks are opened and closed by the provider, and  *)
(* every one is closed and a reason given before the end.                  *)
FeedMessages(e) ==
    LET i == IF Known(e.wire) = {} THEN 0 ELSE CHOOSE j \in Known(e.wire) : TRUE
        settled == t.reason # "none" /\ \A j \in DOMAIN t.order : t.order[j].closed
    IN  CASE t.done -> Malformed
          [] ~t.done /\ e.kind = "begin" /\ ~t.started -> Gives([t EXCEPT !.started = TRUE], << >>)
          [] ~t.done /\ e.kind = "open" /\ t.started /\ i = 0 /\ t.reason = "none" ->
                Gives([t EXCEPT !.order = Append(@, Block(e.wire))], <<Start(Len(t.order) + 1)>>)
          [] ~t.done /\ e.kind = "piece" /\ Live(i) -> Gives([t EXCEPT !.order[i].n = @ + 1], <<Delta(i)>>)
          [] ~t.done /\ e.kind = "close" /\ Live(i) ->
                Gives([t EXCEPT !.order[i].closed = TRUE], <<End(i, t.order[i].n)>>)
          [] ~t.done /\ e.kind = "settle" -> Gives([t EXCEPT !.reason = e.why], << >>)
          [] ~t.done /\ e.kind = "end" /\ settled -> Gives([t EXCEPT !.done = TRUE], <<Finished>>)
          [] OTHER -> Malformed

Feed(e) == IF protocol = "chat" THEN FeedChat(e) ELSE FeedMessages(e)

----------------------------------------------------------------------------
(* step_accumulator::push(): by a finish the call's end is judged.         *)
Pushed(c) ==
    CASE c.c = "start" -> [acc EXCEPT !.open = @ @@ (c.i :> 0)]
      [] c.c = "delta" -> [acc EXCEPT !.open[c.i] = @ + 1]
      [] c.c = "end" -> [acc EXCEPT !.open = Restrict(@, DOMAIN @ \ {c.i}), !.closed = Append(@, <<c.i, c.n>>)]
      [] c.c = "finish" -> [acc EXCEPT !.why = c.why, !.failed = c.why \in {"error", "aborted"}]

(* Mutant of Cleared: a retry goes on from what the failed attempt left.   *)
ClearedLate == [acc EXCEPT !.why = "stop", !.failed = FALSE]

Cleared == Empty
Call ==
    /\ at \in {"idle", "retry"} /\ attempts < MaxAttempts /\ attempts' = attempts + 1
    /\ at' = "connecting" /\ told' = << >> /\ t' = Translator /\ pending' = << >> /\ over' = FALSE
    /\ failure' = "none" /\ sunk' = << >> /\ acc' = Cleared
    /\ UNCHANGED <<protocol, stop, outcome>>

(* An error leaves on_body() before what was translated reaches the sink.  *)
Fails(code) == failure' = code /\ at' = "failed" /\ pending' = << >> /\ UNCHANGED <<over, sinks, frame>>

(* The connection is made, refused, or answered with an error status.  A   *)
(* stop before the exchange begins closes the socket it then writes to.    *)
Connect == at = "connecting" /\ ~stop /\ at' = "reading" /\ UNCHANGED <<wire, pending, over, failure, sinks, stop, frame>>
Refuse ==
    /\ at = "connecting" /\ Fails(IF stop THEN "transport" ELSE "refused")
    /\ UNCHANGED <<wire, stop>>

(* A read brings one event, and perhaps the end of the body.               *)
Read(e, last) ==
    /\ at = "reading" /\ ~over /\ Len(told) < MaxEvents
    /\ told' = Append(told, e) /\ t' = Feed(e).t
    /\ IF Feed(e).ok
       THEN pending' = Feed(e).chunks /\ over' = last /\ at' = "sinking" /\ UNCHANGED <<failure, sinks, frame>>
       ELSE Fails("malformed")
    /\ UNCHANGED stop

(* Two events in one read: when the second is malformed, the chunks of the *)
(* first are lost with it.                                                 *)
ReadTorn(e) ==
    /\ at = "reading" /\ ~over /\ Len(told) < MaxEvents - 1 /\ Feed(e).ok
    /\ told' = told \o <<e, Event("garbage", 0, "none")>> /\ t' = Feed(e).t
    /\ Fails("malformed") /\ UNCHANGED stop

(* The sink may suspend: a stop then closes the socket between two reads,  *)
(* and the next read fails on a closed socket, not as a cancelled one.     *)
Sink ==
    /\ at = "sinking" /\ pending # << >>
    /\ acc' = Pushed(Head(pending)) /\ sunk' = Append(sunk, Head(pending)) /\ pending' = Tail(pending)
    /\ UNCHANGED <<wire, at, over, failure, stop, frame>>
Resume ==
    /\ at = "sinking" /\ pending = << >> /\ UNCHANGED <<wire, stop>>
    /\ IF stop /\ ~over THEN Fails("transport")
                        ELSE at' = "reading" /\ UNCHANGED <<pending, over, failure, sinks, frame>>

(* The body ends, where it should or earlier; or the connection breaks, or *)
(* a read waits too long.                                                  *)
Close ==
    /\ at = "reading" /\ UNCHANGED <<wire, stop>>
    /\ IF t.done THEN at' = "ended" /\ UNCHANGED <<pending, over, failure, sinks, frame>>
                 ELSE Fails("stream_closed")
Break == at = "reading" /\ ~over /\ Fails("transport") /\ UNCHANGED <<wire, stop>>

(* cancel(): a read under way is aborted.                                  *)
Stop ==
    /\ at \notin {"idle", "over"} /\ ~stop /\ stop' = TRUE /\ UNCHANGED wire
    /\ IF at = "reading" /\ ~over THEN Fails("aborted")
                                  ELSE UNCHANGED <<at, pending, over, failure, sinks, frame>>

(* stream(): a failure is the last chunk, never an exception.              *)
Terminal ==
    /\ at = "failed" /\ at' = "ended"
    /\ LET last == Finish(IF failure = "aborted" THEN "aborted" ELSE "error")
       IN  acc' = Pushed(last) /\ sunk' = Append(sunk, last)
    /\ UNCHANGED <<wire, pending, over, failure, stop, frame>>

(* run_step(): a failure not caused by a stop may be retried by whoever    *)
(* listens; else commit_model_outcome().                                   *)
Retryable == acc.why = "error" /\ acc.failed /\ ~stop
Retry ==
    /\ at = "ended" /\ Retryable /\ attempts < MaxAttempts /\ at' = "retry"
    /\ UNCHANGED <<wire, pending, over, failure, sinks, stop, frame>>

Delivered ==
    LET left == SetToSortSeq(DOMAIN acc.open, <)
    IN  acc.closed \o [k \in DOMAIN left |-> <<left[k], acc.open[left[k]]>>]
Commit ==
    /\ at = "ended" /\ at' = "over"
    /\ outcome' = CASE acc.why = "aborted" -> [status |-> "aborted", blocks |-> Delivered]
                    [] acc.why = "error" -> [status |-> "error", blocks |-> << >>]
                    [] OTHER -> [status |-> acc.why, blocks |-> acc.closed]
    /\ UNCHANGED <<wire, pending, over, failure, sinks, stop, protocol, attempts>>

Next ==
    \/ Call \/ Connect \/ Refuse \/ Sink \/ Resume \/ Close \/ Break \/ Stop \/ Terminal \/ Retry \/ Commit
    \/ \E e \in Events : ReadTorn(e) \/ \E last \in BOOLEAN : Read(e, last)
Spec == Init /\ [][Next]_vars

----------------------------------------------------------------------------
(***************************************************************************)
(* What the sink is given, whatever the provider sends: a block starts     *)
(* once, before its pieces, and ends once, after all of them and with all  *)
(* of them; after a finish comes nothing but the failure of the stream     *)
(* (llm.hpp, "The stream contract").  And what a step commits is what the  *)
(* provider said: all of it, in one piece, if the stream came to its end,  *)
(* with every block it opened; nothing of a failed attempt; of an aborted  *)
(* one everything that was delivered and no more (commit_model_outcome,    *)
(* step_accumulator).                                                      *)
(***************************************************************************)
Before(k, kind) == {j \in 1..(k - 1) : sunk[j].c = kind /\ sunk[j].i = sunk[k].i}
WellFormed ==
    \A k \in DOMAIN sunk :
        /\ sunk[k].c = "start" => Before(k, "start") = {}
        /\ sunk[k].c \in {"delta", "end"} => Before(k, "start") # {} /\ Before(k, "end") = {}
        /\ sunk[k].c = "end" => sunk[k].n = Cardinality(Before(k, "delta"))
        /\ Before(k, "finish") # {} => sunk[k].c = "finish" /\ failure # "none" /\ k = Len(sunk)

Opened == FoldLeft(LAMBDA s, e : IF e.kind \in {"open", "piece"} /\ ~Contains(s, e.wire) THEN Append(s, e.wire) ELSE s,
                   << >>, told)
Pieces(w) == Len(SelectSeq(told, LAMBDA e : e.kind = "piece" /\ e.wire = w))
Deltas(i) == Len(SelectSeq(sunk, LAMBDA c : c.c = "delta" /\ c.i = i))
Of(b, size(_)) == \A k \in DOMAIN b : b[k][2] = size(b[k][1])
Indexes(b) == {b[k][1] : k \in DOMAIN b}
Once(b) == Cardinality(Indexes(b)) = Len(b)

Faithful ==
    WellFormed /\ (at = "over" =>
      LET b == outcome.blocks IN
        /\ Once(b)
        /\ outcome.status \in Reasons =>
              /\ Last(told).kind = "end" /\ Indexes(b) = DOMAIN Opened
              /\ Of(b, LAMBDA i : Pieces(Opened[i]))
        /\ outcome.status = "aborted" =>
              stop /\ Of(b, Deltas) /\ \A i \in DOMAIN Opened : Deltas(i) > 0 => i \in Indexes(b)
        /\ outcome.status = "error" =>
              b = << >> /\ (failure # "none" \/ t.reason = "filtered" \/ Opened = << >>))
===============================================================================
