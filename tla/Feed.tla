-------------------------------- MODULE Feed --------------------------------
(***************************************************************************)
(* What the terminal shows: the session and conversation commands change   *)
(* the current session, a model's answer streams into a buffer, and two    *)
(* loops fold the current session into the engine's state and publish it   *)
(* as a snapshot, the command loop after every command and the refresh     *)
(* loop when something it watches has changed                              *)
(* (apps/araya/src/tui_state.cpp, commands_session.cpp, commands_llm.cpp). *)
(***************************************************************************)
EXTENDS Naturals, Sequences, FiniteSets, TLC, FiniteSetsExt

CONSTANTS
    Ids,      \* session ids
    Models,   \* routes: provider and model with its prices
    None,
    MaxLog,   \* bound: events of a session
    MaxWork   \* bound: commands, deltas and events

VARIABLES
    logs,     \* the store: [live ids -> Seq of kinds]
    stored,   \* the files: [ids -> Seq of kinds]
    current,  \* app_context::current
    route,    \* the first provider's default model
    engine,   \* engine_state: [rows, title, meter, folded, size, route, fibers, dirty]
    shown,    \* the snapshot the screen draws
    doing,    \* the command that is waiting: "none", "chat" or "ask"
    stream,   \* deltas in the stream buffer
    looking,  \* the refresh loop has the fibers and waits for the strand
    work
vars == <<logs, stored, current, route, engine, shown, doing, stream, looking, work>>

-----------------------------------------------------------------------------
(* session_surface::messages(): the seqs of the messages that stand.       *)
Rows(log) ==
    LET cut == Max({0} \cup {i \in DOMAIN log : log[i] = "replace"})
    IN  [k \in 1..(Len(log) - Max({cut, 1}) + 1) |-> Max({cut, 1}) + k - 1]
Title(log, id) ==
    LET users == {i \in {Rows(log)[k] : k \in DOMAIN Rows(log)} : log[i] # "assistant"}
    IN  IF users = {} THEN <<id, 0>> ELSE <<id, Min(users)>>
Used(log) == Cardinality({i \in DOMAIN log : log[i] = "assistant"})

(* fold_messages(), refresh_route(): the engine's state for a session.     *)
Routed(e, rt) == IF e.route = rt THEN e ELSE [e EXCEPT !.route = rt, !.dirty = TRUE]
BlankKeepsKey(e, title) ==
    LET stale == e.rows # << >> \/ e.title # title
    IN  [e EXCEPT !.rows = << >>, !.title = title, !.dirty = @ \/ stale]
Blank(e, title) ==
    LET stale == e.rows # << >> \/ e.title # title
    IN  [e EXCEPT !.rows = << >>, !.title = title, !.folded = None, !.size = 0, !.dirty = @ \/ stale]
Folded(e, ls, cur, rt) ==
    LET r == Routed(e, rt)
    IN  IF cur = None \/ cur \notin DOMAIN ls THEN Blank(r, <<cur, 0>>)
        ELSE IF r.folded = cur /\ r.size = Len(ls[cur]) THEN r
        ELSE [r EXCEPT !.rows = Rows(ls[cur]), !.title = Title(ls[cur], cur), !.meter = <<Used(ls[cur]), rt>>,
                       !.folded = cur, !.size = Len(ls[cur]), !.dirty = TRUE]
(* publish_snapshot().                                                     *)
Snapshot(e, cur) == [rows |-> e.rows, title |-> e.title, meter |-> e.meter, route |-> e.route, session |-> cur, fibers |-> e.fibers]
Publish(e) == engine' = [e EXCEPT !.dirty = FALSE] /\ shown' = Snapshot(e, current')

Works == work < MaxWork /\ work' = work + 1
Idle == doing = "none"
(* command_loop(): the command, then the fold and the snapshot; the buffer *)
(* is closed in between.                                                   *)
Settles ==
    /\ doing' = "none" /\ stream' = 0
    /\ Publish(Folded(engine, logs', current', route'))

Init ==
    /\ logs = << >> /\ stored = << >> /\ current = None /\ route \in Models \cup {None}
    /\ engine = [rows |-> << >>, title |-> <<None, 0>>, meter |-> <<0, None>>, folded |-> None, size |-> 0,
                 route |-> route, fibers |-> route, dirty |-> FALSE]
    /\ shown = Snapshot(engine, None) /\ doing = "none" /\ stream = 0 /\ looking = FALSE /\ work = 0

-----------------------------------------------------------------------------
(* /session                                                                *)
Put(id, log) == logs' = (id :> log) @@ logs
Live == current # None /\ current \in DOMAIN logs
New(id) ==
    /\ Idle /\ Works
    /\ IF id \in DOMAIN logs THEN UNCHANGED <<logs, current>> ELSE Put(id, << >>) /\ current' = id
    /\ UNCHANGED <<stored, route, looking>> /\ Settles
Switch(id) ==
    /\ Idle /\ Works /\ current' = IF id \in DOMAIN logs THEN id ELSE current
    /\ UNCHANGED <<logs, stored, route, looking>> /\ Settles
Say(kind) ==
    /\ Idle /\ Works
    /\ IF Live THEN Len(logs[current]) < MaxLog /\ Put(current, logs[current] \o <<kind>>) /\ UNCHANGED current
       ELSE current' = None /\ UNCHANGED logs
    /\ UNCHANGED <<stored, route, looking>> /\ Settles
Fork(parent, child) ==
    /\ Idle /\ Works
    /\ IF parent \in DOMAIN logs /\ child \notin DOMAIN logs
       THEN Put(child, logs[parent]) /\ current' = child ELSE UNCHANGED <<logs, current>>
    /\ UNCHANGED <<stored, route, looking>> /\ Settles
Save ==
    /\ Idle /\ Works
    /\ IF Live THEN stored' = (current :> logs[current]) @@ stored /\ UNCHANGED current
       ELSE current' = None /\ UNCHANGED stored
    /\ UNCHANGED <<logs, route, looking>> /\ Settles
(* load keeps the current session if there is one, restore leaves it.      *)
Load(id, restores) ==
    /\ Idle /\ Works
    /\ logs' = IF id \in DOMAIN logs \/ id \notin DOMAIN stored THEN logs ELSE (id :> stored[id]) @@ logs
    /\ current' = IF id \in DOMAIN logs' /\ (restores \/ (current = None /\ id \notin DOMAIN logs)) THEN id ELSE current
    /\ UNCHANGED <<stored, route, looking>> /\ Settles
Close(id) ==
    /\ Idle /\ Works /\ id \in DOMAIN logs
    /\ logs' = [i \in DOMAIN logs \ {id} |-> logs[i]] /\ current' = IF current = id THEN None ELSE current
    /\ UNCHANGED <<stored, route, looking>> /\ Settles

(* /reload session: a new store; /load and /unload of an adapter.          *)
Remount ==
    /\ Idle /\ Works /\ logs' = << >> /\ UNCHANGED <<stored, current, route, looking>> /\ Settles
Adapter(rt) ==
    /\ Idle /\ Works /\ rt # route /\ route' = rt /\ UNCHANGED <<logs, stored, current, looking>> /\ Settles

(* /chat and /ask, into a session of their own if there is none: the       *)
(* user's turn (ask leaves it to the agent), deltas, the answer.  /say is  *)
(* the first of these alone.                                               *)
Ensured(id) == IF Live THEN id = current ELSE id \notin DOMAIN logs
Begin(kind, id) ==
    LET log == (IF Live THEN logs[id] ELSE << >>) \o IF kind = "ask" THEN << >> ELSE <<"user">>
    IN  /\ Idle /\ Works /\ Ensured(id) /\ current' = id /\ Len(log) <= MaxLog /\ Put(id, log)
        /\ stored' = IF kind = "ask" THEN stored ELSE (id :> log) @@ stored
        /\ UNCHANGED <<route, looking>>
        /\ IF kind = "say" \/ route = None THEN Settles ELSE doing' = kind /\ UNCHANGED <<engine, shown, stream>>
Delta ==
    /\ ~Idle /\ Works /\ stream' = stream + 1
    /\ UNCHANGED <<logs, stored, current, route, engine, shown, doing, looking>>
Adds(id, kinds) == Len(logs[id]) < MaxLog /\ \E kind \in kinds : Put(id, logs[id] \o <<kind>>)
Answer ==
    /\ doing = "ask" /\ Works /\ Adds(current, {"user", "assistant"})
    /\ UNCHANGED <<stored, current, route, engine, shown, doing, stream, looking>>
End ==
    /\ ~Idle /\ Works /\ UNCHANGED <<current, route, looking>>
    /\ \/ doing = "ask" /\ UNCHANGED logs /\ stored' = (current :> logs[current]) @@ stored
       \/ doing = "chat" /\ stream = 0 /\ UNCHANGED <<logs, stored>>
       \/ doing = "chat" /\ stream > 0 /\ Adds(current, {"assistant"}) /\ stored' = (current :> logs'[current]) @@ stored
    /\ Settles
(* A drive nobody asked for, of a goal or of a subagent.                   *)
Drives(id) ==
    /\ Works /\ id \in DOMAIN logs /\ Adds(id, {"user", "assistant"})
    /\ UNCHANGED <<stored, current, route, engine, shown, doing, stream, looking>>

(* refresh_loop(): the fibers, then the fold on the strand.                *)
Look ==
    /\ ~looking /\ looking' = TRUE
    /\ engine' = [engine EXCEPT !.fibers = route, !.dirty = @ \/ engine.fibers # route]
    /\ UNCHANGED <<logs, stored, current, route, shown, doing, stream, work>>
Refresh ==
    /\ looking /\ looking' = FALSE /\ UNCHANGED <<logs, stored, current, route, doing, stream, work>>
    /\ LET e == Folded(engine, logs, current, route)
       IN  IF e.dirty THEN Publish(e) ELSE engine' = e /\ UNCHANGED shown

Next ==
    \/ \E id \in Ids : \/ New(id) \/ Switch(id) \/ Close(id) \/ Drives(id)
                       \/ \E restores \in BOOLEAN : Load(id, restores)
                       \/ \E child \in Ids : Fork(id, child)
                       \/ \E kind \in {"chat", "ask", "say"} : Begin(kind, id)
    \/ \E kind \in {"user", "replace"} : Say(kind)
    \/ \E rt \in Models \cup {None} : Adapter(rt)
    \/ Save \/ Remount \/ Delta \/ Answer \/ End \/ Look \/ Refresh
Spec == Init /\ [][Next]_vars

-----------------------------------------------------------------------------
(***************************************************************************)
(* Whatever the folds skip and the publications leave out, the screen is   *)
(* the current session as it is after every command and every refresh:     *)
(* its name, its rows, its title, the route in use, and while the session  *)
(* is live and no adapter came or went, its use of tokens; and no delta is *)
(* left in the buffer once its command is over (fold_messages,             *)
(* publish_snapshot, command_loop, refresh_loop).                          *)
(***************************************************************************)
Current ==
    LET log == logs'[current']
        there == current' \in DOMAIN logs'
    IN  /\ shown'.session = current' /\ shown'.route = route'
        /\ shown'.rows = IF there THEN Rows(log) ELSE << >>
        /\ shown'.title = IF there THEN Title(log, current') ELSE <<current', 0>>
        /\ there => shown'.meter[1] = Used(log)
Over == work' # work /\ doing' = "none" /\ ~\E id \in Ids : Drives(id)
Shows == Refresh \/ Over => Current /\ (Over => stream' = 0)
=============================================================================
