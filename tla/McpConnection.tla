----------------------------- MODULE McpConnection -----------------------------
(***************************************************************************)
(* The connection to one MCP server (plugins/mcp-client): the manager's    *)
(* coroutine connects, shakes hands, discovers the tools, waits for a      *)
(* resync signal or the loss of the session, and reconnects; the reader    *)
(* takes what the server wrote, in order, and signals the manager through  *)
(* a channel that holds one token.  A request of the manager that gets no  *)
(* answer ends by its timer alone.                                         *)
(***************************************************************************)
EXTENDS Integers, Sequences

CONSTANTS
    MaxAttempts,   \* reconnect.max_attempts
    Reconnect,     \* reconnect.enabled
    MaxChanges,    \* bound: changes of the server's tools
    MaxSessions    \* bound: sessions opened

VARIABLES
    mgr,           \* run(): where the manager is
    channel,       \* channel_: "none", "open", "closed"
    reading,       \* the reader's coroutine runs
    lost, queued, wake,   \* session_lost_, resync_queued_, a token in wake_
    error,         \* the error of this session's setup
    attempt,
    stopped,       \* stopped_
    told,          \* ready_sent_
    server,        \* the server of the session runs
    asked,         \* the manager's request: "none", "sent", "answered"
    pipe,          \* what the reader has not read: Changed, Late or an answer
    answer,        \* what the manager's response channel holds, or 0
    tools,         \* the server's tools: a generation, which its answers carry
    registered,    \* the generation registered, or 0
    stale,         \* the last discovery failed
    sessions

mcpVars == <<mgr, channel, reading, lost, queued, wake, error, attempt, stopped, told, server, asked, pipe,
             answer, tools, registered, stale, sessions>>
Changed == 0       \* the notification that the list of tools has changed
Late == -1         \* an answer nobody waits for any more, which the reader drops
session == <<reading, lost, queued, wake, server, asked, pipe, answer>>
outcome == <<tools, registered, stale>>

Init ==
    /\ mgr = "connect" /\ channel = "none" /\ reading = FALSE /\ lost = FALSE /\ queued = FALSE
    /\ wake = FALSE /\ error = FALSE /\ attempt = 0 /\ stopped = FALSE /\ told = FALSE
    /\ server = FALSE /\ asked = "none" /\ pipe = <<>> /\ answer = 0
    /\ tools = 1 /\ registered = 0 /\ stale = FALSE /\ sessions = 0

----------------------------------------------------------------------------
(* open_session(), and run() up to the first request.                      *)
Connect ==
    /\ mgr = "connect" /\ ~stopped /\ sessions < MaxSessions /\ sessions' = sessions + 1
    /\ mgr' = "handshake" /\ channel' = "open" /\ reading' = TRUE /\ server' = TRUE
    /\ lost' = FALSE /\ queued' = FALSE /\ wake' = FALSE /\ error' = FALSE
    /\ asked' = "sent" /\ pipe' = <<>> /\ answer' = 0
    /\ UNCHANGED <<attempt, stopped, told, outcome>>

(* The run is over: what follows the loop.                                 *)
Over ==
    /\ mgr' = "over" /\ stopped' = TRUE /\ channel' = "none"

(* No session: the launch failed, or the connection was stopped before it. *)
NoSession ==
    /\ mgr = "connect" /\ told' = TRUE
    /\ \/ (stopped \/ ~Reconnect) /\ Over /\ UNCHANGED attempt
       \/ /\ ~stopped /\ Reconnect /\ attempt' = attempt + 1
          /\ IF attempt + 1 >= MaxAttempts THEN Over ELSE mgr' = "delay" /\ UNCHANGED <<stopped, channel>>
    /\ UNCHANGED <<session, error, outcome, sessions>>

(* A request of the manager: refused once the connection is stopped.       *)
Asks(place) == mgr' = place /\ asked' = "sent" /\ answer' = 0
Forget ==
    /\ asked' = "none" /\ answer' = 0
    /\ pipe' = [i \in DOMAIN pipe |-> IF pipe[i] = Changed THEN Changed ELSE Late]

(* The setup ends: ready() is told, and the manager waits for a signal.    *)
SetUp(failure) ==
    /\ mgr' = "waiting" /\ error' = failure /\ told' = TRUE /\ Forget

(* handshake() resumes, with an answer it may refuse, or by its timer.     *)
Shaken ==
    /\ mgr = "handshake"
    /\ \/ /\ answer # 0 /\ ~stopped /\ Asks("discover") /\ UNCHANGED <<error, told, pipe>>
       \/ SetUp(TRUE)
    /\ UNCHANGED <<channel, reading, lost, queued, wake, attempt, stopped, server, outcome, sessions>>

(* discover() resumes; apply_tools() releases the tools it had before it   *)
(* registers the new ones, and a conflict leaves none.                     *)
Applied(done) ==
    \/ done /\ registered' = answer /\ stale' = FALSE
    \/ ~done /\ stale' = TRUE /\ registered' \in {registered} \cup (IF answer # 0 THEN {0} ELSE {})
Discovered ==
    /\ mgr = "discover"
    /\ \E done \in {FALSE, answer # 0} : Applied(done) /\ SetUp(~done)
    /\ UNCHANGED <<channel, reading, lost, queued, wake, attempt, stopped, server, tools, sessions>>

(* The manager takes the token: a resync, unless the session is over.      *)
Resync ==
    /\ mgr = "waiting" /\ wake /\ ~stopped /\ ~lost /\ wake' = FALSE /\ queued' = FALSE
    /\ IF queued THEN Asks("resync") ELSE UNCHANGED <<mgr, asked, answer>>
    /\ UNCHANGED <<channel, reading, lost, error, attempt, stopped, told, server, pipe, outcome, sessions>>

(* Mutant of Resynced: the signal is taken back when the discovery is over.*)
ResyncedQuietly ==
    /\ mgr = "resync" /\ mgr' = "waiting" /\ Forget /\ queued' = FALSE
    /\ \E done \in {FALSE, answer # 0} : Applied(done)
    /\ UNCHANGED <<channel, reading, lost, wake, error, attempt, stopped, told, server, tools, sessions>>

(* The discovery of a resync resumes; a failed one keeps what it may.      *)
Resynced ==
    /\ mgr = "resync" /\ mgr' = "waiting" /\ Forget
    /\ \E done \in {FALSE, answer # 0} : Applied(done)
    /\ UNCHANGED <<channel, reading, lost, queued, wake, error, attempt, stopped, told, server, tools, sessions>>

(* The session is lost, or the connection stopped.                         *)
Loss ==
    /\ mgr = "waiting" /\ wake /\ (stopped \/ lost) /\ wake' = FALSE
    /\ IF stopped \/ ~Reconnect THEN Over /\ UNCHANGED attempt
       ELSE /\ attempt' = IF error THEN attempt + 1 ELSE 1
            /\ IF error /\ attempt + 1 >= MaxAttempts THEN Over
               ELSE mgr' = "delay" /\ channel' = "closed" /\ UNCHANGED stopped
    /\ server' = FALSE
    /\ UNCHANGED <<reading, lost, queued, asked, pipe, answer, error, told, outcome, sessions>>
Delayed ==
    /\ mgr = "delay" /\ mgr' = "connect"
    /\ UNCHANGED <<channel, session, error, attempt, stopped, told, outcome, sessions>>

(* stop(): the transport is closed, and its server ended.                  *)
Stop ==
    /\ ~stopped /\ stopped' = TRUE /\ channel' = (IF channel = "open" THEN "closed" ELSE channel)
    /\ server' = FALSE
    /\ UNCHANGED <<mgr, reading, lost, queued, wake, error, attempt, told, asked, pipe, answer, outcome, sessions>>

----------------------------------------------------------------------------
(* reader(): a frame; the end of the stream, or of the connection.         *)
Read ==
    /\ reading /\ ~stopped /\ pipe # <<>> /\ pipe' = Tail(pipe)
    /\ IF Head(pipe) = Changed THEN queued' = TRUE /\ wake' = TRUE /\ UNCHANGED answer
       ELSE answer' = (IF Head(pipe) = Late THEN answer ELSE Head(pipe)) /\ UNCHANGED <<queued, wake>>
    /\ UNCHANGED <<mgr, channel, reading, lost, error, attempt, stopped, told, server, asked, outcome, sessions>>

(* Mutant of ReadEnds: a reader that is stopped gives no signal.           *)
ReadEndsQuietly ==
    /\ reading
    /\ stopped \/ channel = "closed" \/ (pipe = <<>> /\ ~server)
    /\ reading' = FALSE /\ lost' = TRUE /\ wake' = (wake \/ ~stopped)
    /\ UNCHANGED <<mgr, channel, queued, error, attempt, stopped, told, server, asked, pipe, answer, outcome, sessions>>

ReadEnds ==
    /\ reading
    /\ stopped \/ channel = "closed" \/ (pipe = <<>> /\ ~server)
    /\ reading' = FALSE /\ lost' = TRUE /\ wake' = TRUE
    /\ UNCHANGED <<mgr, channel, queued, error, attempt, stopped, told, server, asked, pipe, answer, outcome, sessions>>

(* The server: it answers, changes its tools, or ends.                     *)
ServerAnswers ==
    /\ server /\ asked = "sent" /\ asked' = "answered" /\ pipe' = Append(pipe, tools)
    /\ UNCHANGED <<mgr, channel, reading, lost, queued, wake, error, attempt, stopped, told, server, answer, outcome, sessions>>
ServerChanges ==
    /\ server /\ tools <= MaxChanges /\ tools' = tools + 1 /\ pipe' = Append(pipe, Changed)
    /\ UNCHANGED <<mgr, channel, reading, lost, queued, wake, error, attempt, stopped, told, server, asked, answer,
                   registered, stale, sessions>>
ServerEnds ==
    /\ server /\ server' = FALSE
    /\ UNCHANGED <<mgr, channel, reading, lost, queued, wake, error, attempt, stopped, told, asked, pipe, answer, outcome, sessions>>

Manages == Connect \/ NoSession \/ Shaken \/ Discovered \/ Resync \/ Resynced \/ Loss \/ Delayed
Next == Manages \/ Stop \/ Read \/ ReadEnds \/ ServerAnswers \/ ServerChanges \/ ServerEnds

----------------------------------------------------------------------------
(* When the manager waits with no signal and no notification to come, what *)
(* is registered is what the server has, unless the last discovery failed: *)
(* no change is lost to one that was under way.  (run, reader.)            *)
Told == \E i \in DOMAIN pipe : pipe[i] = Changed
ToolsFresh == (mgr = "waiting" /\ ~wake /\ server /\ ~Told /\ ~stale /\ ~error) => registered = tools

(* A stopped connection comes to its end, wherever the manager was.        *)
(* (stop, run, reader.)                                                    *)
StopEnds == stopped ~> (mgr = "over" /\ ~reading)
===============================================================================
