-------------------------------- MODULE LspPool --------------------------------
(***************************************************************************)
(* A language server's pool (plugins/lsp-stdio), for one workspace: the    *)
(* provider and its instances (provider.cpp, instance.cpp), and of the     *)
(* connection what decides whether a query returns (connection.cpp).       *)
(*                                                                         *)
(* A query holds its instance's lock from start to end; what it waits for  *)
(* ends in a later step, where the code looks at disposed_ and failed_     *)
(* again.  The provider outlives its queries here.                         *)
(***************************************************************************)
EXTENDS Integers, Sequences, FiniteSets

CONSTANTS
    Queries,    \* calls of lsp_provider::query
    MayClose    \* whether the plugin may be unloaded while they run

VARIABLES
    closed,            \* stdio_lsp_provider::disposed_
    pool,              \* instances_ at the workspace: an instance, or 0
    made,              \* instances made so far
    ready,             \* per instance: "no", "ok" or "failed" (ready_done_, ready_error_)
    disposed, failed,  \* instances closed, connections failed
    server,            \* "none", "absent" (no launch), "up", "exiting" (asked to), "gone"
    behind,            \* connections writing an answer to the server, before what is queued
    locked, waiters,   \* lsp_instance::locked_, waiters_
    at, on,            \* where each query is, the instance it uses
    retried,           \* those on their second instance
    bad                \* those that carry an error through the last notification

instances == <<pool, made, ready, disposed, failed, server, behind, locked, waiters>>
queries == <<at, on, retried, bad>>
lspVars == <<closed, instances, queries>>

Ids == 1..(Cardinality(Queries) + 1)   \* every query makes at most one, but for the first

Init ==
    /\ closed = FALSE /\ pool = 0 /\ made = 0 /\ ready = [i \in Ids |-> "no"]
    /\ disposed = {} /\ failed = {} /\ server = [i \in Ids |-> "none"] /\ behind = {}
    /\ locked = {} /\ waiters = [i \in Ids |-> <<>>]
    /\ at = [q \in Queries |-> "out"] /\ on = [q \in Queries |-> 0] /\ retried = {} /\ bad = {}

----------------------------------------------------------------------------
(* Who is woken when an instance is unlocked, or closed.                   *)
(* Mutant: close() relies on the holder's unlock.                          *)
WokenByHolder(i, holds, closes) == IF holds /\ waiters[i] # <<>> THEN {Head(waiters[i])} ELSE {}
Woken(i, holds, closes) ==
    {waiters[i][n] : n \in IF closes THEN DOMAIN waiters[i] ELSE IF holds THEN DOMAIN waiters[i] \cap {1} ELSE {}}

(* The query leaves an instance, whose lock it may hold and which it may   *)
(* close (close(): all who wait for the lock are woken).  An error on a    *)
(* dead instance is retried, once, on a fresh one: the old one is closed,  *)
(* and whatever is pooled is erased.                                       *)
Leaves(q, i, holds, shuts, error) ==
    LET again == error /\ q \notin retried /\ (shuts \/ i \in disposed \cup failed')
        closes == shuts \/ again
        woken == Woken(i, holds, closes)
    IN  /\ waiters' = [waiters EXCEPT ![i] = IF closes THEN <<>> ELSE IF woken # {} THEN Tail(@) ELSE @]
        /\ locked' = (IF holds /\ woken = {} THEN locked \ {i} ELSE locked) \cup (IF again THEN {made + 1} ELSE {})
        /\ at' = [p \in Queries |-> IF p = q THEN IF again THEN "ready" ELSE "done"
                                    ELSE IF p \in woken THEN "granted" ELSE at[p]]
        /\ on' = [on EXCEPT ![q] = IF again THEN made + 1 ELSE 0]
        /\ retried' = IF again THEN retried \cup {q} ELSE retried \ {q}
        /\ bad' = bad \ {q}
        /\ behind' = IF closes THEN behind \ {i} ELSE behind
        /\ pool' = IF again THEN made + 1 ELSE pool
        /\ made' = IF again THEN made + 1 ELSE made
        /\ disposed' = IF closes THEN disposed \cup {i} ELSE disposed
        /\ server' = [server EXCEPT ![i] = IF closes /\ @ = "up" THEN "exiting" ELSE @]
        /\ ready' = [ready EXCEPT ![i] = IF closes /\ @ = "no" THEN "failed" ELSE @]
    /\ UNCHANGED closed

(* The query goes on, with the lock of i: ready(), and what follows it.    *)
Moves(q, i, place) ==
    /\ at' = [at EXCEPT ![q] = place] /\ on' = [on EXCEPT ![q] = i]
    /\ UNCHANGED <<closed, ready, disposed, failed, server, behind, retried, bad>>

(* instance_for(), and lsp_instance::query() up to where it suspends.  An  *)
(* error there is a stop asked for before, a failed initialize, or an      *)
(* operation the server does not support.                                  *)
Query(q) ==
    /\ at[q] = "out" /\ ~closed /\ pool = 0
    /\ pool' = made + 1 /\ made' = made + 1 /\ locked' = locked \cup {made + 1}
    /\ Moves(q, made + 1, "ready") /\ UNCHANGED waiters
QueryPooled(q) ==
    /\ at[q] = "out" /\ ~closed /\ pool # 0
    /\ \/ pool \in disposed /\ UNCHANGED failed /\ Leaves(q, pool, FALSE, FALSE, TRUE)
       \/ /\ pool \in locked \ disposed /\ waiters' = [waiters EXCEPT ![pool] = Append(@, q)]
          /\ Moves(q, pool, "lock") /\ UNCHANGED <<pool, made, locked>>
       \/ /\ pool \notin locked \cup disposed /\ locked' = locked \cup {pool}
          /\ Moves(q, pool, IF ready[pool] = "no" THEN "ready" ELSE "readied") /\ UNCHANGED <<pool, made, waiters>>

(* The query resumes with the lock; without it, if the instance was closed.*)
Granted(q) ==
    /\ at[q] = "granted"
    /\ IF on[q] \in disposed THEN UNCHANGED failed /\ Leaves(q, on[q], FALSE, FALSE, TRUE)
       ELSE /\ Moves(q, on[q], IF ready[on[q]] = "no" THEN "ready" ELSE "readied")
            /\ UNCHANGED <<pool, made, locked, waiters>>
Readied(q) ==
    /\ at[q] = "readied" \/ (at[q] = "ready" /\ ready[on[q]] # "no")
    /\ \/ UNCHANGED failed /\ Leaves(q, on[q], TRUE, FALSE, TRUE)
       \/ /\ ready[on[q]] = "ok" /\ on[q] \notin disposed
          /\ Moves(q, on[q], "opening") /\ UNCHANGED <<pool, made, locked, waiters>>

(* drain_writes(), of a notification: the server has it, or the write      *)
(* fails, for the server is gone or the connection closed.                 *)
Works(i) == server[i] = "up" /\ i \notin failed
Opened(q) ==
    /\ at[q] = "opening" /\ on[q] \notin behind
    /\ IF Works(on[q]) THEN Moves(q, on[q], "asked") /\ UNCHANGED <<pool, made, locked, waiters>>
       ELSE failed' = failed \cup {on[q]} /\ Leaves(q, on[q], TRUE, FALSE, TRUE)

(* dispatch(): the answer.  The query resumes with it, or with an error of *)
(* the connection, its timer or its stop, and closes the document.         *)
Respond(q) ==
    /\ at[q] = "asked" /\ Works(on[q]) /\ on[q] \notin disposed /\ at' = [at EXCEPT ![q] = "answered"]
    /\ UNCHANGED <<closed, instances, on, retried, bad>>
Resumed(q) ==
    /\ at[q] \in {"asked", "answered"}
    /\ \E error \in {at[q] = "asked", TRUE} :
          IF on[q] \in disposed \cup failed THEN UNCHANGED failed /\ Leaves(q, on[q], TRUE, FALSE, error)
          ELSE /\ bad' = IF error THEN bad \cup {q} ELSE bad
               /\ at' = [at EXCEPT ![q] = "closing"] /\ UNCHANGED <<closed, instances, on, retried>>
Finished(q) ==
    /\ at[q] = "closing" /\ on[q] \notin behind
    /\ failed' = IF Works(on[q]) THEN failed ELSE failed \cup {on[q]}
    /\ Leaves(q, on[q], TRUE, ~Works(on[q]), q \in bad)

----------------------------------------------------------------------------
(* initialize(): the server is launched, whatever became of the instance;  *)
(* the request is answered, or fails.                                      *)
Launch(i) ==
    /\ i <= made /\ server[i] = "none"
    /\ server' = [server EXCEPT ![i] = "up"]
    /\ UNCHANGED <<closed, pool, made, ready, disposed, failed, behind, locked, waiters, queries>>
NoLaunch(i) ==
    /\ i <= made /\ server[i] = "none" /\ server' = [server EXCEPT ![i] = "absent"]
    /\ ready' = [ready EXCEPT ![i] = "failed"]
    /\ UNCHANGED <<closed, pool, made, disposed, failed, behind, locked, waiters, queries>>
Initialized(i) ==
    /\ server[i] # "none" /\ ready[i] = "no"
    /\ ready' \in {[ready EXCEPT ![i] = r] : r \in IF Works(i) THEN {"ok", "failed"} ELSE {"failed"}}
    /\ UNCHANGED <<closed, pool, made, disposed, failed, server, behind, locked, waiters, queries>>

(* The server ends; the reader sees it, unless the connection is closed.   *)
Ends(i) ==
    /\ server[i] = "up" /\ server' = [server EXCEPT ![i] = "gone"]
    /\ UNCHANGED <<closed, pool, made, ready, disposed, failed, behind, locked, waiters, queries>>
EndSeen(i) ==
    /\ server[i] = "gone" /\ i \notin disposed \cup failed /\ failed' = failed \cup {i}
    /\ UNCHANGED <<closed, pool, made, ready, disposed, server, behind, locked, waiters, queries>>
Malformed(i) ==
    /\ Works(i) /\ i \notin disposed /\ failed' = failed \cup {i} /\ server' = [server EXCEPT ![i] = "exiting"]
    /\ UNCHANGED <<closed, pool, made, ready, disposed, behind, locked, waiters, queries>>

(* answer_server_request(): the answer is written before the notifications *)
(* that come after it; when it cannot be written, they are dropped, and    *)
(* nobody tells those who wait for them.                                   *)
ServerAsks(i) ==
    /\ Works(i) /\ ready[i] = "ok" /\ i \notin behind \cup disposed
    /\ \E q \in Queries : on[q] = i /\ at[q] \in {"asked", "answered"}
    /\ behind' = behind \cup {i}
    /\ UNCHANGED <<closed, pool, made, ready, disposed, failed, server, locked, waiters, queries>>
Answered(i) ==
    /\ i \in behind /\ behind' = behind \ {i}
    /\ IF Works(i) THEN UNCHANGED <<failed, at>>
       ELSE /\ failed' = failed \cup {i}
            /\ at' = [q \in Queries |-> IF on[q] = i /\ at[q] \in {"opening", "closing"} THEN "dropped" ELSE at[q]]
    /\ UNCHANGED <<closed, pool, made, ready, disposed, server, locked, waiters, on, retried, bad>>

(* dispose().                                                              *)
Dispose ==
    /\ MayClose /\ ~closed /\ closed' = TRUE /\ pool' = 0
    /\ LET gone == {pool} \ ({0} \cup disposed)
           woken == UNION {Woken(i, FALSE, TRUE) : i \in gone}
       IN  /\ disposed' = disposed \cup gone /\ server' = [i \in Ids |-> IF i \in gone /\ server[i] = "up" THEN "exiting" ELSE server[i]]
           /\ ready' = [i \in Ids |-> IF i \in gone /\ ready[i] = "no" THEN "failed" ELSE ready[i]]
           /\ waiters' = [i \in Ids |-> IF i \in gone THEN <<>> ELSE waiters[i]]
           /\ at' = [q \in Queries |-> IF q \in woken THEN "granted" ELSE at[q]]
    /\ UNCHANGED <<made, failed, behind, locked, on, retried, bad>>

Starts(i) == Launch(i) \/ NoLaunch(i) \/ Initialized(i)
Serves(i) == EndSeen(i) \/ Answered(i)
Resumes(q) == Granted(q) \/ Readied(q) \/ Opened(q) \/ Resumed(q) \/ Finished(q)
Next ==
    \/ \E q \in Queries : Query(q) \/ QueryPooled(q) \/ Respond(q) \/ Resumes(q)
    \/ \E i \in Ids : Starts(i) \/ Serves(i) \/ Ends(i) \/ Malformed(i) \/ ServerAsks(i)
    \/ Dispose

----------------------------------------------------------------------------
(* No query is left behind at the lock: whoever waits for it is in the     *)
(* list of an instance still open, whose lock one query holds that has not *)
(* left it; and a query that waits for ready() has an initialize to end.   *)
(* (lock, unlock, close, query.)                                           *)
Holds(q) == at[q] \in {"granted", "ready", "readied", "opening", "asked", "answered", "closing", "dropped"}
LockPassed ==
    /\ \A q \in Queries : at[q] = "lock" =>
          /\ on[q] \notin disposed /\ \E n \in DOMAIN waiters[on[q]] : waiters[on[q]][n] = q
          /\ \E p \in Queries : Holds(p) /\ on[p] = on[q]
    /\ \A p, q \in Queries : (Holds(p) /\ Holds(q) /\ on[p] = on[q] /\ on[p] \notin disposed) => p = q
    /\ \A q \in Queries : at[q] = "ready" => (ready[on[q]] # "no" \/ on[q] \notin disposed)

(* And what it takes for it to stay so.  An instance's list is of those    *)
(* that wait for it, each once; its lock is taken exactly while a query    *)
(* holds it, and free when nobody waits; a closed instance has no list and *)
(* is not about to be ready.  There is an instance for each query that     *)
(* uses one, as a query makes one more only when it is retried.            *)
Holder(q, i) == Holds(q) /\ on[q] = i
Waits(q, i) == at[q] = "lock" /\ on[q] = i
Types ==
    /\ made \in Nat /\ pool \in 0..made /\ closed \in BOOLEAN
    /\ ready \in [Ids -> {"no", "ok", "failed"}]
    /\ disposed \subseteq 1..made /\ locked \subseteq 1..made
    /\ server \in [Ids -> {"none", "absent", "up", "exiting", "gone"}]
    /\ waiters \in [Ids -> Seq(Queries)]
    /\ at \in [Queries -> {"out", "lock", "granted", "ready", "readied", "opening", "asked", "answered", "closing",
                           "dropped", "done"}]
    /\ on \in [Queries -> 0..made]
    /\ retried \subseteq Queries
Used == retried \cup {q \in Queries : at[q] = "done"}
Numbered ==
    /\ made <= Cardinality(Used) + 1
    /\ pool = 0 /\ ~closed => made = 0
    /\ \A q \in Queries : on[q] = 0 <=> at[q] \in {"out", "done"}
ListsWaiters ==
    \A i \in Ids :
        /\ \A q \in Queries : Waits(q, i) <=> \E n \in DOMAIN waiters[i] : waiters[i][n] = q
        /\ \A m, n \in DOMAIN waiters[i] : waiters[i][m] = waiters[i][n] => m = n
OneHolds ==
    \A i \in 1..made \ disposed :
        /\ i \in locked <=> \E q \in Queries : Holder(q, i)
        /\ \A p, q \in Queries : Holder(p, i) /\ Holder(q, i) => p = q
        /\ i \notin locked => waiters[i] = <<>>
ClosedIdle == \A i \in disposed : waiters[i] = <<>> /\ ready[i] # "no"
Inv == Types /\ Numbered /\ ListsWaiters /\ OneHolds /\ ClosedIdle
===============================================================================
