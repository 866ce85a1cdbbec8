--------------------------------- MODULE Jobs ---------------------------------
(***************************************************************************)
(* Background jobs: the registry (plugins/jobs), the tools that read, kill *)
(* and await a job and the notice of its end (plugins/tool-jobs), and the  *)
(* one producer, a shell command in the background (plugins/shell).        *)
(*                                                                         *)
(* A command's coroutine is posted, launches a process and drains its      *)
(* pipes; what the shell leaves behind may keep them open.  A waiter sits  *)
(* in the job's list until its coroutine resumes, which is later than its  *)
(* timer, its stop or the settlement that woke it.                         *)
(***************************************************************************)
EXTENDS Integers, FiniteSets

CONSTANTS
    JobIds, Sessions,
    Unowned,      \* the owner of a job no session owns
    Waiters,      \* job_output calls with wait
    Limit,        \* max_concurrent_jobs_per_owner
    MaxUnloads    \* bound: unloads of tool-jobs

VARIABLES
    sessions,     \* sessions in the session store
    mounted,      \* the registry is there
    attached,     \* tool-jobs is: a controller, and its completion listener
    unloads,
    store,        \* job_registry::store_
    owner, status,
    reported,     \* those with tracked_job::reported
    tokens,       \* tracked_job::waiters
    wait, target, \* where each waiter is, and what it waits for
    proc,         \* where each command's coroutine is
    child,        \* those whose pipes a process left behind keeps open
    asked,        \* bg_state::requested_cancel
    killed,       \* those whose process was sent SIGKILL
    posted,       \* notices on their way
    noticed, told, unheard   \* history: who was given a notice, who knows, ends nobody listened to

registry == <<store, owner, status, reported, tokens>>
calls == <<wait, target>>
commands == <<proc, child, asked, killed>>
notices == <<posted, noticed, told, unheard>>
jobVars == <<sessions, mounted, attached, unloads, registry, calls, commands, notices>>

Ends == {"completed", "killed", "failed"}
Terminal(j) == status[j] \in Ends
Active(o) == {j \in store : owner[j] = o /\ ~Terminal(j)}
Reaches(s, j) == mounted /\ j \in store /\ owner[j] \in {s, Unowned}   \* expect, check_access

Init ==
    /\ sessions = Sessions /\ mounted = TRUE /\ attached = TRUE /\ unloads = 0
    /\ store = {} /\ owner = [j \in JobIds |-> Unowned] /\ status = [j \in JobIds |-> "none"]
    /\ reported = {} /\ tokens = [j \in JobIds |-> {}]
    /\ wait = [w \in Waiters |-> "out"] /\ target = [w \in Waiters |-> CHOOSE j \in JobIds : TRUE]
    /\ proc = [j \in JobIds |-> "none"] /\ child = {} /\ asked = {} /\ killed = {}
    /\ posted = {} /\ noticed = {} /\ told = {} /\ unheard = {}

----------------------------------------------------------------------------
(* start(), for a command run in the background: its coroutine is posted.  *)
Start(j, o) ==
    /\ mounted /\ attached /\ status[j] = "none" /\ Cardinality(Active(o)) < Limit
    /\ owner' = [owner EXCEPT ![j] = o] /\ status' = [status EXCEPT ![j] = "running"]
    /\ store' = store \cup {j} /\ proc' = [proc EXCEPT ![j] = "posted"]
    /\ UNCHANGED <<sessions, mounted, attached, unloads, reported, tokens, calls, child, asked, killed, notices>>

(* release_waiters(), of some jobs.                                        *)
Released(jobs) ==
    /\ wait' = [w \in Waiters |-> IF \E j \in jobs : w \in tokens[j] THEN "woken" ELSE wait[w]]
    /\ tokens' = [j \in JobIds |-> IF j \in jobs THEN {} ELSE tokens[j]]

(* Whether the listeners hear of the settlement: not if a waiter will tell.*)
(* Mutant: the waiters are not looked at.                                  *)
NotifiedAnyway(j) == ~Terminal(j) /\ j \in store
Notified(j) == ~Terminal(j) /\ j \in store /\ j \notin reported'

(* settle_job(), and the completion listener of tool-jobs.                 *)
Settle(j, end) ==
    /\ status' = [status EXCEPT ![j] = IF Terminal(j) THEN @ ELSE end]
    /\ reported' = IF ~Terminal(j) /\ tokens[j] # {} THEN reported \cup {j} ELSE reported
    /\ Released(IF Terminal(j) THEN {} ELSE {j})
    /\ posted' = IF Notified(j) /\ attached /\ owner[j] \in sessions THEN posted \cup {j} ELSE posted
    /\ unheard' = IF Notified(j) /\ ~attached THEN unheard \cup {j} ELSE unheard
    /\ UNCHANGED <<sessions, mounted, attached, unloads, store, owner, target, asked, killed, noticed, told>>

(* run_background(): the launch, which may fail; the end of the shell,     *)
(* which may leave a process behind; the end of the pipes.                 *)
Launch(j) ==
    /\ proc[j] = "posted"
    /\ \/ /\ proc' = [proc EXCEPT ![j] = "up"]
          /\ UNCHANGED <<sessions, mounted, attached, unloads, registry, calls, child, asked, killed, notices>>
       \/ proc' = [proc EXCEPT ![j] = "over"] /\ UNCHANGED child /\ Settle(j, "failed")
Exit(j) ==
    /\ proc[j] = "up" /\ proc' = [proc EXCEPT ![j] = "exited"] /\ child' \in {child, child \cup {j}}
    /\ UNCHANGED <<sessions, mounted, attached, unloads, registry, calls, asked, killed, notices>>
PipesEnd(j) ==
    /\ j \in child /\ child' = child \ {j}
    /\ UNCHANGED <<sessions, mounted, attached, unloads, registry, calls, proc, asked, killed, notices>>
Drained(j) ==
    /\ proc[j] = "exited" /\ j \notin child /\ proc' = [proc EXCEPT ![j] = "over"] /\ UNCHANGED child
    /\ Settle(j, IF j \in asked THEN "killed" ELSE "completed")

(* The cancel of a job's handle; before the launch there is no process to  *)
(* signal, and the launch does not look at what was asked.                 *)
Cancelled(jobs) ==
    /\ asked' = asked \cup jobs /\ killed' = killed \cup {j \in jobs : proc[j] = "up"}

(* job_kill.                                                               *)
Kill(s, j) ==
    /\ Reaches(s, j) /\ reported' = reported \cup {j} /\ told' = told \cup {j}
    /\ IF Terminal(j) THEN UNCHANGED <<status, asked, killed>>
       ELSE Cancelled({j}) /\ status' = [status EXCEPT ![j] = "stopping"]
    /\ UNCHANGED <<sessions, mounted, attached, unloads, store, owner, tokens, calls, proc, child,
                   posted, noticed, unheard>>

(* job_output: without wait, or of a job that has ended, a read.           *)
Read(s, j) ==
    /\ Reaches(s, j) /\ Terminal(j) /\ reported' = reported \cup {j} /\ told' = told \cup {j}
    /\ UNCHANGED <<sessions, mounted, attached, unloads, store, owner, status, tokens, calls, commands,
                   posted, noticed, unheard>>
Wait(w, s, j) ==
    /\ wait[w] = "out" /\ Reaches(s, j) /\ ~Terminal(j)
    /\ wait' = [wait EXCEPT ![w] = "waiting"] /\ target' = [target EXCEPT ![w] = j]
    /\ tokens' = [tokens EXCEPT ![j] = @ \cup {w}]
    /\ UNCHANGED <<sessions, mounted, attached, unloads, store, owner, status, reported, commands, notices>>

(* The waiter's timer expires, or its turn is stopped.                     *)
TimeOut(w) ==
    /\ wait[w] = "waiting" /\ wait' = [wait EXCEPT ![w] = "woken"]
    /\ UNCHANGED <<sessions, mounted, attached, unloads, registry, target, commands, notices>>

(* The waiter resumes: wait() returns and job_output reads, if it can.     *)
Return(w) ==
    /\ wait[w] = "woken" /\ wait' = [wait EXCEPT ![w] = "out"]
    /\ tokens' = [tokens EXCEPT ![target[w]] = @ \ {w}]
    /\ reported' = IF Terminal(target[w]) THEN reported \cup {target[w]} ELSE reported
    /\ told' = IF Terminal(target[w]) /\ target[w] \in store THEN told \cup {target[w]} ELSE told
    /\ UNCHANGED <<sessions, mounted, attached, unloads, store, owner, status, target, commands,
                   posted, noticed, unheard>>

(* The notice is put into the inbox of the owner, if it is still there.    *)
Deliver(j) ==
    /\ j \in posted /\ posted' = posted \ {j}
    /\ IF owner[j] \in sessions THEN noticed' = noticed \cup {j} /\ told' = told \cup {j}
       ELSE UNCHANGED <<noticed, told>>
    /\ UNCHANGED <<sessions, mounted, attached, unloads, registry, calls, commands, unheard>>

----------------------------------------------------------------------------

(* stop_job(), of every job that leaves the store.                         *)
Stopped(jobs) ==
    LET live == {j \in jobs : ~Terminal(j)}
    IN  /\ store' = store \ jobs /\ reported' = reported \cup live /\ Cancelled(live)
        /\ status' = [j \in JobIds |-> IF j \in live THEN "stopping" ELSE status[j]]
        /\ Released(live) /\ UNCHANGED <<owner, target, proc, child, notices>>

Dispose(s) ==
    /\ s \in sessions /\ sessions' = sessions \ {s}
    /\ Stopped({j \in store : owner[j] = s /\ mounted}) /\ UNCHANGED <<mounted, attached, unloads>>
Shutdown ==
    /\ mounted /\ mounted' = FALSE /\ Stopped(store) /\ UNCHANGED <<sessions, attached, unloads>>

(* tool-jobs is unloaded, and loaded again.                                *)
Unload ==
    /\ attached /\ unloads < MaxUnloads /\ unloads' = unloads + 1 /\ attached' = FALSE
    /\ UNCHANGED <<sessions, mounted, registry, calls, commands, notices>>
Load ==
    /\ ~attached /\ attached' = TRUE
    /\ UNCHANGED <<sessions, mounted, unloads, registry, calls, commands, notices>>

(* shell is unloaded: the commands it started are cancelled, and their     *)
(* jobs learn of it when they end.                                         *)
ShellGone ==
    /\ \E j \in JobIds : proc[j] = "up" /\ j \notin asked
    /\ Cancelled({j \in JobIds : proc[j] \in {"posted", "up", "exited"}})
    /\ UNCHANGED <<sessions, mounted, attached, unloads, registry, calls, proc, child, notices>>

Next ==
    \/ \E j \in JobIds, o \in Sessions \cup {Unowned} : Start(j, o)
    \/ \E j \in JobIds : Launch(j) \/ Exit(j) \/ PipesEnd(j) \/ Drained(j) \/ Deliver(j)
    \/ \E j \in JobIds, s \in Sessions : Kill(s, j) \/ Read(s, j)
    \/ \E w \in Waiters, s \in Sessions, j \in JobIds : Wait(w, s, j)
    \/ \E w \in Waiters : TimeOut(w) \/ Return(w)
    \/ \E s \in Sessions : Dispose(s)
    \/ Shutdown \/ Unload \/ Load \/ ShellGone

----------------------------------------------------------------------------
(* The owner of a job that has ended has been told, by a notice or by the  *)
(* answer of a tool, or is about to be, unless the listener was unloaded   *)
(* when it ended; and never by a notice of what a waiter reports already.  *)
(* Nobody waits for what has ended or left: a waiter that has not been     *)
(* woken is in the list of a job that runs, or is being stopped by the     *)
(* kill of another call.  (settle_job, wait, stop_job, the listener.)      *)
Informed ==
    /\ \A j \in store : (Terminal(j) /\ owner[j] \in sessions) =>
          \/ j \in told \cup posted \cup unheard
          \/ \E w \in Waiters : wait[w] = "woken" /\ target[w] = j
    /\ \A w \in Waiters : wait[w] # "out" => target[w] \notin posted \cup noticed
    /\ \A w \in Waiters : wait[w] = "waiting" =>
          target[w] \in store /\ ~Terminal(target[w]) /\ w \in tokens[target[w]]

(* And what it takes for it to stay so.  A waiter is in no list but that   *)
(* of the job it waits for, and in that one until the job ends or leaves;  *)
(* what is reported before a job ends, its owner knows; and a notice is    *)
(* only ever of an end.                                                    *)
Types ==
    /\ sessions \subseteq Sessions /\ store \subseteq JobIds /\ reported \subseteq JobIds
    /\ owner \in [JobIds -> Sessions \cup {Unowned}]
    /\ status \in [JobIds -> {"none", "running", "stopping"} \cup Ends]
    /\ tokens \in [JobIds -> SUBSET Waiters]
    /\ wait \in [Waiters -> {"out", "waiting", "woken"}] /\ target \in [Waiters -> JobIds]
    /\ posted \subseteq JobIds /\ noticed \subseteq JobIds /\ told \subseteq JobIds /\ unheard \subseteq JobIds
Started == \A j \in store \cup reported : status[j] # "none"
EndNoticed == \A j \in posted \cup noticed : Terminal(j)
ReportedKnown == \A j \in store \cap reported : Terminal(j) \/ j \in told
Listed ==
    /\ \A j \in JobIds : \A w \in tokens[j] : target[w] = j /\ wait[w] # "out"
    /\ \A w \in Waiters : wait[w] # "out" =>
          /\ status[target[w]] # "none"
          /\ w \in tokens[target[w]] \/ Terminal(target[w]) \/ target[w] \notin store
Inv == Types /\ Started /\ EndNoticed /\ ReportedKnown /\ Listed /\ Informed
===============================================================================
