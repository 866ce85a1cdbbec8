--------------------------------- MODULE Bash ---------------------------------
(***************************************************************************)
(* A foreground call of the bash tool (shell.cpp): the checks before the   *)
(* launch, the shell process and what it leaves behind, the timeout        *)
(* watcher and the caller's stop, the two drains with their cap and spill  *)
(* file, and the answer.  Bytes are counted, not represented.              *)
(***************************************************************************)
EXTENDS Naturals, FiniteSetsExt

CONSTANTS
    Streams,        \* stdout and stderr
    Cap,            \* max_output_bytes
    Limit,          \* spill_max_bytes
    MaxBytes        \* how much is ever written to a stream

VARIABLES
    at,             \* the tool call
    proc,           \* the shell's process
    behind,         \* whether a process it left behind holds the pipes open
    written, taken, \* per stream, the bytes written and those the drain has read
    kept, spilled,  \* of those, the bytes in memory and in the spill file
    file,           \* the spill file: none, open, or one that misses its beginning
    ended,          \* the streams whose end the drain has seen
    timer, stop,    \* the timeout; whether the caller has asked to stop
    killed,         \* whether the shell has been sent SIGKILL
    answer          \* what the call returns

vars == <<at, proc, behind, written, taken, kept, spilled, file, ended, timer, stop, killed, answer>>

process == <<proc, behind, written>>
output == <<taken, kept, spilled, file, ended>>

Init ==
    /\ at = "idle" /\ proc = "none" /\ behind = FALSE /\ timer = "off" /\ stop \in BOOLEAN /\ killed = FALSE
    /\ written = [s \in Streams |-> 0] /\ taken = written /\ kept = written /\ spilled = written
    /\ file = [s \in Streams |-> "none"] /\ ended = {} /\ answer = "none"

(* handle_bash() and run_shell() up to the first suspension.  An invalid   *)
(* working directory or timeout, or a sandbox that cannot confine, refuses *)
(* the call; a launch that fails says so.  A stop asked for earlier kills  *)
(* at once.                                                                *)
Begin ==
    /\ at = "idle"
    /\ \/ /\ at' = "draining" /\ proc' = "up" /\ timer' = "set" /\ killed' = stop /\ UNCHANGED answer
       \/ /\ at' = "done" /\ answer' \in {"refused", "not launched"} /\ UNCHANGED <<proc, timer, killed>>
    /\ UNCHANGED <<behind, written, output, stop>>

(* kill_process(): the shell's own process only, while the call lives.     *)
Alive == at \in {"draining", "waiting"}

Fire ==
    /\ timer = "set" /\ timer' = "fired" /\ killed' = (killed \/ Alive)
    /\ UNCHANGED <<at, process, output, stop, answer>>

Stop ==
    /\ ~stop /\ stop' = TRUE /\ killed' = (killed \/ Alive)
    /\ UNCHANGED <<at, process, output, timer, answer>>

(* The command writes, exits, or leaves a process behind that does.        *)
Write(s) ==
    /\ proc = "up" \/ behind
    /\ written[s] < MaxBytes /\ written' = [written EXCEPT ![s] = @ + 1]
    /\ UNCHANGED <<at, proc, behind, output, timer, stop, killed, answer>>
Exit(as) ==
    /\ proc = "up" /\ (as = "signalled" => killed)
    /\ proc' = as /\ behind' \in BOOLEAN
    /\ UNCHANGED <<at, written, output, timer, stop, killed, answer>>
PipesClose ==
    /\ behind /\ behind' = FALSE
    /\ UNCHANGED <<at, proc, written, output, timer, stop, killed, answer>>

(* drain(): a read of n bytes; what does not fit is dropped from memory    *)
(* and goes to the spill file, after the head that is in memory.  The file *)
(* is opened by the first write; if that fails the head is not written     *)
(* again, and a later write opens a file without it (spill_writer).        *)
Opens(f) ==
    CASE f = "none" -> {"open", "failed", "headless"}
      [] f = "failed" -> {"headless", "failed"}
      [] OTHER -> {f}
Spill(s, head, over) ==
    \E f \in Opens(file[s]) :
        /\ file' = [file EXCEPT ![s] = f]
        /\ spilled' = [spilled EXCEPT ![s] =
               CASE f = "failed" -> 0
                 [] f = "open" /\ file[s] = "none" -> Min({Limit, head + over})
                 [] OTHER -> Min({Limit, @ + over})]

Drain(s, n) ==
    LET fits == Min({n, Cap - kept[s]})
    IN  /\ at = "draining" /\ s \notin ended /\ n \in 1..(written[s] - taken[s])
        /\ taken' = [taken EXCEPT ![s] = @ + n]
        /\ kept' = [kept EXCEPT ![s] = @ + fits]
        /\ IF fits < n THEN Spill(s, kept'[s], n - fits) ELSE UNCHANGED <<file, spilled>>
        /\ UNCHANGED <<at, process, ended, timer, stop, killed, answer>>

(* The end of a stream, once nobody holds it; both ends start the wait.    *)
End(s) ==
    /\ at = "draining" /\ s \notin ended
    /\ proc # "up" /\ ~behind /\ taken[s] = written[s]
    /\ ended' = ended \cup {s}
    /\ at' = IF ended' = Streams THEN "waiting" ELSE at
    /\ UNCHANGED <<process, taken, kept, spilled, file, timer, stop, killed, answer>>

(* async_wait() and the answer: an abort hides everything else, a timeout  *)
(* only adds a marker to the exit or the signal.                           *)
Answer ==
    /\ at = "waiting" /\ at' = "done" /\ timer' = IF timer = "fired" THEN timer ELSE "off"
    /\ answer' = IF stop THEN "aborted" ELSE proc
    /\ UNCHANGED <<process, output, stop, killed>>

Next ==
    \/ Begin \/ Fire \/ Stop \/ PipesClose \/ Answer
    \/ \E as \in {"exited", "signalled"} : Exit(as)
    \/ \E s \in Streams : Write(s) \/ End(s) \/ \E n \in 1..MaxBytes : Drain(s, n)

(* The timer expires, a process that was killed ends, and the coroutine    *)
(* goes on; the command itself owes nothing.                               *)
Fairness ==
    /\ WF_vars(Begin) /\ WF_vars(Fire) /\ WF_vars(killed /\ Exit("signalled")) /\ WF_vars(Answer)
    /\ \A s \in Streams : WF_vars(End(s)) /\ WF_vars(\E n \in 1..MaxBytes : Drain(s, n))
Spec == Init /\ [][Next]_vars /\ Fairness

(***************************************************************************)
(* A call ends, whatever the command does: the timeout kills it, its pipes *)
(* close and the drains see their end.  Only a process left behind that    *)
(* never closes the pipes, which no kill reaches, can hold it              *)
(* (shell.cpp:99-106, 331-352, 366-378).                                   *)
(***************************************************************************)
CallEnds == <>[]behind \/ <>(at = "done")

(***************************************************************************)
(* A file offered as the full output of a stream is a prefix of the whole  *)
(* stream as far as its cap allows, head included, unless its first open   *)
(* failed; and memory and file together lose no byte below both caps       *)
(* (shell.cpp:111-150, 152-180).                                           *)
(***************************************************************************)
SpillComplete ==
    \A s \in Streams :
        /\ kept[s] = Min({taken[s], Cap})
        /\ file[s] = "none" <=> taken[s] <= Cap
        /\ file[s] = "open" => spilled[s] = Min({taken[s], Limit})
===============================================================================
