------------------------------- MODULE Effects -------------------------------
(***************************************************************************)
(* The cleanup stack of one activation (effects.cpp, activation.cpp): a    *)
(* cleanup may itself put effects in place and release registrations while *)
(* the stack is being walked.                                              *)
(***************************************************************************)
EXTENDS Integers, SequencesExt

CONSTANT MaxEffects     \* bound: the effects of one activation

VARIABLES
    entries,     \* entries_: sequence of [id, released]
    handles,     \* the registrations held, not released yet: [id, index]
    phase,       \* "live", "walking" (run_all) or "torn"
    processed,   \* run_all's counter
    running,     \* the cleanups under way, innermost last
    error,       \* the first cleanup that threw, 0 if none did
    count,       \* the effects put in place so far; they are numbered in that order
    placed,      \* history: what count was when the teardown began
    undone       \* history: the cleanups run, [id, by]

vars == <<entries, handles, phase, processed, running, error, count, placed, undone>>

Init ==
    /\ entries = << >> /\ handles = {} /\ phase = "live" /\ processed = 0 /\ running = << >>
    /\ error = 0 /\ count = 0 /\ placed = 0 /\ undone = << >>

(* effect(), on(), provide() or mount(): by the plugin, by one of its      *)
(* cleanups, or by a mount whose posted handler the teardown has overtaken.*)
Add ==
    /\ count < MaxEffects
    /\ phase # "walking" \/ running # << >>
    /\ count' = count + 1
    /\ entries' = Append(entries, [id |-> count + 1, released |-> FALSE])
    /\ handles' = handles \cup {[id |-> count + 1, index |-> Len(entries) + 1]}
    /\ UNCHANGED <<phase, processed, running, error, placed, undone>>

(* Mutant of run_entry(): an entry is not marked before its cleanup runs.  *)
RunEntryUnmarked(i, by) ==
    IF i \in DOMAIN entries /\ ~entries[i].released
    THEN /\ UNCHANGED entries
         /\ running' = Append(running, entries[i].id)
         /\ undone' = Append(undone, [id |-> entries[i].id, by |-> by])
    ELSE UNCHANGED <<entries, running, undone>>

(* run_entry().                                                            *)
RunEntry(i, by) ==
    IF i \in DOMAIN entries /\ ~entries[i].released
    THEN /\ entries' = [entries EXCEPT ![i].released = TRUE]
         /\ running' = Append(running, entries[i].id)
         /\ undone' = Append(undone, [id |-> entries[i].id, by |-> by])
    ELSE UNCHANGED <<entries, running, undone>>

(* registration::release(), by the plugin or by a cleanup.                 *)
Release ==
    /\ phase # "walking" \/ running # << >>
    /\ \E h \in handles :
        /\ handles' = handles \ {h}
        /\ RunEntry(h.index, "release")
    /\ UNCHANGED <<phase, processed, error, count, placed>>

(* The cleanup that is running returns or throws.                          *)
Return ==
    /\ running # << >>
    /\ running' = Front(running)
    /\ error' \in {error, IF error = 0 THEN Last(running) ELSE error}
    /\ UNCHANGED <<entries, handles, phase, processed, count, placed, undone>>

(* activation::teardown().                                                 *)
Teardown ==
    /\ phase = "live" /\ running = << >>
    /\ phase' = "walking" /\ placed' = count
    /\ UNCHANGED <<entries, handles, processed, running, error, count, undone>>

(* An iteration of run_all().                                              *)
Walk ==
    /\ phase = "walking" /\ running = << >>
    /\ IF processed < Len(entries)
       THEN RunEntry(Len(entries) - processed, "walk") /\ processed' = processed + 1 /\ UNCHANGED phase
       ELSE entries' = << >> /\ phase' = "torn" /\ UNCHANGED <<processed, running, undone>>
    /\ UNCHANGED <<handles, error, count, placed>>

Next == Add \/ Release \/ Return \/ Teardown \/ Walk
Spec == Init /\ [][Next]_vars

(***************************************************************************)
(* However cleanups add and release effects under the walk, each effect is *)
(* reverted at most once, every effect in place when the teardown began is *)
(* reverted by its end, and the walk takes those last in, first out        *)
(* (INTRODUCTION.md: "in reverse order").  An effect that a cleanup adds   *)
(* may be dropped: the walk counts from the end of a stack that grew.      *)
(***************************************************************************)
Reverted ==
    /\ \A i, j \in DOMAIN undone : i # j => undone[i].id # undone[j].id
    /\ phase = "torn" => \A n \in 1..placed : \E i \in DOMAIN undone : undone[i].id = n
    /\ \A i, j \in DOMAIN undone :
        i < j /\ undone[i].by = "walk" /\ undone[j].by = "walk" /\ undone[i].id <= placed /\ undone[j].id <= placed
            => undone[i].id > undone[j].id
===============================================================================
