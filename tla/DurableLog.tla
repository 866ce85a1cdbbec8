------------------------------ MODULE DurableLog ------------------------------
(***************************************************************************)
(* What the persistence plugin promises of each session's log, without     *)
(* files, buffers or sessions: records are accepted in order, kept in that *)
(* order, and vouched for when a flush returns.  Only a crash loses any,   *)
(* it loses a suffix, and it stops at the last record vouched for.  The    *)
(* promise is withdrawn in one case: a log whose last record was torn      *)
(* (damaged) is rewritten when it is reopened.                             *)
(***************************************************************************)
EXTENDS Integers, Sequences

CONSTANTS
    Log,      \* the sessions that have a log
    Record    \* what a log holds

VARIABLES
    pending,  \* [Log -> Seq(Record)] accepted, in memory
    kept,     \* [Log -> Seq(Record)] written, whole
    sure,     \* [Log -> Nat] how many of kept no crash can take
    torn,     \* [Log -> BOOLEAN] kept is followed by part of a record
    crashes   \* how often the process has died

dvars == <<pending, kept, sure, torn, crashes>>

DurableInit ==
    /\ pending = [l \in Log |-> <<>>] /\ kept = [l \in Log |-> <<>>]
    /\ sure = [l \in Log |-> 0] /\ torn = [l \in Log |-> FALSE] /\ crashes = 0

Same(l) == /\ pending'[l] = pending[l] /\ kept'[l] = kept[l]
           /\ sure'[l] = sure[l] /\ torn'[l] = torn[l]

(* t is s and one record more; t is a prefix of s of at least n records.   *)
Longer(t, s) == t # <<>> /\ t[Len(t)] \in Record /\ t = Append(s, t[Len(t)])
PrefixFrom(n, t, s) == Len(t) \in n..Len(s) /\ t = SubSeq(s, 1, Len(t))

(* Begin a log with its first record.                                      *)
Begin(l) ==
    /\ kept[l] = <<>> /\ pending[l] = <<>> /\ pending'[l] = <<>> /\ ~torn[l]
    /\ Longer(kept'[l], <<>>) /\ sure'[l] = 0 /\ torn'[l] = FALSE

(* Reopen a damaged log: the damage is cut off, the promise withdrawn.     *)
Mend(l) ==
    /\ torn[l] /\ pending[l] = <<>> /\ pending'[l] = <<>>
    /\ kept'[l] = kept[l] /\ sure'[l] = 0 /\ torn'[l] = FALSE

(* Accept a record; what is pending may be stored at once.                 *)
Accept(l) ==
    /\ \/ Longer(pending'[l], pending[l]) /\ kept'[l] = kept[l]
       \/ pending'[l] = <<>> /\ Longer(kept'[l], kept[l] \o pending[l])
    /\ sure'[l] = sure[l] /\ torn'[l] = torn[l]

(* A flush: all that was accepted is stored, and vouched for.              *)
Vouch(l) ==
    /\ pending'[l] = <<>> /\ kept'[l] = kept[l] \o pending[l]
    /\ sure'[l] = Len(kept'[l]) /\ torn'[l] = torn[l]

(* The process dies while the log is idle, being written, begun or mended. *)
Lose(l) ==
    /\ pending'[l] = <<>>
    /\ \/ PrefixFrom(IF torn[l] THEN 0 ELSE sure[l], kept'[l], kept[l] \o pending[l])
       \/ kept[l] = <<>> /\ pending[l] = <<>> /\ Longer(kept'[l], <<>>)
    /\ sure'[l] \in 0..Len(kept'[l]) /\ (torn[l] \/ sure'[l] >= sure[l])

DurableNext ==
    \/ /\ crashes' = crashes
       /\ \A l \in Log : Same(l) \/ Begin(l) \/ Mend(l) \/ Accept(l) \/ Vouch(l)
    \/ /\ crashes' = crashes + 1
       /\ \A l \in Log : Lose(l) /\ torn'[l] \in BOOLEAN

DurableSpec == DurableInit /\ [][DurableNext]_dvars
===============================================================================
