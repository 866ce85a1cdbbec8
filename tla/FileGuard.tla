------------------------------ MODULE FileGuard ------------------------------
(***************************************************************************)
(* The read, write and edit tools on one file, and the policy that decides *)
(* their guards (coreutil.cpp, fs_observation_policy.cpp, fs/events.cpp).  *)
(* A tool call has the strand to itself, but processes outside this        *)
(* program, such as a background job's, change the file between any two of *)
(* its system calls.  A text is a number, its version the token            *)
(* <mtime>:<size>, which differs for every write.                          *)
(***************************************************************************)
EXTENDS Naturals, Sequences

CONSTANTS
    Owners,         \* the sessions that call the tools
    Direct,         \* the owner of a call that has no session (an empty id)
    MaxTexts,       \* how many texts are ever written
    MaxUnloads,     \* how often the policy is unloaded
    MaxPosted       \* how many observations may be on their way when a call begins

Callers == Owners \cup {Direct}
Absent == 0
Unseen == MaxTexts + 1      \* a target the policy has no observation of
Blank == MaxTexts + 2       \* the version of a file gone before its stat

VARIABLES
    disk,           \* the file's text, or Absent
    texts,          \* how many texts have been written
    call,           \* the tool call on the strand; raced: the file changed during it
    posted,         \* observations on their way to the policy (fs/observed is emit)
    observed,       \* the policy's record: per owner the version, Absent or Unseen
    mounted,        \* whether the policy is
    unloads,
    holds           \* what each caller has got of the file as it is now: no, its
                    \* text (it read or wrote it), or only its version (the file
                    \* changed between the call's data and its stat)

vars == <<disk, texts, call, posted, observed, mounted, unloads, holds>>

NoCall == [at |-> "none", by |-> Direct, tool |-> "read", existed |-> FALSE, guarded |-> FALSE, raced |-> FALSE]

Init ==
    /\ disk \in {Absent, 1} /\ texts = 1 /\ call = NoCall /\ posted = << >>
    /\ observed = [o \in Owners |-> Unseen] /\ mounted = TRUE /\ unloads = 0
    /\ holds = [c \in Callers |-> "no"]

(* emit_observed: the policy hears of it in a handler of its own.          *)
Observed(owner, version) ==
    posted' = IF mounted THEN Append(posted, [owner |-> owner, version |-> version]) ELSE posted
Changed(by, what) == holds' = [c \in Callers |-> IF c = by THEN what ELSE "no"]
To(phase) == call' = [call EXCEPT !.at = phase, !.raced = @ /\ phase # "stat", !.guarded = @ /\ phase # "stat"]
Ends == call' = NoCall

(* A call arrives.  write notes whether the file exists before it asks for *)
(* the guard; read reports a miss.                                         *)
Begin(c, tool) ==
    /\ call.at = "none" /\ Len(posted) <= MaxPosted
    /\ call' = [NoCall EXCEPT !.at = IF tool = "read" THEN "data" ELSE "guard",
                              !.by = c, !.tool = tool,
                              !.existed = (tool = "write" /\ disk # Absent)]
    /\ IF tool = "read" /\ disk = Absent THEN Observed(c, Absent) ELSE UNCHANGED posted
    /\ UNCHANGED <<disk, texts, observed, mounted, unloads, holds>>

(* decide_write and decide_edit with the checks on their decisions: what   *)
(* is unseen or was absent may only be created, what was seen may only be  *)
(* replaced at the version seen.                                           *)
Seen(c) == IF c = Direct THEN Unseen ELSE observed[c]
AdmitsSeen ==                   \* mutant of Admits: seen once, whatever the version
    IF Seen(call.by) \in {Unseen, Absent} THEN call.tool = "write" /\ ~call.existed ELSE disk # Absent

Admits ==
    IF Seen(call.by) \in {Unseen, Absent}
    THEN call.tool = "write" /\ ~call.existed
    ELSE disk = Seen(call.by)

Guard ==
    /\ call.at = "guard"
    /\ IF mounted => Admits
       THEN call' = [call EXCEPT !.at = IF call.tool = "write" THEN "store" ELSE "data",
                                 !.guarded = mounted, !.existed = FALSE]
       ELSE Ends
    /\ UNCHANGED <<disk, texts, posted, observed, mounted, unloads, holds>>

(* read_file; an edit may find its old_string missing or ambiguous.        *)
Data ==
    /\ call.at = "data"
    /\ \/ disk # Absent /\ call.tool = "read" /\ To("stat") /\ holds' = [holds EXCEPT ![call.by] = "text"]
       \/ disk # Absent /\ call.tool = "edit" /\ To("store") /\ UNCHANGED holds
       \/ (disk = Absent \/ call.tool = "edit") /\ Ends /\ UNCHANGED holds
    /\ UNCHANGED <<disk, texts, posted, observed, mounted, unloads>>

(* The stream is opened with trunc and written; it may not open, or fail   *)
(* with the file truncated.                                                *)
Store ==
    /\ call.at = "store"
    /\ \/ /\ texts < MaxTexts
          /\ texts' = texts + 1 /\ disk' = texts'
          /\ \/ To("stat") /\ Changed(call.by, "text")
             \/ Ends /\ Changed(call.by, "no")
       \/ Ends /\ UNCHANGED <<disk, texts, holds>>
    /\ UNCHANGED <<posted, observed, mounted, unloads>>

(* read_version after the data was read or written.                        *)
Stat ==
    /\ call.at = "stat"
    /\ Observed(call.by, IF disk = Absent THEN Blank ELSE disk)
    /\ holds' = [holds EXCEPT ![call.by] = IF disk # Absent /\ @ = "no" THEN "version" ELSE @]
    /\ Ends
    /\ UNCHANGED <<disk, texts, observed, mounted, unloads>>

(* The policy's listener: a call without a session is not recorded.        *)
Record ==
    /\ posted # << >> /\ call.at = "none"
    /\ posted' = Tail(posted)
    /\ observed' = IF posted[1].owner = Direct THEN observed
                   ELSE [observed EXCEPT ![posted[1].owner] = posted[1].version]
    /\ UNCHANGED <<disk, texts, call, mounted, unloads, holds>>

(* The policy is unloaded, with all it has observed, or loaded again.      *)
Unload ==
    /\ mounted /\ unloads < MaxUnloads
    /\ mounted' = FALSE /\ unloads' = unloads + 1 /\ posted' = << >>
    /\ observed' = [o \in Owners |-> Unseen]
    /\ UNCHANGED <<disk, texts, call, holds>>

Load == ~mounted /\ mounted' = TRUE
        /\ UNCHANGED <<disk, texts, call, posted, observed, unloads, holds>>

(* A process outside the program writes the file or removes it.            *)
Outside ==
    /\ \/ texts < MaxTexts /\ texts' = texts + 1 /\ disk' = texts'
       \/ disk # Absent /\ disk' = Absent /\ UNCHANGED texts
    /\ call' = [call EXCEPT !.raced = call.at # "none" /\ call.at # "stat" /\ call.tool # "read"]
    /\ Changed(call.by, "no")
    /\ UNCHANGED <<posted, observed, mounted, unloads>>

Next ==
    \/ \E c \in Callers, tool \in {"read", "write", "edit"} : Begin(c, tool)
    \/ Guard \/ Data \/ Store \/ Stat \/ Record \/ Unload \/ Load \/ Outside

Spec == Init /\ [][Next]_vars

(***************************************************************************)
(* With the policy mounted, no call overwrites a text its session has not  *)
(* read or written itself, however the sessions and the outside processes  *)
(* alternate; unless the file changed while a call was between two of its  *)
(* own system calls.  And nobody is refused who has the file's text, its   *)
(* observation having arrived (fs_observation_policy.cpp:44-69,            *)
(* coreutil.cpp:411-427, 468-481).                                         *)
(***************************************************************************)
Overwrites == call.at = "store" /\ call'.at # "store" /\ disk' # disk
Refuses == call.at = "guard" /\ call'.at = "none"
Pending(c) == \E k \in DOMAIN posted : posted[k].owner = c

NothingUnseenLost == 
    /\ Overwrites /\ call.guarded /\ ~call.raced =>
           disk = Absent \/ holds[call.by] # "no"
    /\ Refuses /\ call.by # Direct /\ unloads = 0 =>
           holds[call.by] # "text" \/ Pending(call.by)

(* And what it takes for it to stay so.  Who is on record with the version *)
(* on disk, or about to be, has got something of the file; who has its     *)
(* text is on record with it unless that is still to be reported; and a    *)
(* call admitted, which nobody interferes with, is one of these.           *)
Versions == 0..texts \cup {Unseen, Blank}
Types ==
    /\ texts \in 1..MaxTexts /\ disk \in 0..texts
    /\ call \in [at : {"none", "guard", "data", "store", "stat"}, by : Callers, tool : {"read", "write", "edit"},
                 existed : BOOLEAN, guarded : BOOLEAN, raced : BOOLEAN]
    /\ posted \in Seq([owner : Callers, version : Versions])
    /\ observed \in [Owners -> Versions]
    /\ mounted \in BOOLEAN /\ unloads \in Nat
    /\ holds \in [Callers -> {"no", "text", "version"}]
Got ==
    /\ disk = Absent => \A c \in Callers : holds[c] = "no"
    /\ disk # Absent =>
          /\ \A o \in Owners : observed[o] = disk => holds[o] # "no"
          /\ \A k \in DOMAIN posted : posted[k].version = disk => holds[posted[k].owner] # "no"
Newest(c, version) ==
    \E k \in DOMAIN posted :
        posted[k] = [owner |-> c, version |-> version] /\ \A n \in DOMAIN posted : n > k => posted[n].owner # c
Reported ==
    unloads = 0 =>
       /\ mounted
       /\ \A o \in Owners \ {Direct} : holds[o] = "text" =>
             \/ call.at = "stat" /\ call.by = o
             \/ Newest(o, disk)
             \/ ~Pending(o) /\ observed[o] = disk
Admitted ==
    /\ call.tool = "read" => ~call.guarded /\ call.at # "guard"
    /\ ~call.raced =>
          /\ call.at = "guard" /\ call.tool = "write" /\ ~call.existed => disk = Absent
          /\ call.at \in {"data", "store"} /\ call.guarded => disk = Absent \/ holds[call.by] # "no"
Inv == Types /\ Got /\ Reported /\ Admitted
==============================================================================
