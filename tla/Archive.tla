-------------------------------- MODULE Archive --------------------------------
(***************************************************************************)
(* Taking a session away (src/plugins/session-log-export): a ZIP file of   *)
(* its log, its descendants' logs and the images they refer to, which      *)
(* tool-read-image puts into the attachment store.  The export changes     *)
(* nothing and is an operator on the state; the world has the actions.     *)
(***************************************************************************)
EXTENDS Relation, SequencesExt, FiniteSetsExt

CONSTANTS
    Ids,           \* sessions, 1..n in the order they are created
    Clean,         \* [Ids -> Nat]: an id with its odd characters replaced
    Pictures,      \* files, each its own content
    Format,        \* [Pictures -> the format its first bytes show, or "unknown"]
    Width,         \* of an offset field: numbers are taken modulo this
    MaxWork        \* bound: what happens

VARIABLES
    parent,        \* of each session created, 0 for a root
    log,           \* their events: [kind, picture]
    live,          \* those in the store
    stored,        \* [session -> events in its file], of those that have one
    media,         \* [Pictures -> "none", "whole" or "cut"]: the attachment store
    work

vars == <<parent, log, live, stored, media, work>>

Init ==
    /\ parent = << >> /\ log = << >> /\ live = {} /\ stored = << >>
    /\ media = [p \in Pictures |-> "none"] /\ work = 0

Works == work < MaxWork /\ work' = work + 1
Event(kind, p) == [kind |-> kind, picture |-> p]

Create(above) ==
    /\ Works /\ Len(parent) + 1 \in Ids
    /\ parent' = Append(parent, above) /\ log' = Append(log, << >>) /\ live' = live \cup {Len(parent) + 1}
    /\ UNCHANGED <<stored, media>>

(* A request's header names the model, and so whether it accepts images.   *)
Ask(s, kind) ==
    /\ Works /\ log' = [log EXCEPT ![s] = Append(@, Event(kind, 0))]
    /\ UNCHANGED <<parent, live, stored, media>>
LatestRoute(s) ==
    LET at == {i \in DOMAIN log[s] : log[s][i].kind \in {"capable", "incapable"}}
    IN  IF at = {} THEN "unresolved" ELSE log[s][Max(at)].kind

(* A file that exists under the content's name is taken for the content,   *)
(* and whether the write succeeded is not asked.                           *)
Saved(p, state) == IF media[p] = "none" THEN [media EXCEPT ![p] = state] ELSE media
ReadImage(s, p) ==
    /\ Works /\ LatestRoute(s) = "capable" /\ Format[p] # "unknown"
    /\ \E state \in {"whole", "cut"} : media' = Saved(p, state)
    /\ log' = [log EXCEPT ![s] = Append(@, Event("image", p))]
    /\ UNCHANGED <<parent, live, stored>>

Flush(s) ==
    /\ Works /\ stored' = [i \in DOMAIN stored \cup {s} |-> IF i = s THEN Len(log[s]) ELSE stored[i]]
    /\ UNCHANGED <<parent, log, live, media>>
Close(s) ==
    /\ Works /\ live' = live \ {s}
    /\ UNCHANGED <<parent, log, stored, media>>

Next ==
    \/ \E above \in 0..Len(parent) : Create(above)
    \/ \E s \in live : \/ \E kind \in {"capable", "incapable"} : Ask(s, kind)
                       \/ \E p \in Pictures : ReadImage(s, p)
                       \/ Flush(s) \/ Close(s)
Spec == Init /\ [][Next]_vars

----------------------------------------------------------------------------
(* load(): the store's log, or else the file's.                            *)
Known == live \cup DOMAIN stored
Loaded(s) == SubSeq(log[s], 1, IF s \in live THEN Len(log[s]) ELSE stored[s])

(* trace_session(): a session that is neither in the store nor on disk     *)
(* hides those below it.                                                   *)
Descendants(s) ==
    LET below == TransitiveClosure([e \in Known \X Known |-> parent[e[2]] = e[1]], Known)
    IN  {d \in Known : below[<<s, d>>]}

(* collect_images(): every picture once, with the format it was read as.   *)
Images(s) == {Loaded(s)[i].picture : i \in {i \in DOMAIN Loaded(s) : Loaded(s)[i].kind = "image"}}

(* serialize_log(): the header's line, then one for each event.            *)
Lines(s) == <<"header">> \o Loaded(s)
Entries(s) ==
    LET below == SetToSortSeq(Descendants(s), <)
        images == SetToSortSeq(UNION {Images(d) : d \in {s} \cup Descendants(s)}, <)
    IN  <<[name |-> <<"session">>, data |-> Lines(s)]>>
        \o [i \in DOMAIN below |-> [name |-> <<"subagents", Clean[below[i]]>>, data |-> Lines(below[i])]]
        \o [i \in DOMAIN images |->
               [name |-> <<"media", images[i], Format[images[i]]>>, data |-> <<media[images[i]]>>]]

(* zip_writer: each entry behind a header of its own, then a directory of  *)
(* where they are, in fields of fixed width.                               *)
LocalHeader(e) == [name |-> e.name, size |-> Len(e.data) % Width]
CentralHeader(e, at) == [name |-> e.name, size |-> Len(e.data) % Width, offset |-> at % Width]
Put(zip, e) ==
    [out |-> Append(zip.out, LocalHeader(e)) \o e.data,
     directory |-> Append(zip.directory, CentralHeader(e, Len(zip.out)))]
Zipped(entries) ==
    LET all == FoldLeft(Put, [out |-> << >>, directory |-> << >>], entries)
    IN  [file |-> all.out \o all.directory,
         start |-> Len(all.out) % Width, count |-> Len(all.directory) % Width]

(* What unpacking gives, by the directory: of two equal names the later.   *)
Unpacked(zip) ==
    LET listed == SubSeq(zip.file, zip.start + 1, zip.start + zip.count)
        names == {listed[i].name : i \in DOMAIN listed}
    IN  [n \in names |->
            LET e == listed[Max({i \in DOMAIN listed : listed[i].name = n})]
            IN  SubSeq(zip.file, e.offset + 2, e.offset + 1 + e.size)]

(* A session that can be read is exported whole: unless the file outgrows  *)
(* its fields, unpacking it gives the session's newest log, the newest log *)
(* of each descendant whose cleaned id no other has, and each image they   *)
(* refer to as it is in the attachment store.                              *)
Whole ==
    \A s \in Known :
        LET zip == Zipped(Entries(s))
            files == Unpacked(zip)
            newest == [d \in Known |-> IF d \in live THEN Len(log[d]) ELSE stored[d]]
            Holds(name, d) == name \in DOMAIN files /\ files[name] = <<"header">> \o SubSeq(log[d], 1, newest[d])
        IN  Len(zip.file) - zip.count < Width =>
                /\ Holds(<<"session">>, s)
                /\ \A d \in Descendants(s) :
                      \/ Holds(<<"subagents", Clean[d]>>, d)
                      \/ \E other \in Descendants(s) \ {d} : Clean[other] = Clean[d]
                /\ \A d \in {s} \cup Descendants(s) : \A i \in 1..newest[d] : log[d][i].kind = "image" =>
                      LET p == log[d][i].picture
                          name == <<"media", p, Format[p]>>
                      IN  name \in DOMAIN files /\ files[name] = <<media[p]>> /\ media[p] # "none"
===============================================================================
