--------------------------------- MODULE Skill ---------------------------------
(***************************************************************************)
(* The skill catalog and its loader (src/plugins/skill, tool-skill): a     *)
(* skill is a file under one of several roots, read anew at every listing; *)
(* the catalog is put before the model at a step when it differs from the  *)
(* last one there, and the model loads a skill by name.                    *)
(***************************************************************************)
EXTENDS Integers, SequencesExt

CONSTANTS
    Places,        \* where a skill file may lie: 1..n in the order of rank, root and directory
    Files,         \* what may be written there, sequences of [key, value] lines
    Names,         \* the well-formed skill names
    NoFile,
    MaxWork        \* bound: steps, edits and splices

VARIABLES
    disk,          \* [Places -> Files or NoFile]
    surface,       \* the catalogs on the session's surface, oldest first
    told,          \* the files as they were at the last step, or NoFile
    call,          \* the call in progress: [name, found] or NoFile
    result,        \* of the last call: Refused, or the text loaded
    work

vars == <<disk, surface, told, call, result, work>>

Refused == <<"refused">>

(* A file's lines: "---" opens and closes the header, the later of two     *)
(* equal keys counts, and one spelling of a flag that is not understood    *)
(* drops the skill.                                                        *)
Unparsed == [name |-> "", about |-> "", invocable |-> FALSE, text |-> << >>]
Parsed(file) ==
    LET closes == {i \in 2..Len(file) : file[i].key = "---"}
        header == 2..(Min(closes) - 1)
        Value(key, default) ==
            LET at == {i \in header : file[i].key = key} IN IF at = {} THEN default ELSE file[Max(at)].value
        flags == {file[i].value : i \in {j \in header : file[j].key = "disable-model-invocation"}}
    IN  IF \/ Len(file) < 2 \/ file[1].key # "---" \/ closes = {}
           \/ ~flags \subseteq {"yes", "no"}
           \/ Value("name", "") \notin Names \/ Value("description", "") = ""
        THEN Unparsed
        ELSE [name |-> Value("name", ""), about |-> Value("description", ""),
              invocable |-> Value("disable-model-invocation", "no") = "no",
              text |-> [i \in 1..(Len(file) - Max(header \cup {1}) - 1) |-> file[Max(header \cup {1}) + 1 + i].value]]

At(d, p) == IF d[p] = NoFile THEN Unparsed ELSE Parsed(d[p])

(* Of the files that bear a name the first wins, whatever it allows.       *)
Bearers(d, n) == {p \in Places : At(d, p).name = n}
Listed(d) == {n \in Names : Bearers(d, n) # {}}
Winner(d, n) == At(d, Min(Bearers(d, n)))

(* What the model is shown: the winners it may invoke.                     *)
Catalog(d) == {[name |-> n, about |-> Winner(d, n).about] : n \in {m \in Listed(d) : Winner(d, m).invocable}}

Init ==
    /\ disk \in [Places -> {NoFile} \cup Files] /\ Cardinality({p \in Places : disk[p] # NoFile}) <= 1
    /\ surface = << >> /\ told = NoFile /\ call = NoFile /\ result = << >> /\ work = 0

Busy == work < MaxWork /\ work' = work + 1

(* An empty catalog, or the one the model saw last, contributes nothing.   *)
Injected(s, c) == IF c = {} \/ (s # << >> /\ Last(s) = c) THEN s ELSE Append(s, c)

Step ==
    /\ Busy /\ call = NoFile
    /\ surface' = Injected(surface, Catalog(disk)) /\ told' = disk
    /\ UNCHANGED <<disk, call, result>>

(* The tool lists the skills, and refuses what the model may not invoke... *)
Ask(n) ==
    /\ told # NoFile /\ call = NoFile
    /\ IF n \in Listed(disk) /\ Winner(disk, n).invocable
       THEN call' = [name |-> n, listed |-> disk] /\ result' = << >>
       ELSE call' = call /\ result' = Refused
    /\ UNCHANGED <<disk, surface, told, work>>

(* ... then lists them again and reads the winner's file once more.        *)
Load ==
    /\ call # NoFile
    /\ call' = NoFile
    /\ result' = IF call.name \in Listed(disk) THEN Winner(disk, call.name).text ELSE Refused
    /\ UNCHANGED <<disk, surface, told, work>>

(* The files change at any time, and the last catalog may be spliced out   *)
(* of the surface between two turns.                                       *)
Edit ==
    /\ Busy
    /\ \E p \in Places, f \in Files \cup {NoFile} : f # disk[p] /\ disk' = [disk EXCEPT ![p] = f]
    /\ UNCHANGED <<surface, told, call, result>>
Splice ==
    /\ Busy /\ surface # << >> /\ call = NoFile
    /\ surface' = Front(surface) /\ told' = NoFile
    /\ UNCHANGED <<disk, call, result>>

Next == Step \/ (\E n \in Names : Ask(n)) \/ Load \/ Edit \/ Splice
Spec == Init /\ [][Next]_vars

(* While the files are as the last step found them, the model may load     *)
(* exactly what the last catalog before it names (unless nothing is left   *)
(* to show, when an older catalog stays), and it gets what it may invoke.  *)
Entitled ==
    /\ \A n \in Names : Ask(n) /\ disk = told /\ Catalog(disk) # {} =>
        ((call' # NoFile) <=> (n \in {s.name : s \in Last(surface)}))
    /\ Load /\ disk = call.listed =>
        \E p \in Places : At(disk, p).name = call.name /\ At(disk, p).invocable /\ result' = At(disk, p).text

(* And what it takes for it to stay so: the catalog before the model is    *)
(* the one of its last step, and a call in progress was allowed by the     *)
(* files its first listing found.                                          *)
Disks == [Places -> {NoFile} \cup Files]
Catalogs == {Catalog(d) : d \in Disks}
Inv ==
    /\ disk \in Disks /\ surface \in Seq(Catalogs)
    /\ told # NoFile /\ Catalog(told) # {} => surface # << >> /\ Last(surface) = Catalog(told)
    /\ call # NoFile => call.name \in Listed(call.listed) /\ Winner(call.listed, call.name).invocable
===============================================================================
