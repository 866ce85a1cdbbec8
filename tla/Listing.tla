------------------------------- MODULE Listing -------------------------------
(***************************************************************************)
(* What the model is told about the files: glob, grep and the pages of     *)
(* read, over a directory that changes between the calls                   *)
(* (plugins/coreutil/src/coreutil.cpp).  A path is a sequence of           *)
(* characters, of which "/" is one; a line is "hit" or "miss", for the     *)
(* pattern grep is asked for.                                              *)
(***************************************************************************)
EXTENDS Naturals, Sequences, FiniteSets, SequencesExt, FiniteSetsExt

CONSTANTS
    Paths,      \* the paths there may be files at, relative to the root
    Ignored,    \* SUBSET Paths: those ripgrep does not search
    Patterns,   \* glob patterns: sequences of sets of options, a set of one without braces
    Contents,   \* what a file may hold: sequences of lines
    GlobMax, GrepMax, Limit,   \* glob_max, grep_max, the lines of a page of read
    Output,     \* lines of ripgrep's output that are kept
    MaxWork     \* bound: changes and calls

VARIABLES
    files,      \* [path -> [age, lines]]
    rg,         \* whether ripgrep is there
    answer,     \* the last answer
    page,       \* a read going on: [path, next, got, same, total]
    work
vars == <<files, rg, answer, page, work>>

-----------------------------------------------------------------------------
(* expand_braces(): every choice of the options.                           *)
Expanded(p) == FoldLeft(LAMBDA out, options : {o \o w : o \in out, w \in options}, {<< >>}, p)
(* glob_fragment_to_regex(), regex_match(): whether p from its i-th token  *)
(* matches t from its j-th character.                                      *)
Has(p, i, c) == i <= Len(p) /\ p[i] = c
GlobMatch(p, t) ==
    LET from[i \in 1..(Len(p) + 1), j \in 1..(Len(t) + 1)] ==
        LET tails == j..(Len(t) + 1)
        IN  IF i > Len(p) THEN j > Len(t)
            ELSE IF Has(p, i, "*") /\ Has(p, i + 1, "*") /\ Has(p, i + 2, "/")
                 THEN from[i + 3, j] \/ \E k \in tails : Has(t, k, "/") /\ from[i + 3, k + 1]
            ELSE IF Has(p, i, "*") /\ Has(p, i + 1, "*") THEN \E k \in tails : from[i + 2, k]
            ELSE IF Has(p, i, "*")
                 THEN \E k \in tails : (\A l \in j..(k - 1) : ~Has(t, l, "/")) /\ from[i + 1, k]
            ELSE /\ IF Has(p, i, "?") THEN j <= Len(t) /\ ~Has(t, j, "/") ELSE Has(t, j, p[i])
                 /\ from[i + 1, j + 1]
    IN  from[1, 1]
Matches(p, t) == \E q \in Expanded(p) : GlobMatch(q, t)

(* collect_files(): not what is under a directory of a version control     *)
(* system, "g" here.                                                       *)
Slashes(path) == {i \in DOMAIN path : path[i] = "/"}
Vcs(path) == \E i \in Slashes(path) : i > 1 /\ path[i - 1] = "g" /\ (i = 2 \/ path[i - 2] = "/")
Collected == {p \in DOMAIN files : ~Vcs(p)}
Basename(path) == SubSeq(path, Max({0} \cup Slashes(path)) + 1, Len(path))

Works == work < MaxWork /\ work' = work + 1
NoPage == [path |-> << >>, next |-> 1, got |-> << >>, same |-> TRUE, total |-> 0]
Init ==
    /\ files = << >> /\ rg \in BOOLEAN /\ page = NoPage /\ work = 0
    /\ answer = [kind |-> "none", of |-> << >>, shown |-> << >>, total |-> 0, capped |-> FALSE, full |-> << >>]

Age == Max({0} \cup {files[p].age : p \in DOMAIN files}) + 1
Edit(p, lines) ==
    /\ Works /\ files' = [q \in DOMAIN files \cup {p} |-> IF q = p THEN [age |-> Age, lines |-> lines] ELSE files[q]]
    /\ page' = [page EXCEPT !.same = @ /\ page.path # p] /\ UNCHANGED <<rg, answer>>
Delete(p) ==
    /\ Works /\ files' = [q \in DOMAIN files \ {p} |-> files[q]]
    /\ page' = [page EXCEPT !.same = @ /\ page.path # p] /\ UNCHANGED <<rg, answer>>

(* handle_glob: the newest first; everything in a file if they are more.   *)
Take(s, n) == SubSeq(s, 1, Min({n, Len(s)}))
Glob(p) ==
    LET named == {f \in Collected : Matches(p, IF \E q \in Expanded(p) : "/" \in ToSet(q) THEN f ELSE Basename(f))}
        sorted == SetToSortSeq(named, LAMBDA f, g : files[f].age > files[g].age)
    IN  /\ Works /\ UNCHANGED <<files, rg, page>>
        /\ answer' = [kind |-> "glob", of |-> p, shown |-> Take(sorted, GlobMax), total |-> Len(sorted),
                      capped |-> Len(sorted) > GlobMax, full |-> IF Len(sorted) > GlobMax THEN sorted ELSE << >>]

(* handle_grep: file by file in any order.  Ripgrep's output is cut; a     *)
(* match that is not shown is counted; the file with the complete result   *)
(* is ripgrep's output, or what is shown of the native matcher's.          *)
Hits(f) == LET ns == {n \in DOMAIN files[f].lines : files[f].lines[n] = "hit"}
           IN  [k \in 1..Cardinality(ns) |-> <<f, SetToSortSeq(ns, <)[k]>>]
Searched == IF rg THEN DOMAIN files \ Ignored ELSE Collected
ShownLate(found) == Take(found, GrepMax + 1)
Shown(found) == Take(found, GrepMax)
Grep ==
    \E order \in SetToSeqs(Searched) :
        LET all == FoldLeft(LAMBDA out, f : out \o Hits(f), << >>, order)
            found == IF rg THEN Take(all, Output) ELSE all
            capped == Len(found) > GrepMax \/ Len(all) > Len(found)
        IN  /\ Works /\ UNCHANGED <<files, rg, page>>
            /\ answer' = [kind |-> "grep", of |-> << >>, shown |-> Shown(found), total |-> Len(found), capped |-> capped,
                          full |-> IF ~capped THEN << >> ELSE IF rg THEN found ELSE Shown(found)]

(* handle_read: a page, and where the next one starts.                     *)
Read(p) ==
    /\ Works /\ p \in DOMAIN files /\ UNCHANGED <<files, rg>>
    /\ LET now == IF page.path = p THEN page ELSE [NoPage EXCEPT !.path = p]
           lines == files[p].lines
           end == Min({Len(lines), now.next - 1 + Limit})
       IN  /\ page' = IF end < Len(lines)
                      THEN [now EXCEPT !.next = end + 1, !.got = @ \o SubSeq(lines, now.next, end)] ELSE NoPage
           /\ answer' = [kind |-> "read", of |-> p, shown |-> SubSeq(lines, now.next, end), total |-> Len(lines),
                         capped |-> end < Len(lines), full |-> IF now.same THEN now.got \o SubSeq(lines, now.next, end) ELSE << >>]

Next ==
    \/ \E p \in Paths : (\E lines \in Contents : Edit(p, lines)) \/ (p \in DOMAIN files /\ Delete(p)) \/ Read(p)
    \/ \E p \in Patterns : Glob(p)
    \/ Grep
Spec == Init /\ [][Next]_vars

-----------------------------------------------------------------------------
(***************************************************************************)
(* Reference: a pattern by its segments.  "**" between slashes stands for  *)
(* any directories, a segment for one name.                                *)
(***************************************************************************)
Segments(s) ==
    LET cuts == SetToSortSeq(Slashes(s) \cup {0, Len(s) + 1}, <)
    IN  [k \in 1..(Len(cuts) - 1) |-> SubSeq(s, cuts[k] + 1, cuts[k + 1] - 1)]
Covers(seg, name) ==
    \E at \in [1..(Len(seg) + 1) -> 1..(Len(name) + 1)] :
        /\ at[1] = 1 /\ at[Len(seg) + 1] = Len(name) + 1
        /\ \A i \in DOMAIN seg : IF seg[i] = "*" THEN at[i] <= at[i + 1]
                                 ELSE at[i + 1] = at[i] + 1 /\ seg[i] \in {"?", name[at[i]]}
Names(segs, names) ==
    \E at \in [1..(Len(segs) + 1) -> 1..(Len(names) + 1)] :
        /\ at[1] = 1 /\ at[Len(segs) + 1] = Len(names) + 1
        /\ \A i \in DOMAIN segs : IF segs[i] = <<"*", "*">> THEN at[i] <= at[i + 1] /\ (i = Len(segs) => at[i] < at[i + 1])
                                  ELSE at[i + 1] = at[i] + 1 /\ Covers(segs[i], names[at[i]])
Meant(p, f) ==
    \E q \in Expanded(p) :
        IF \E r \in Expanded(p) : Slashes(r) # {} THEN Names(Segments(q), Segments(f)) ELSE Covers(q, Last(Segments(f)))

(***************************************************************************)
(* Whatever changes between the calls, an answer is of the files as they   *)
(* are, and what it leaves out it says: a glob gives the newest of the     *)
(* paths meant, and all of them in its file; a grep gives real matches,    *)
(* each once, and says when they are not all; the pages of a file that     *)
(* stays as it is add up to the file.  The native matcher's file has only  *)
(* what was shown, and a cut output is not complete (handle_glob,          *)
(* handle_grep, handle_read).                                              *)
(***************************************************************************)
AllHits == UNION {{f} \X {n \in DOMAIN files[f].lines : files[f].lines[n] = "hit"} : f \in Searched}
Told == work' # work /\ files' = files =>
    /\ answer'.kind = "glob" =>
          LET meant == {f \in Collected : Meant(answer'.of, f)}
          IN  /\ answer'.total = Cardinality(meant) /\ Len(answer'.shown) = Min({GlobMax, Cardinality(meant)})
              /\ \A k \in DOMAIN answer'.shown : \A f \in meant :
                    files[f].age > files[answer'.shown[k]].age => \E l \in 1..(k - 1) : answer'.shown[l] = f
              /\ answer'.capped => ToSet(answer'.full) = meant
    /\ answer'.kind = "grep" =>
          /\ ToSet(answer'.shown) \subseteq AllHits /\ IsInjective(answer'.shown) /\ Len(answer'.shown) <= GrepMax
          /\ ~answer'.capped => ToSet(answer'.shown) = AllHits
          /\ answer'.capped /\ rg /\ Cardinality(AllHits) <= Output => ToSet(answer'.full) = AllHits
    /\ answer'.kind = "read" /\ ~answer'.capped /\ answer'.full # << >> => answer'.full = files[answer'.of].lines
==============================================================================
