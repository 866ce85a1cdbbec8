-------------------------------- MODULE Web --------------------------------
(***************************************************************************)
(* What a model is given of the web (web.cpp, tool_web.cpp): a page as it  *)
(* arrives in pieces, cut at a size and stripped of its markup, and the    *)
(* sources of several searches merged into one list.                       *)
(***************************************************************************)
EXTENDS Integers, SequencesExt, FiniteSetsExt

CONSTANTS
    Pieces,        \* what one read may bring: sequences of tokens
    Caps,          \* what fetch_max_bytes may be
    ErrorMax,      \* what the HTTP client keeps of an error's body
    Sources,       \* what one search may give: sequences of URLs, 0 for an entry without
    Asked,         \* what a call may ask for: sequences of queries
    MaxQueries, MaxResults,
    MaxPieces      \* bound: the reads of one answer

VARIABLES
    provider,      \* whether a search endpoint is configured
    call,          \* the call under way
    page,          \* what the server has sent for it
    body, cut,     \* what was kept of that, and whether some was not
    answer         \* of the call before

vars == <<provider, call, page, body, cut, answer>>

Nothing == [kind |-> "none"]
Error == [kind |-> "error"]
Init ==
    /\ provider \in BOOLEAN /\ call = Nothing /\ page = << >> /\ body = << >> /\ cut = FALSE
    /\ answer = Nothing

(* strip_html(), by tokens: "<b" stands for any tag, "<script" for a       *)
(* script or a style, ";" and ">" are text where nothing is open, and an   *)
(* entity's name that is not known comes to nothing.  A "&" that no entity *)
(* follows takes the character after it with it, markup or not.            *)
Words == {"w", "amp"}
Decoded(entity) == IF entity = <<"amp">> THEN <<"&">> ELSE << >>
Scan(at, c) ==
    CASE at.mode = "script" -> IF c = "</script" THEN [at EXCEPT !.mode = "tag"] ELSE at
      [] at.mode = "entity" /\ c = ";" -> [mode |-> "text", entity |-> << >>, out |-> at.out \o Decoded(at.entity)]
      [] at.mode = "entity" /\ c \in Words -> [at EXCEPT !.entity = Append(@, c)]
      [] at.mode = "entity" /\ c \notin Words \cup {";"} ->
            [mode |-> "text", entity |-> << >>, out |-> at.out \o <<"&">> \o at.entity \o <<c>>]
      [] at.mode = "tag" -> IF c = ">" THEN [at EXCEPT !.mode = "text"] ELSE at
      [] at.mode = "text" /\ c \in {"<b", "<script", "</script"} ->
            [at EXCEPT !.mode = IF c = "<script" THEN "script" ELSE "tag", !.out = Append(@, " ")]
      [] at.mode = "text" /\ c = "&" -> [at EXCEPT !.mode = "entity"]
      [] OTHER -> [at EXCEPT !.out = Append(@, c)]
Collapsed(out) ==
    LET Add(kept, c) ==
            IF c = " " THEN [kept EXCEPT !.pending = TRUE]
            ELSE [pending |-> FALSE,
                  text |-> (IF kept.pending /\ kept.text # << >> THEN Append(kept.text, " ") ELSE kept.text) \o <<c>>]
    IN  FoldLeft(Add, [pending |-> FALSE, text |-> << >>], out).text
Stripped(html) == Collapsed(FoldLeft(Scan, [mode |-> "text", entity |-> << >>, out |-> << >>], html).out)

(* What is kept of a piece, below the cap and at it.                       *)
Cut(piece, cap) == cut \/ Len(piece) > cap - Len(body)
Kept(piece, cap) == body \o SubSeq(piece, 1, Min({Len(piece), cap - Len(body)}))

Fetch ==
    /\ call.kind = "none" /\ UNCHANGED provider
    /\ \E cap \in Caps, ok, html \in BOOLEAN : call' = [kind |-> "fetch", cap |-> cap, ok |-> ok, html |-> html]
    /\ page' = << >> /\ body' = << >> /\ cut' = FALSE /\ answer' = Nothing
Arrives(piece) ==
    /\ call.kind = "fetch" /\ Len(page) < MaxPieces
    /\ page' = Append(page, piece)
    /\ body' = Kept(piece, IF call.ok THEN call.cap ELSE ErrorMax)
    /\ cut' = (call.ok /\ Cut(piece, call.cap))
    /\ UNCHANGED <<provider, call, answer>>
Over == call' = Nothing /\ page' = << >> /\ body' = << >> /\ cut' = FALSE /\ UNCHANGED provider
Fetched ==
    /\ call.kind = "fetch"
    /\ LET raw == IF call.ok THEN body ELSE SubSeq(body, 1, Min({Len(body), call.cap}))
       IN  answer' = [kind |-> "page", text |-> IF call.html THEN Stripped(raw) ELSE raw,
                      truncated |-> IF call.ok THEN cut ELSE Len(body) > call.cap]
    /\ Over

(* Each query once, one after the other.                                   *)
Once(seq) == FoldLeft(LAMBDA done, q : IF Contains(done, q) THEN done ELSE Append(done, q), << >>, seq)
Search(queries) ==
    /\ call.kind = "none" /\ UNCHANGED provider
    /\ page' = << >> /\ body' = << >> /\ cut' = FALSE
    /\ IF queries = << >> \/ Len(queries) > MaxQueries \/ ~provider THEN call' = Nothing /\ answer' = Error
       ELSE call' = [kind |-> "search", left |-> Once(queries)] /\ answer' = Nothing

(* search() drops the entries without a URL and cuts the list; the tool    *)
(* drops what it has and what is over the limit.                           *)
Usable(found) == SelectSeq(found, LAMBDA url : url # 0)
Given(found) == SubSeq(Usable(found), 1, Min({Len(Usable(found)), MaxResults}))
Merged(found) == Once(body \o Given(found))
Answers(found) ==
    /\ call.kind = "search" /\ call.left # << >>
    /\ page' = Append(page, Usable(found))
    /\ body' = SubSeq(Merged(found), 1, Min({Len(Merged(found)), MaxResults}))
    /\ cut' = (cut \/ Len(Usable(found)) > MaxResults \/ Len(Merged(found)) > MaxResults)
    /\ call' = [call EXCEPT !.left = Tail(@)]
    /\ UNCHANGED <<provider, answer>>
Searched ==
    /\ call.kind = "search" /\ call.left = << >>
    /\ answer' = [kind |-> "sources", urls |-> body, truncated |-> cut]
    /\ Over

(* A timeout, a stop, a refusal, an answer that is too long or no JSON.    *)
Fails == call.kind # "none" /\ answer' = Error /\ Over

Next ==
    \/ Fetch \/ Fetched \/ Searched \/ Fails
    \/ \E piece \in Pieces : Arrives(piece)
    \/ \E queries \in Asked : Search(queries)
    \/ \E found \in Sources : Answers(found)
Spec == Init /\ [][Next]_vars

-----------------------------------------------------------------------------
(* Reference: a page whose "&" all begin an entity and whose tags hold no  *)
(* other shows what is in no tag and in no script.                         *)
Opens == {"<b", "<script", "</script"}
InTag(p, i) == \E j \in 1..i : p[j] \in Opens /\ \A k \in j..(i - 1) : p[k] # ">"
InScript(p, i) == \E j \in 1..i : p[j] = "<script" /\ \A k \in j..(i - 1) : p[k] # "</script"
Plain(p) ==
    /\ \A i \in DOMAIN p : p[i] = "&" => i + 2 <= Len(p) /\ p[i + 1] = "amp" /\ p[i + 2] = ";"
    /\ \A i \in DOMAIN p : p[i] \in Opens => ~\E j \in 1..(i - 1) : p[j] \in Opens /\ \A k \in j..(i - 1) : p[k] # ">"
Visible(p) ==
    LET at == SetToSortSeq({i \in DOMAIN p : ~InTag(p, i) /\ ~InScript(p, i) /\ p[i] # " " /\
                                              (i > 1 /\ p[i - 1] = "&" => p[i] # "amp") /\ (i > 2 /\ p[i - 2] = "&" => p[i] # ";")}, <)
    IN  [k \in DOMAIN at |-> p[at[k]]]

(***************************************************************************)
(* Whatever the pieces and wherever they are cut, the text given is the    *)
(* beginning of what the page shows, and all of it unless the model is     *)
(* told; the sources are ones that were found, each once, and all of them  *)
(* unless the model is told.  What the HTTP client cuts off an error of    *)
(* its own accord is not told (http.cpp:33).                               *)
(***************************************************************************)
Told ==
    /\ answer'.kind = "page" /\ call.kind = "fetch" =>
          LET all == FlattenSeq(page)
              shown == IF call.html THEN Visible(all) ELSE all
              text == IF call.html THEN SelectSeq(answer'.text, LAMBDA c : c # " ") ELSE answer'.text
          IN  (call.html => Plain(all)) =>
                /\ IsPrefix(text, shown)
                /\ call.ok \/ Len(all) <= ErrorMax => answer'.truncated \/ text = shown
    /\ answer'.kind = "sources" /\ call.kind = "search" =>
          LET found == ToSet(FlattenSeq(page))
          IN  /\ ToSet(answer'.urls) \subseteq found /\ IsInjective(answer'.urls) /\ Len(answer'.urls) <= MaxResults
              /\ answer'.truncated \/ ToSet(answer'.urls) = found
==============================================================================
