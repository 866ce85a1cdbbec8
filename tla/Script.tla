-------------------------------- MODULE Script --------------------------------
(***************************************************************************)
(* A script run without a terminal (run_main.cpp): its lines are executed  *)
(* one after the other, and the answers to the model's questions           *)
(* (tool_ask_user.cpp, user_questions.cpp, app_core.cpp) are read from the *)
(* same lines.                                                             *)
(***************************************************************************)
EXTENDS Integers, SequencesExt, FiniteSetsExt

CONSTANTS
    Scripts,       \* what the script may be: sequences of lines
    Files,         \* [name -> the lines of a file that may be included]
    Requests,      \* what the model may ask: sequences of [id, options]
    MaxDepth,      \* max_source_depth
    MaxAsks        \* bound: the questions asked

(* A line has a text and says what to do; blank ones have no text.         *)
VARIABLES
    script, next,  \* the lines, and the first that is not read yet
    agenda,        \* what is left to do of the line read last, innermost first
    quitting,
    answerers,     \* whether the user-questions service in place has one
    answered,      \* history: the lines that were read as answers
    ran,           \* history: the commands dispatched
    said,          \* the last answer: what was asked, the line that was read, the result
    asks

vars == <<script, next, agenda, quitting, answerers, answered, ran, said, asks>>

Unasked == [asked |-> << >>, line |-> "", result |-> << >>]
Init ==
    /\ script \in Scripts /\ next = 1 /\ agenda = << >> /\ quitting = FALSE /\ answerers = TRUE
    /\ answered = {} /\ ran = << >> /\ said = Unasked /\ asks = 0

Untold == UNCHANGED <<script, answerers, answered, said, asks>>

(* The loop of run(); the end of the script is a quit.                     *)
ReadLine ==
    /\ agenda = << >> /\ ~quitting
    /\ IF next <= Len(script) THEN /\ agenda' = <<[kind |-> "line", line |-> script[next], depth |-> 0]>>
                                   /\ next' = next + 1 /\ UNCHANGED quitting
       ELSE quitting' = TRUE /\ UNCHANGED <<agenda, next>>
    /\ UNCHANGED ran /\ Untold

(* exec_line().                                                            *)
SourceAt(file, depth) == depth <= MaxDepth /\ file \in DOMAIN Files
Exec(item, rest) ==
    LET line == item.line
    IN  /\ quitting' = (quitting \/ line.does = "quit")
        /\ ran' = IF line.does = "run" THEN Append(ran, line.text) ELSE ran
        /\ agenda' =
             CASE line.does = "repeat" ->
                      <<[kind |-> "repeat", left |-> line.times, line |-> line.what, depth |-> item.depth]>> \o rest
               [] line.does = "source" /\ SourceAt(line.file, item.depth + 1) ->
                      <<[kind |-> "file", lines |-> Files[line.file], depth |-> item.depth + 1]>> \o rest
               [] OTHER -> rest

(* The loops of repeat and of source_file().                               *)
Again(item, rest) ==
    /\ agenda' = IF quitting \/ item.left = 0 THEN rest
                 ELSE <<[kind |-> "line", line |-> item.line, depth |-> item.depth],
                        [item EXCEPT !.left = @ - 1]>> \o rest
    /\ UNCHANGED <<quitting, ran>>
Included(item, rest) ==
    /\ agenda' = IF quitting \/ item.lines = << >> THEN rest
                 ELSE <<[kind |-> "line", line |-> Head(item.lines), depth |-> item.depth],
                        [item EXCEPT !.lines = Tail(@)]>> \o rest
    /\ UNCHANGED <<quitting, ran>>
Step ==
    /\ agenda # << >>
    /\ LET item == Head(agenda) rest == Tail(agenda)
       IN  \/ item.kind = "line" /\ Exec(item, rest)
           \/ item.kind = "repeat" /\ Again(item, rest)
           \/ item.kind = "file" /\ Included(item, rest)
    /\ UNCHANGED next /\ Untold

(* ask_user_question, while a command runs or in the background: the line  *)
(* after the one that was read last answers all the questions of the call, *)
(* as the option it names exactly or as text.                              *)
Chosen(question, text) ==
    IF text = "" THEN [id |-> question.id, selected |-> {}, custom |-> ""]
    ELSE IF text \in question.options THEN [id |-> question.id, selected |-> {text}, custom |-> ""]
    ELSE [id |-> question.id, selected |-> {}, custom |-> text]
Ask(request) ==
    /\ ~quitting /\ asks < MaxAsks /\ asks' = asks + 1
    /\ IF answerers /\ request # << >>
       THEN LET text == IF next <= Len(script) THEN script[next].text ELSE ""
            IN  /\ said' = [asked |-> request, line |-> text, result |-> [i \in DOMAIN request |-> Chosen(request[i], text)]]
                /\ next' = Min({next + 1, Len(script) + 1})
                /\ answered' = answered \cup ({next} \cap DOMAIN script)
       ELSE said' = Unasked /\ UNCHANGED <<next, answered>>
    /\ UNCHANGED <<script, agenda, quitting, answerers, ran>>

(* user-questions is loaded anew: the answerer was registered at boot, with*)
(* the service that was there.                                             *)
ReloadQuestions ==
    /\ answerers /\ ~quitting /\ answerers' = FALSE
    /\ UNCHANGED <<script, next, agenda, quitting, answered, ran, said, asks>>

Next == ReadLine \/ Step \/ (\E request \in Requests : Ask(request)) \/ ReloadQuestions
Spec == Init /\ [][Next]_vars

-----------------------------------------------------------------------------
(* Reference: the commands a line stands for, at a depth of inclusion.     *)
Expanded[depth \in 0..MaxDepth] ==
    LET Simple(line) ==
            CASE line.does \in {"run", "quit"} -> <<line>>
              [] line.does = "source" /\ SourceAt(line.file, depth + 1) ->
                    FlattenSeq([i \in DOMAIN Files[line.file] |-> Expanded[depth + 1][Files[line.file][i]]])
              [] OTHER -> << >>
        Lines == UNION {ToSet(Files[f]) : f \in DOMAIN Files} \cup ToSet(script)
    IN  [line \in Lines |-> IF line.does = "repeat" THEN FlattenSeq([i \in 1..line.times |-> Simple(line.what)]) ELSE Simple(line)]
Meant ==
    LET kept == SelectSeq([i \in DOMAIN script |-> i], LAMBDA i : i \notin answered)
        all == FlattenSeq([k \in DOMAIN kept |-> Expanded[0][script[kept[k]]]])
        quits == {i \in DOMAIN all : all[i].does = "quit"}
        upto == IF quits = {} THEN Len(all) ELSE Min(quits) - 1
    IN  [i \in 1..upto |-> all[i].text]

(***************************************************************************)
(* A script that has ended has run what its lines stand for, without those *)
(* that were read as answers, whenever the questions came: each as often   *)
(* as it is repeated, an included file where it is included and as deep as *)
(* is allowed, and nothing after a quit, however deep.  Every question got *)
(* an answer of its own, an option it has or the line itself.              *)
(***************************************************************************)
Performed ==
    /\ quitting /\ agenda = << >> => ran = Meant
    /\ \A i \in DOMAIN said.asked :
          /\ said.result[i].id = said.asked[i].id /\ said.result[i].selected \subseteq said.asked[i].options
          /\ said.line # "" => (said.result[i].selected \cup {said.result[i].custom}) \ {""} = {said.line}
===============================================================================
