--------------------------------- MODULE Parts ---------------------------------
(***************************************************************************)
(* Parts that share no state, side by side: a behaviour is one of a single *)
(* part, whose variables are the first of r1, r2, ..., or of the cleanup   *)
(* stack, which keeps its own.  These are the parts PartsProofs is about.  *)
(***************************************************************************)
EXTENDS Effects

CONSTANTS
    JobIds, Sessions, Unowned, Waiters, Limit, MaxUnloads,      \* Jobs
    Queries, MayClose,                                          \* LspPool
    Offered, Capture, MaxSteps, MaxCalls, MaxTurns, MaxChanges, \* OneShot
    Nil,                                                        \* none of them, below
    Owners, Direct, MaxTexts, MaxPosted,                        \* FileGuard
    SessionIds, Persisted, Phrases, MaxLog, MaxGen, MaxCrashes, \* SessionIndex
    ListSessions, Lists, MaxListLog, MaxListWork,               \* Projection
    Places, Files, SkillNames, MaxEdits,                        \* Skill
    BlockedAfter, MaxRounds, MaxGoals, MaxRevision, MaxGoalWork \* GoalTool

VARIABLES
    part,   \* which part this behaviour is one of
    \* and its variables, in the order it declares them
    r1, r2, r3, r4, r5, r6, r7, r8, r9, r10, r11, r12, r13, r14, r15, r16, r17, r18, r19
registers == <<r1, r2, r3, r4, r5, r6, r7, r8, r9, r10, r11, r12, r13, r14, r15, r16, r17, r18, r19>>

J == INSTANCE Jobs WITH
         sessions <- r1, mounted <- r2, attached <- r3, unloads <- r4, store <- r5, owner <- r6, status <- r7,
         reported <- r8, tokens <- r9, wait <- r10, target <- r11, proc <- r12, child <- r13, asked <- r14,
         killed <- r15, posted <- r16, noticed <- r17, told <- r18, unheard <- r19
L == INSTANCE LspPool WITH
         closed <- r1, pool <- r2, made <- r3, ready <- r4, disposed <- r5, failed <- r6, server <- r7,
         behind <- r8, locked <- r9, waiters <- r10, at <- r11, on <- r12, retried <- r13, bad <- r14
O == INSTANCE OneShot WITH
         Tools <- Offered,
         tools <- r1, denied <- r2, scoped <- r3, filter <- r4, at <- r5, batch <- r6, doing <- r7, log <- r8,
         value <- r9, concluded <- r10, stop <- r11, steps <- r12, turns <- r13, changes <- r14, answer <- r15
F == INSTANCE FileGuard WITH
         disk <- r1, texts <- r2, call <- r3, posted <- r4, observed <- r5, mounted <- r6, unloads <- r7,
         holds <- r8
I == INSTANCE SessionIndex WITH
         Ids <- SessionIds, Texts <- Phrases, None <- Nil,
         live <- r1, log <- r2, disk <- r3, stamp <- r4, torn <- r5, file <- r6, rows <- r7, gen <- r8,
         opened <- r9, mem <- r10, cursor <- r11, crashes <- r12, lost <- r13, failed <- r14
X == INSTANCE Projection WITH
         Sessions <- ListSessions, MaxLog <- MaxListLog, MaxWork <- MaxListWork,
         logs <- r1, next_seq <- r2, kept <- r3, parallel <- r4, registered <- r5, cells <- r6, early <- r7,
         work <- r8
U == INSTANCE Skill WITH
         Names <- SkillNames, NoFile <- Nil, MaxWork <- MaxEdits,
         disk <- r1, surface <- r2, told <- r3, call <- r4, result <- r5, work <- r6
V == INSTANCE GoalTool WITH
         MaxWork <- MaxGoalWork,
         log <- r1, skipped <- r2, opened <- r3, root <- r4, goal <- r5, armed <- r6, heard <- r7, work <- r8

(* There are jobs, finitely many callers of a server, texts to write and   *)
(* ranks to search in; what stands for nothing is nothing else.            *)
ASSUME PartsAssumption ==
    /\ JobIds # {} /\ IsFiniteSet(Queries)
    /\ MaxTexts \in Nat \ {0} /\ Places \subseteq Nat /\ MaxRounds \in Nat
    /\ Nil \notin I!Rows /\ Nil \notin [name : SkillNames, listed : U!Disks]

(* What a part leaves unused stays 0.                                      *)
From17 == r17 = 0 /\ r18 = 0 /\ r19 = 0
From16 == r16 = 0 /\ From17
From15 == r15 = 0 /\ From16
From13 == r13 = 0 /\ r14 = 0 /\ From15
From11 == r11 = 0 /\ r12 = 0 /\ From13
From10 == r10 = 0 /\ From11
From9 == r9 = 0 /\ From10
From7 == r7 = 0 /\ r8 = 0 /\ From9
From6 == r6 = 0 /\ From7
From4 == r4 = 0 /\ r5 = 0 /\ From6
Rest17 == <<r17, r18, r19>>
Rest16 == <<r16, Rest17>>
Rest15 == <<r15, Rest16>>
Rest13 == <<r13, r14, Rest15>>
Rest11 == <<r11, r12, Rest13>>
Rest10 == <<r10, Rest11>>
Rest9 == <<r9, Rest10>>
Rest7 == <<r7, r8, Rest9>>
Rest6 == <<r6, Rest7>>
Rest4 == <<r4, r5, Rest6>>

allVars == <<part, registers, vars>>
PartsInit ==
    /\ Init
    /\ \/ part = "jobs" /\ J!Init
       \/ part = "lsp" /\ L!Init /\ From15
       \/ part = "oneshot" /\ O!Init /\ From16
       \/ part = "files" /\ F!Init /\ From9
       \/ part = "index" /\ I!Init /\ From15
       \/ part = "todos" /\ X!Init /\ From9
       \/ part = "skills" /\ U!Init /\ From7
       \/ part = "goals" /\ V!Init /\ From9
       \/ part = "effects" /\ r1 = 0 /\ r2 = 0 /\ r3 = 0 /\ From4
PartsNext ==
    /\ part' = part
    /\ \/ part = "jobs" /\ J!Next /\ UNCHANGED vars
       \/ part = "lsp" /\ L!Next /\ UNCHANGED <<Rest15, vars>>
       \/ part = "oneshot" /\ O!Next /\ UNCHANGED <<Rest16, vars>>
       \/ part = "files" /\ F!Next /\ UNCHANGED <<Rest9, vars>>
       \/ part = "index" /\ I!Next /\ UNCHANGED <<Rest15, vars>>
       \/ part = "todos" /\ X!Next /\ UNCHANGED <<Rest9, vars>>
       \/ part = "skills" /\ U!Next /\ UNCHANGED <<Rest7, vars>>
       \/ part = "goals" /\ V!Next /\ UNCHANGED <<Rest9, vars>>
       \/ part = "effects" /\ Next /\ UNCHANGED registers
PartsSpec == PartsInit /\ [][PartsNext]_allVars

----------------------------------------------------------------------------
(* The end of a job is told once to whom it concerns (jobs.cpp).           *)
Informed == part = "jobs" => J!Informed

(* The lock of an LSP instance passes on and is never held by two          *)
(* (instance.cpp, provider.cpp).                                           *)
LockPassed == part = "lsp" => L!LockPassed

(* A structured result is the one the child submitted and was told was     *)
(* taken (tools.cpp, subagents.cpp).                                       *)
Authoritative == part = "oneshot" => O!Authoritative

(***************************************************************************)
(* What is served from a stored or folded copy is what the log says, after *)
(* a crash, a rebuild and a reload too (sqlite.cpp, store.cpp).            *)
(***************************************************************************)
Current == [][(part = "index" => I!IndexCurrent) /\ (part = "todos" => X!Current')]_allVars

(* No edit replaces content of a file that the session has not read        *)
(* (coreutil.cpp, fs_observation_policy.cpp).                              *)
NothingUnseenLost == [][part = "files" => F!NothingUnseenLost]_allVars

(* What the model may use or change is what its turn entitles it to        *)
(* (skill.cpp, tool_goal.cpp).                                             *)
Entitled == [][(part = "skills" => U!Entitled) /\ (part = "goals" => V!Entitled)]_allVars
===============================================================================
