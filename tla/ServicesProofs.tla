---------------------------- MODULE ServicesProofs ----------------------------
(***************************************************************************)
(* Theorems about the services of MCServices, for every set of calls and   *)
(* streams and every width, cap and limit.  Each service has an inductive  *)
(* invariant of its own; a step is one service's, and leaves the rest.     *)
(***************************************************************************)
EXTENDS MCServices, SequenceTheorems, FiniteSetTheorems, TLAPS

(***************************************************************************)
(* The connection to a server                                              *)
(***************************************************************************)
McpTypeOK ==
    /\ tools \in Nat \ {0} /\ registered \in Nat /\ answer \in Nat /\ pipe \in Seq(Nat \cup {-1})
    /\ wake \in BOOLEAN /\ queued \in BOOLEAN /\ peer \in BOOLEAN /\ stale \in BOOLEAN /\ error \in BOOLEAN

(* A change the manager has still to hear of.                              *)
ToHear == M!Told \/ queued

(* An answer in the pipe is the server's present list, or a notification   *)
(* comes after it.                                                         *)
AnswersCurrent ==
    \A i \in DOMAIN pipe : pipe[i] > 0 => \/ pipe[i] = tools
                                          \/ \E j \in DOMAIN pipe : j > i /\ pipe[j] = M!Changed
AnswerCurrent == answer # 0 => answer = tools \/ ToHear
RegisteredCurrent == (mgr = "waiting" /\ ~stale /\ ~error) => registered = tools \/ ToHear
Signalled == queued => wake \/ ~peer

McpInv == McpTypeOK /\ AnswersCurrent /\ AnswerCurrent /\ RegisteredCurrent /\ Signalled

LEMMA McpSufficient == McpInv => M!ToolsFresh
BY DEF McpInv, McpTypeOK, RegisteredCurrent, Signalled, ToHear, M!ToolsFresh

LEMMA McpInitially == M!Init => McpInv
<1>1. ASSUME M!Init
      PROVE  /\ mgr = "connect" /\ pipe = <<>> /\ answer = 0 /\ tools = 1 /\ registered = 0
             /\ wake = FALSE /\ queued = FALSE /\ peer = FALSE /\ stale = FALSE /\ error = FALSE
  BY <1>1 DEF M!Init
<1> QED BY <1>1 DEF McpInv, McpTypeOK, AnswersCurrent, AnswerCurrent, RegisteredCurrent, Signalled

(* What Forget makes of the pipe: its answers are late, its notifications  *)
(* stay.                                                                   *)
LEMMA Forgotten ==
    ASSUME McpInv, M!Forget
    PROVE  /\ pipe' \in Seq(Nat \cup {-1}) /\ DOMAIN pipe' = DOMAIN pipe /\ answer' = 0
           /\ M!Told' = M!Told
           /\ \A i \in DOMAIN pipe' : ~(pipe'[i] > 0)
<1>1. pipe \in Seq(Nat \cup {-1})
  BY DEF McpInv, McpTypeOK
<1>2. pipe' = [i \in 1..Len(pipe) |-> IF pipe[i] = 0 THEN 0 ELSE -1] /\ answer' = 0 /\ DOMAIN pipe = 1..Len(pipe) /\ Len(pipe) \in Nat
  BY <1>1 DEF M!Forget, M!Changed, M!Late
<1>3. \A i \in 1..Len(pipe) : (IF pipe[i] = 0 THEN 0 ELSE -1) \in Nat \cup {-1}
  OBVIOUS
<1>4. pipe' \in Seq(Nat \cup {-1}) /\ DOMAIN pipe' = DOMAIN pipe
  BY <1>2, <1>3
<1>5. M!Told' = M!Told
  BY <1>2, <1>4 DEF M!Told, M!Changed
<1> QED BY <1>2, <1>4, <1>5

(* A discovery comes to its end, and the manager waits again.              *)
LEMMA AppliedStep ==
    ASSUME McpInv, M!Forget, NEW done \in {FALSE, answer # 0}, M!Applied(done),
           tools' = tools, queued' = queued, wake' = wake, peer' = peer, error' = error \/ error' = ~done
    PROVE  McpInv'
<1>1. /\ pipe' \in Seq(Nat \cup {-1}) /\ DOMAIN pipe' = DOMAIN pipe /\ answer' = 0
      /\ M!Told' = M!Told
      /\ \A i \in DOMAIN pipe' : ~(pipe'[i] > 0)
  BY Forgotten
<1>2. ToHear' = ToHear
  BY <1>1 DEF ToHear
<1>3. done \in BOOLEAN /\ registered' \in Nat /\ stale' \in BOOLEAN /\ (done => answer # 0 /\ registered' = answer) /\ (~done => stale')
  <2>1. done \in BOOLEAN /\ (done => answer # 0) /\ answer \in Nat /\ registered \in Nat
    BY DEF McpInv, McpTypeOK
  <2>2. CASE done /\ registered' = answer /\ stale' = FALSE
    BY <2>1, <2>2
  <2>3. CASE ~done /\ stale' = TRUE /\ registered' \in {registered} \cup (IF answer # 0 THEN {0} ELSE {})
    BY <2>1, <2>3
  <2> QED BY <2>2, <2>3 DEF M!Applied
<1>4. McpTypeOK'
  BY <1>1, <1>3 DEF McpInv, McpTypeOK
<1>5. AnswersCurrent' /\ AnswerCurrent' /\ Signalled'
  BY <1>1 DEF McpInv, AnswersCurrent, AnswerCurrent, Signalled
<1>6. RegisteredCurrent'
  BY <1>2, <1>3 DEF McpInv, AnswerCurrent, RegisteredCurrent
<1> QED BY <1>4, <1>5, <1>6 DEF McpInv

(* Setting up or asking changes nothing the registry depends on.           *)
LEMMA QuietStep ==
    ASSUME McpInv, tools' = tools, registered' = registered, stale' = stale, error' = error,
           peer' \in {peer, FALSE}, pipe' = pipe, queued' = queued, answer' \in {answer, 0},
           wake' \in BOOLEAN, wake => wake' \/ ~queued \/ peer' = FALSE, mgr' = mgr \/ mgr' # "waiting"
    PROVE  McpInv'
<1>1. ToHear' = ToHear
  BY DEF ToHear, M!Told
<1>2. McpTypeOK' /\ AnswersCurrent'
  <2>1. tools \in Nat \ {0} /\ registered \in Nat /\ answer \in Nat /\ pipe \in Seq(Nat \cup {-1})
        /\ queued \in BOOLEAN /\ peer \in BOOLEAN /\ stale \in BOOLEAN /\ error \in BOOLEAN
    BY DEF McpInv, McpTypeOK
  <2>2. McpTypeOK'
    <3>1. answer' \in Nat
      BY <2>1
    <3>2. peer' \in BOOLEAN
      BY <2>1
    <3> QED BY <2>1, <3>1, <3>2 DEF McpTypeOK
  <2>3. AnswersCurrent'
    BY DEF McpInv, AnswersCurrent, M!Changed
  <2> QED BY <2>2, <2>3
<1>3. AnswerCurrent' /\ RegisteredCurrent' /\ Signalled'
  <2>1. AnswerCurrent'
    BY <1>1 DEF McpInv, AnswerCurrent
  <2>2. RegisteredCurrent'
    BY <1>1 DEF McpInv, RegisteredCurrent
  <2>3. Signalled'
    BY DEF McpInv, McpTypeOK, Signalled
  <2> QED BY <2>1, <2>2, <2>3
<1> QED BY <1>2, <1>3 DEF McpInv

LEMMA McpConnects ==
    ASSUME McpInv, M!Connect
    PROVE  McpInv'
<1>1. /\ mgr' = "handshake" /\ peer' = TRUE /\ queued' = FALSE /\ wake' = FALSE /\ error' = FALSE
      /\ pipe' = <<>> /\ answer' = 0 /\ tools' = tools /\ registered' = registered /\ stale' = stale
  BY DEF M!Connect, M!outcome
<1>2. McpTypeOK'
  <2>1. pipe' \in Seq(Nat \cup {-1})
    BY <1>1
  <2>2. tools \in Nat \ {0} /\ registered \in Nat /\ stale \in BOOLEAN
    BY DEF McpInv, McpTypeOK
  <2> QED BY <1>1, <2>1, <2>2 DEF McpTypeOK
<1>3. AnswersCurrent'
  BY <1>1 DEF AnswersCurrent
<1> QED BY <1>1, <1>2, <1>3 DEF McpInv, AnswerCurrent, RegisteredCurrent, Signalled

LEMMA McpShakes ==
    ASSUME McpInv, M!Shaken
    PROVE  McpInv'
<1>1. tools' = tools /\ registered' = registered /\ stale' = stale /\ queued' = queued /\ wake' = wake /\ peer' = peer
  BY DEF M!Shaken, M!outcome
<1>2. CASE M!Asks("discover") /\ UNCHANGED <<error, ready_sent, pipe>>
  BY <1>1, <1>2, QuietStep DEF M!Asks, McpInv, McpTypeOK
<1>3. CASE M!SetUp(TRUE)
  <2>1. M!Forget /\ error' = TRUE
    BY <1>3 DEF M!SetUp
  <2>2. /\ pipe' \in Seq(Nat \cup {-1}) /\ DOMAIN pipe' = DOMAIN pipe /\ answer' = 0
        /\ \A i \in DOMAIN pipe' : ~(pipe'[i] > 0)
    BY <2>1, Forgotten
  <2> QED BY <1>1, <2>1, <2>2 DEF McpInv, McpTypeOK, AnswersCurrent, AnswerCurrent, RegisteredCurrent, Signalled
<1> QED BY <1>2, <1>3 DEF M!Shaken

LEMMA McpDiscovers ==
    ASSUME McpInv, M!Discovered
    PROVE  McpInv'
<1>1. PICK done \in {FALSE, answer # 0} : M!Applied(done) /\ M!SetUp(~done)
  BY DEF M!Discovered
<1>2. M!Forget /\ error' = ~done
  BY <1>1 DEF M!SetUp
<1>3. tools' = tools /\ queued' = queued /\ wake' = wake /\ peer' = peer
  BY DEF M!Discovered
<1> QED BY <1>1, <1>2, <1>3, AppliedStep

LEMMA McpResyncs ==
    ASSUME McpInv, M!Resynced
    PROVE  McpInv'
<1>1. PICK done \in {FALSE, answer # 0} : M!Applied(done)
  BY DEF M!Resynced
<1>2. M!Forget /\ error' = error /\ tools' = tools /\ queued' = queued /\ wake' = wake /\ peer' = peer
  BY DEF M!Resynced
<1> QED BY <1>1, <1>2, AppliedStep

(* The signal is taken: a change it stood for is asked about.              *)
LEMMA McpHears ==
    ASSUME McpInv, M!Resync
    PROVE  McpInv'
<1>1. /\ tools' = tools /\ registered' = registered /\ stale' = stale /\ error' = error /\ peer' = peer /\ pipe' = pipe
      /\ wake' = FALSE /\ queued' = FALSE
  BY DEF M!Resync, M!outcome
<1>2. CASE queued
  <2>1. mgr' = "resync" /\ answer' = 0
    BY <1>2 DEF M!Resync, M!Asks
  <2> QED BY <1>1, <2>1 DEF McpInv, McpTypeOK, AnswersCurrent, AnswerCurrent, RegisteredCurrent, Signalled
<1>3. CASE ~queued
  <2>1. mgr' = mgr /\ answer' = answer
    BY <1>3 DEF M!Resync
  <2> QED BY <1>1, <1>3, <2>1, QuietStep DEF McpInv, McpTypeOK
<1> QED BY <1>2, <1>3

(* A frame is read: a notification becomes a signal, an answer is the      *)
(* manager's if it still waits.                                            *)
LEMMA McpReads ==
    ASSUME McpInv, M!Read
    PROVE  McpInv'
<1>1. /\ mgr' = mgr /\ tools' = tools /\ registered' = registered /\ stale' = stale /\ error' = error /\ peer' = peer
      /\ pipe # <<>> /\ pipe' = Tail(pipe)
  BY DEF M!Read, M!outcome
<1>2. /\ pipe \in Seq(Nat \cup {-1}) /\ Len(pipe) \in Nat \ {0} /\ DOMAIN pipe = 1..Len(pipe)
      /\ pipe' \in Seq(Nat \cup {-1}) /\ DOMAIN pipe' = 1..(Len(pipe) - 1)
      /\ \A i \in 1..(Len(pipe) - 1) : pipe'[i] = pipe[i + 1]
      /\ Head(pipe) = pipe[1] /\ pipe[1] \in Nat \cup {-1}
  BY <1>1 DEF McpInv, McpTypeOK
<1>3. AnswersCurrent'
  <2>. SUFFICES ASSUME NEW i \in DOMAIN pipe', pipe'[i] > 0, pipe'[i] # tools'
                PROVE  \E j \in DOMAIN pipe' : j > i /\ pipe'[j] = 0
    BY DEF AnswersCurrent, M!Changed
  <2>1. i \in 1..(Len(pipe) - 1) /\ pipe[i + 1] > 0 /\ pipe[i + 1] # tools
    <3>1. tools' = tools
      BY <1>1
    <3>2. i \in 1..(Len(pipe) - 1)
      BY <1>2
    <3>3. pipe'[i] = pipe[i + 1]
      BY <1>2, <3>2
    <3> QED BY <3>1, <3>2, <3>3
  <2>2. PICK j \in 1..Len(pipe) : j > i + 1 /\ pipe[j] = 0
    <3>1. i + 1 \in 1..Len(pipe)
      BY <1>2
    <3> QED BY <1>2, <2>1, <3>1 DEF McpInv, AnswersCurrent, M!Changed
  <2>3. j - 1 \in 1..(Len(pipe) - 1) /\ j - 1 > i /\ (j - 1) + 1 = j
    BY <1>2, <2>1, <2>2
  <2>4. j - 1 \in DOMAIN pipe' /\ pipe'[j - 1] = 0
    <3>1. pipe'[j - 1] = pipe[(j - 1) + 1]
      BY <1>2, <2>3
    <3> QED BY <1>2, <2>2, <2>3, <3>1
  <2> QED BY <2>3, <2>4
<1>4. CASE Head(pipe) = M!Changed
  <2>1. queued' = TRUE /\ wake' = TRUE /\ answer' = answer
    BY <1>4 DEF M!Read
  <2> QED BY <1>1, <1>2, <1>3, <2>1 DEF McpInv, McpTypeOK, AnswerCurrent, RegisteredCurrent, Signalled, ToHear
<1>5. CASE Head(pipe) # M!Changed
  <2>1. queued' = queued /\ wake' = wake /\ answer' = IF pipe[1] = -1 THEN answer ELSE pipe[1]
    BY <1>2, <1>5 DEF M!Read, M!Late
  <2>2. M!Told => M!Told'
    <3>1. SUFFICES ASSUME NEW i \in 1..Len(pipe), pipe[i] = M!Changed
                   PROVE  \E j \in 1..(Len(pipe) - 1) : pipe[j + 1] = M!Changed
      BY <1>2 DEF M!Told, M!Changed
    <3>2. i # 1
      BY <1>2, <1>5, <3>1
    <3>3. i - 1 \in 1..(Len(pipe) - 1) /\ pipe[(i - 1) + 1] = M!Changed
      BY <1>2, <3>1, <3>2
    <3> QED BY <3>3
  <2>3. ToHear => ToHear'
    BY <2>1, <2>2 DEF ToHear
  <2>4. AnswerCurrent'
    <3>1. CASE pipe[1] = -1
      BY <1>1, <2>1, <2>3, <3>1 DEF McpInv, AnswerCurrent
    <3>2. CASE pipe[1] > 0
      <4>1. pipe[1] = tools \/ M!Told
        BY <1>2, <3>2 DEF McpInv, AnswersCurrent, M!Told
      <4> QED BY <1>1, <2>1, <2>3, <3>2, <4>1 DEF AnswerCurrent, ToHear
    <3> QED BY <1>2, <1>5, <3>1, <3>2 DEF M!Changed
  <2>5. RegisteredCurrent' /\ Signalled'
    BY <1>1, <2>1, <2>3 DEF McpInv, RegisteredCurrent, Signalled
  <2>6. McpTypeOK'
    BY <1>1, <1>2, <2>1 DEF McpInv, McpTypeOK
  <2> QED BY <1>3, <2>4, <2>5, <2>6 DEF McpInv
<1> QED BY <1>4, <1>5

(* What the server does: it answers with what it has, and a change is      *)
(* announced behind every answer.                                          *)
LEMMA McpAnswers ==
    ASSUME McpInv, M!ServerAnswers
    PROVE  McpInv'
<1>1. /\ mgr' = mgr /\ tools' = tools /\ registered' = registered /\ stale' = stale /\ error' = error /\ peer' = peer
      /\ queued' = queued /\ wake' = wake /\ answer' = answer /\ pipe' = Append(pipe, tools)
  BY DEF M!ServerAnswers, M!outcome
<1>2. /\ pipe \in Seq(Nat \cup {-1}) /\ Len(pipe) \in Nat /\ DOMAIN pipe = 1..Len(pipe)
      /\ pipe' \in Seq(Nat \cup {-1}) /\ DOMAIN pipe' = 1..(Len(pipe) + 1)
      /\ \A i \in 1..Len(pipe) : pipe'[i] = pipe[i]
      /\ pipe'[Len(pipe) + 1] = tools
  BY <1>1 DEF McpInv, McpTypeOK
<1>3. ToHear => ToHear'
  BY <1>1, <1>2 DEF ToHear, M!Told, M!Changed
<1>4. AnswersCurrent'
  BY <1>1, <1>2 DEF McpInv, AnswersCurrent, M!Changed
<1>5. McpTypeOK' /\ AnswerCurrent' /\ RegisteredCurrent' /\ Signalled'
  BY <1>1, <1>2, <1>3 DEF McpInv, McpTypeOK, AnswerCurrent, RegisteredCurrent, Signalled
<1> QED BY <1>4, <1>5 DEF McpInv

LEMMA McpChanges ==
    ASSUME McpInv, M!ServerChanges
    PROVE  McpInv'
<1>1. /\ mgr' = mgr /\ tools' = tools + 1 /\ registered' = registered /\ stale' = stale /\ error' = error /\ peer' = peer
      /\ queued' = queued /\ wake' = wake /\ answer' = answer /\ pipe' = Append(pipe, 0)
  BY DEF M!ServerChanges, M!Changed
<1>2. /\ pipe \in Seq(Nat \cup {-1}) /\ Len(pipe) \in Nat /\ DOMAIN pipe = 1..Len(pipe)
      /\ pipe' \in Seq(Nat \cup {-1}) /\ DOMAIN pipe' = 1..(Len(pipe) + 1)
      /\ pipe'[Len(pipe) + 1] = 0
  BY <1>1 DEF McpInv, McpTypeOK
<1>3. ToHear'
  BY <1>2 DEF ToHear, M!Told, M!Changed
<1>4. AnswersCurrent'
  <2>1. SUFFICES ASSUME NEW i \in 1..(Len(pipe) + 1), pipe'[i] > 0
                 PROVE  \E j \in 1..(Len(pipe) + 1) : j > i /\ pipe'[j] = 0
    BY <1>2 DEF AnswersCurrent, M!Changed
  <2>2. Len(pipe) + 1 \in 1..(Len(pipe) + 1) /\ Len(pipe) + 1 > i
    BY <1>2, <2>1
  <2> QED BY <1>2, <2>2
<1>5. McpTypeOK' /\ AnswerCurrent' /\ RegisteredCurrent' /\ Signalled'
  BY <1>1, <1>2, <1>3 DEF McpInv, McpTypeOK, AnswerCurrent, RegisteredCurrent, Signalled
<1> QED BY <1>4, <1>5 DEF McpInv

LEMMA McpStep ==
    ASSUME McpInv, M!Next
    PROVE  McpInv'
<1>1. CASE M!Connect
  BY <1>1, McpConnects
<1>2. CASE M!NoSession
  BY <1>2, QuietStep DEF M!NoSession, M!Over, M!session, M!outcome, McpInv, McpTypeOK
<1>3. CASE M!Shaken
  BY <1>3, McpShakes
<1>4. CASE M!Discovered
  BY <1>4, McpDiscovers
<1>5. CASE M!Resync
  BY <1>5, McpHears
<1>6. CASE M!Resynced
  BY <1>6, McpResyncs
<1>7. CASE M!Loss
  <2>1. mgr' # "waiting"
    BY <1>7 DEF M!Loss, M!Over
  <2> QED BY <1>7, <2>1, QuietStep DEF M!Loss, M!outcome, McpInv, McpTypeOK
<1>8. CASE M!Delayed
  BY <1>8, QuietStep DEF M!Delayed, M!session, M!outcome, McpInv, McpTypeOK
<1>9. CASE M!Stop
  BY <1>9, QuietStep DEF M!Stop, M!outcome, McpInv, McpTypeOK
<1>10. CASE M!Read
  BY <1>10, McpReads
<1>11. CASE M!ReadEnds
  BY <1>11, QuietStep DEF M!ReadEnds, M!outcome, McpInv, McpTypeOK
<1>12. CASE M!ServerAnswers
  BY <1>12, McpAnswers
<1>13. CASE M!ServerChanges
  BY <1>13, McpChanges
<1>14. CASE M!ServerEnds
  BY <1>14, QuietStep DEF M!ServerEnds, M!outcome, McpInv, McpTypeOK
<1> QED BY <1>1, <1>2, <1>3, <1>4, <1>5, <1>6, <1>7, <1>8, <1>9, <1>10, <1>11, <1>12, <1>13, <1>14
        DEF M!Next, M!Manages

----------------------------------------------------------------------------
(***************************************************************************)
(* A run of a workflow                                                     *)
(***************************************************************************)
Places == {"none", "sent", "queued", "running", "refused", "ended"}
Distinct(s) == \A i, j \in DOMAIN s : s[i] = s[j] => i = j
Elements(s) == {s[i] : i \in DOMAIN s}
Where(f, place) == {c \in CallIds : f[c] = place}

FlowTypeOK ==
    /\ call \in [CallIds -> Places] /\ up \in Seq(CallIds) /\ queue \in Seq(CallIds)
    /\ inflight \in Nat /\ started \in Nat

(* A call is in the pipe once, or in the queue once.                       *)
Sending == Distinct(up) /\ \A i \in DOMAIN up : call[up[i]] = "sent"
FlowInv == FlowTypeOK /\ Sending /\ Distinct(queue) /\ W!SlotsUsed

(* The instance has a cardinality of its own, defined alike.               *)
LEMMA SameCardinality == \A S : W!Cardinality(S) = Cardinality(S)
BY DEF W!Cardinality, Cardinality

LEMMA SameCount ==
    ASSUME NEW I, IsFiniteSet(I), NEW T, NEW f \in [I -> T],
           \A i, j \in I : f[i] = f[j] => i = j, \A t \in T : \E i \in I : f[i] = t
    PROVE  IsFiniteSet(T) /\ Cardinality(T) = Cardinality(I)
<1>1. f \in Injection(I, T)
  BY DEF Injection, IsInjective
<1>2. f \in Surjection(I, T)
  BY DEF Surjection
<1>3. ExistsBijection(I, T)
  BY <1>1, <1>2 DEF ExistsBijection, Bijection
<1> QED BY <1>3, FS_Bijection

LEMMA QueueCount ==
    ASSUME NEW s \in Seq(CallIds), Distinct(s)
    PROVE  Cardinality(Elements(s)) = Len(s)
<1>1. DOMAIN s = 1..Len(s) /\ Len(s) \in Nat
  OBVIOUS
<1>2. IsFiniteSet(1..Len(s)) /\ Cardinality(1..Len(s)) = Len(s)
  <2>1. 1 \in Int /\ Len(s) \in Int /\ (1 > Len(s) => Len(s) = 0)
    BY <1>1
  <2>2. /\ IsFiniteSet(1..Len(s))
        /\ Cardinality(1..Len(s)) = IF 1 > Len(s) THEN 0 ELSE Len(s) - 1 + 1
    BY <2>1, FS_Interval
  <2> QED BY <1>1, <2>1, <2>2
<1>3. s \in [1..Len(s) -> Elements(s)]
  <2>1. s = [i \in 1..Len(s) |-> s[i]]
    BY <1>1
  <2>2. \A i \in 1..Len(s) : s[i] \in Elements(s)
    BY <1>1 DEF Elements
  <2> QED BY <2>1, <2>2
<1>4. \A i, j \in 1..Len(s) : s[i] = s[j] => i = j
  BY <1>1 DEF Distinct
<1>5. \A t \in Elements(s) : \E i \in 1..Len(s) : s[i] = t
  BY <1>1 DEF Elements
<1> QED BY <1>2, <1>3, <1>4, <1>5, SameCount

LEMMA CallsFinite ==
    ASSUME NEW T \in SUBSET CallIds
    PROVE  IsFiniteSet(T) /\ Cardinality(T) \in Nat
<1>1. IsFiniteSet(CallIds)
  BY ServiceAssumption
<1>2. IsFiniteSet(T)
  BY <1>1, FS_Subset
<1> QED BY <1>2, FS_CardinalityType

LEMMA CountBoth ==
    ASSUME NEW S \in SUBSET CallIds, NEW T \in SUBSET CallIds, S \cap T = {}
    PROVE  Cardinality(S \cup T) = Cardinality(S) + Cardinality(T)
<1>1. IsFiniteSet(S) /\ IsFiniteSet(T) /\ Cardinality(S) \in Nat /\ Cardinality(T) \in Nat
  BY CallsFinite
<1>2. Cardinality(S \cup T) = Cardinality(S) + Cardinality(T) - Cardinality(S \cap T)
  BY <1>1, FS_Union
<1>3. Cardinality(S \cap T) = 0
  BY FS_EmptySet
<1> QED BY <1>1, <1>2, <1>3

(* The first n of a queue that are not refused take as many slots as there *)
(* are places they stand in.                                               *)
LEMMA SlotsCounted ==
    ASSUME NEW q \in Seq(CallIds), Distinct(q), NEW n \in 0..Len(q), NEW refused
    PROVE  Cardinality({i \in 1..n : q[i] \notin refused}) = Cardinality({q[i] : i \in 1..n} \ refused)
<1>. DEFINE I == {i \in 1..n : q[i] \notin refused}
            T == {q[i] : i \in 1..n} \ refused
            f == [i \in I |-> q[i]]
<1>1. n \in Nat /\ \A i \in 1..n : i \in DOMAIN q
  OBVIOUS
<1>2. IsFiniteSet(I)
  <2>1. 1 \in Int /\ n \in Int
    BY <1>1
  <2>2. IsFiniteSet(1..n)
    BY <2>1, FS_Interval
  <2>3. I \in SUBSET (1..n)
    OBVIOUS
  <2>. HIDE DEF I
  <2> QED BY <2>2, <2>3, FS_Subset
<1>3. f \in [I -> T]
  OBVIOUS
<1>4. \A i, j \in I : f[i] = f[j] => i = j
  BY <1>1 DEF Distinct
<1>5. \A t \in T : \E i \in I : f[i] = t
  OBVIOUS
<1>. HIDE DEF I, T, f
<1>6. Cardinality(T) = Cardinality(I)
  BY <1>2, <1>3, <1>4, <1>5, SameCount
<1> QED BY <1>6 DEF I, T

(* pump_calls() keeps the books, whatever was queued and however many run. *)
LEMMA PumpKeeps ==
    ASSUME NEW q \in Seq(CallIds), Distinct(q), NEW busy \in Nat, busy <= Width,
           NEW others \in [CallIds -> Places], Elements(q) = Where(others, "queued"),
           busy = Cardinality(Where(others, "running")), NEW before, W!PumpCalls(q, busy, others, before)
    PROVE  /\ call' \in [CallIds -> Places] /\ queue' \in Seq(CallIds) /\ Distinct(queue')
           /\ inflight' \in Nat /\ inflight' <= Width /\ inflight' = Cardinality(Where(call', "running"))
           /\ queue' # <<>> => inflight' = Width
           /\ Elements(queue') = Where(call', "queued")
           /\ \A c \in CallIds : others[c] # "queued" => call'[c] = others[c]
<1>. DEFINE out(n) == {q[i] : i \in 1..n}
<1>1. Width \in Nat /\ Len(q) \in Nat /\ DOMAIN q = 1..Len(q)
  BY ServiceAssumption
<1>2. PICK refused \in SUBSET {q[i] : i \in 1..Len(q)} : \E n \in W!Taken(q, Width - busy, refused) :
          /\ refused \subseteq out(n)
          /\ queue' = SubSeq(q, n + 1, Len(q)) /\ inflight' = busy + W!Cardinality(out(n) \ refused)
          /\ call' = [c \in CallIds |-> IF c \in out(n) \cap refused THEN "refused"
                                         ELSE IF c \in out(n) THEN "running" ELSE others[c]]
  BY Zenon DEF W!PumpCalls
<1>3. PICK n \in W!Taken(q, Width - busy, refused) :
          /\ refused \subseteq out(n)
          /\ queue' = SubSeq(q, n + 1, Len(q)) /\ inflight' = busy + W!Cardinality(out(n) \ refused)
          /\ call' = [c \in CallIds |-> IF c \in out(n) \cap refused THEN "refused"
                                         ELSE IF c \in out(n) THEN "running" ELSE others[c]]
  BY <1>2
<1>4. /\ n \in 0..Len(q)
      /\ Cardinality({i \in 1..n : q[i] \notin refused}) <= Width - busy
      /\ n < Len(q) => Cardinality({i \in 1..n : q[i] \notin refused}) = Width - busy
  <2>1. /\ n \in 0..Len(q)
        /\ W!Cardinality({i \in 1..n : q[i] \notin refused}) <= Width - busy
        /\ n < Len(q) => W!Cardinality({i \in 1..n : q[i] \notin refused}) = Width - busy
    BY Zenon DEF W!Taken
  <2> QED BY <2>1, SameCardinality
<1>. DEFINE new == out(n) \ refused
<1>5. Cardinality({i \in 1..n : q[i] \notin refused}) = Cardinality(new)
  BY <1>4, SlotsCounted
<1>6. /\ n \in Nat /\ n <= Len(q) /\ \A i \in 1..n : i \in 1..Len(q)
      /\ \A i \in (n + 1)..Len(q) : i \in 1..Len(q) /\ i \notin 1..n
      /\ \A i \in 1..Len(q) : q[i] \in CallIds
  BY <1>1, <1>4
<1>7. out(n) \subseteq Elements(q) /\ Elements(q) \subseteq CallIds
  BY <1>1, <1>6 DEF Elements
<1>8. Cardinality(new) \in Nat
  <2>1. new \in SUBSET CallIds
    BY <1>7
  <2>. HIDE DEF new
  <2> QED BY <2>1, CallsFinite
<1>9. call' \in [CallIds -> Places]
  BY <1>3 DEF Places
<1>10. /\ queue' \in Seq(CallIds) /\ Len(queue') = Len(q) - n /\ DOMAIN queue' = 1..(Len(q) - n)
       /\ \A i \in 1..(Len(q) - n) : queue'[i] = q[n + i]
  <2>1. n + 1 \in Int /\ Len(q) \in Int /\ \A i \in (n + 1)..Len(q) : q[i] \in CallIds
    BY <1>1, <1>6
  <2>2. /\ queue' \in Seq(CallIds)
        /\ Len(queue') = IF n + 1 <= Len(q) THEN Len(q) - (n + 1) + 1 ELSE 0
        /\ \A i \in 1..(Len(q) - (n + 1) + 1) : queue'[i] = q[(n + 1) + i - 1]
    BY <1>3, <2>1, SubSeqProperties
  <2>3. Len(queue') = Len(q) - n
    <3>. DEFINE len == Len(queue')
                all == Len(q)
    <3>1. all \in Nat /\ n \in Nat /\ n <= all /\ len = IF n + 1 <= all THEN all - (n + 1) + 1 ELSE 0
      BY <1>1, <1>6, <2>2
    <3>. HIDE DEF len, all
    <3>2. len = all - n
      BY <3>1
    <3> QED BY <3>2 DEF len, all
  <2>4. \A i \in 1..(Len(q) - n) : queue'[i] = q[n + i]
    <3>1. Len(q) - (n + 1) + 1 = Len(q) - n
      BY <1>1, <1>6
    <3>2. ASSUME NEW i \in 1..(Len(q) - n)
          PROVE  (n + 1) + i - 1 = n + i
      BY <1>6
    <3> QED BY <2>2, <3>1, <3>2
  <2> QED BY <2>2, <2>3, <2>4
<1>11. Distinct(queue')
  <2>1. SUFFICES ASSUME NEW i \in 1..(Len(q) - n), NEW j \in 1..(Len(q) - n), queue'[i] = queue'[j]
                 PROVE  i = j
    BY <1>10 DEF Distinct
  <2>2. n + i \in DOMAIN q /\ n + j \in DOMAIN q /\ q[n + i] = q[n + j]
    BY <1>1, <1>6, <1>10, <2>1
  <2>3. n + i = n + j
    BY <2>2 DEF Distinct
  <2> QED BY <1>6, <2>3
<1>12. Elements(queue') = Elements(q) \ out(n)
  <2>1. ASSUME NEW x \in Elements(queue')
        PROVE  x \in Elements(q) /\ x \notin out(n)
    <3>1. PICK i \in 1..(Len(q) - n) : x = q[n + i]
      BY <1>10 DEF Elements
    <3>2. n + i \in 1..Len(q) /\ n + i \notin 1..n
      BY <1>1, <1>6
    <3>3. ASSUME NEW k \in 1..n, q[k] = x
          PROVE  FALSE
      BY <1>1, <1>6, <3>1, <3>2, <3>3 DEF Distinct
    <3> QED BY <1>1, <3>1, <3>2, <3>3 DEF Elements
  <2>2. ASSUME NEW x \in Elements(q), x \notin out(n)
        PROVE  x \in Elements(queue')
    <3>1. PICK i \in 1..Len(q) : x = q[i]
      BY <1>1 DEF Elements
    <3>2. i \notin 1..n
      BY <2>2, <3>1
    <3>3. i - n \in 1..(Len(q) - n) /\ n + (i - n) = i
      BY <1>1, <1>6, <3>1, <3>2
    <3>4. queue'[i - n] = x
      BY <1>10, <3>1, <3>3
    <3> QED BY <1>10, <3>3, <3>4 DEF Elements
  <2> QED BY <2>1, <2>2
<1>13. /\ Where(call', "running") = Where(others, "running") \cup new
       /\ Where(others, "running") \cap new = {}
       /\ Where(call', "queued") = Elements(q) \ out(n)
       /\ \A c \in CallIds : others[c] # "queued" => call'[c] = others[c]
  <2>1. \A c \in out(n) : c \in CallIds /\ others[c] = "queued"
    BY <1>7 DEF Where
  <2>2. \A c \in CallIds : call'[c] = IF c \in out(n) \cap refused THEN "refused"
                                      ELSE IF c \in out(n) THEN "running" ELSE others[c]
    BY <1>3
  <2>3. Elements(q) = Where(others, "queued")
    OBVIOUS
  <2>. HIDE DEF out
  <2> QED BY <2>1, <2>2, <2>3 DEF Where
<1>14. /\ inflight' \in Nat /\ inflight' <= Width /\ inflight' = Cardinality(Where(call', "running"))
       /\ queue' # <<>> => inflight' = Width
  <2>1. new \in SUBSET CallIds /\ Where(others, "running") \in SUBSET CallIds
    BY <1>7 DEF Where
  <2>2. inflight' = busy + Cardinality(new)
    <3>1. inflight' = busy + W!Cardinality(new) /\ W!Cardinality(new) = Cardinality(new)
      BY <1>3, SameCardinality
    <3> QED BY <3>1
  <2>3. Cardinality(new) <= Width - busy /\ (n < Len(q) => Cardinality(new) = Width - busy)
    BY <1>4, <1>5
  <2>. HIDE DEF new
  <2>4. Cardinality(Where(others, "running") \cup new) = Cardinality(Where(others, "running")) + Cardinality(new)
    BY <1>13, <2>1, CountBoth
  <2>5. inflight' = Cardinality(Where(call', "running"))
    BY <1>13, <2>2, <2>4
  <2>6. inflight' \in Nat /\ inflight' <= Width
    BY <1>1, <1>8, <2>2, <2>3
  <2>7. queue' # <<>> => n < Len(q)
    <3>1. queue' \in Seq(CallIds) /\ Len(queue') = Len(q) - n
      BY <1>10
    <3>2. queue' # <<>> => Len(queue') # 0
      BY <3>1
    <3>3. n # Len(q) => n < Len(q)
      <4>. DEFINE all == Len(q)
      <4>1. all \in Nat /\ n \in Nat /\ n <= all
        BY <1>1, <1>6
      <4>. HIDE DEF all
      <4>2. n # all => n < all
        BY <4>1
      <4> QED BY <4>2 DEF all
    <3>4. n = Len(q) => Len(q) - n = 0
      BY <1>6
    <3> QED BY <3>1, <3>2, <3>3, <3>4
  <2>8. queue' # <<>> => inflight' = Width
    BY <1>1, <1>8, <2>2, <2>3, <2>7
  <2> QED BY <2>5, <2>6, <2>8
<1> QED BY <1>9, <1>10, <1>11, <1>12, <1>13, <1>14

----------------------------------------------------------------------------
LEMMA FlowInitially == W!Init => FlowInv
<1>. SUFFICES ASSUME W!Init
              PROVE  FlowInv
  OBVIOUS
<1>1. up = <<>> /\ queue = <<>> /\ started = 0 /\ inflight = 0 /\ call = [c \in CallIds |-> "none"]
  BY DEF W!Init
<1>2. FlowTypeOK
  BY <1>1 DEF FlowTypeOK, Places
<1>3. Sending /\ Distinct(queue)
  BY <1>1 DEF Sending, Distinct
<1>4. W!In("running") = {} /\ W!In("queued") = {} /\ {queue[i] : i \in DOMAIN queue} = {} /\ Len(queue) = 0
  BY <1>1 DEF W!In
<1>5. Cardinality({}) = 0
  BY FS_EmptySet
<1>6. inflight <= Width /\ started <= MaxAgents
  BY <1>1, ServiceAssumption
<1>7. W!SlotsUsed
  <2>2. W!Cardinality({}) = 0
    BY <1>5, SameCardinality
  <2>3. inflight = W!Cardinality(W!In("running")) /\ Len(queue) = W!Cardinality(W!In("queued"))
    BY <1>1, <1>4, <2>2
  <2> QED BY <1>1, <1>4, <1>6, <2>3, Zenon DEF W!SlotsUsed
<1> QED BY <1>2, <1>3, <1>7 DEF FlowInv

(* The books in terms of the places.                                       *)
Books(q, n, f) ==
    /\ n <= Width /\ n = Cardinality(Where(f, "running")) /\ (q # <<>> => n = Width)
    /\ Elements(q) = Where(f, "queued")

LEMMA BooksHold ==
    ASSUME FlowInv
    PROVE  Books(queue, inflight, call) /\ started <= MaxAgents
<1>1. \A place : W!In(place) = Where(call, place)
  BY DEF W!In, Where
<1>2. {queue[i] : i \in DOMAIN queue} = Elements(queue)
  BY DEF Elements
<1>3. W!Cardinality(W!In("running")) = Cardinality(Where(call, "running"))
  BY <1>1, SameCardinality
<1> QED BY <1>1, <1>2, <1>3, Zenon DEF FlowInv, W!SlotsUsed, Books

LEMMA HoldBooks ==
    ASSUME FlowTypeOK', Sending', Distinct(queue'), Books(queue', inflight', call'), started' <= MaxAgents
    PROVE  FlowInv'
<1>1. queue' \in Seq(CallIds)
  BY DEF FlowTypeOK
<1>2. Cardinality(Elements(queue')) = Len(queue')
  BY <1>1, QueueCount
<1>3. \A place : W!In(place)' = Where(call', place)
  BY DEF W!In, Where
<1>4. {queue'[i] : i \in DOMAIN queue'} = Elements(queue')
  BY DEF Elements
<1>5. /\ inflight' = W!Cardinality(W!In("running")') /\ inflight' <= Width /\ (queue' # <<>> => inflight' = Width)
      /\ Elements(queue') = W!In("queued")' /\ Len(queue') = W!Cardinality(W!In("queued")')
  BY <1>2, <1>3, SameCardinality, Zenon DEF Books
<1>6. W!SlotsUsed'
  BY <1>4, <1>5, Zenon DEF W!SlotsUsed
<1> QED BY <1>6 DEF FlowInv

(* A step that touches neither the calls nor the books.                    *)
LEMMA FlowRests ==
    ASSUME FlowInv, up' = up, queue' = queue, started' = started, inflight' = inflight, call' = call
    PROVE  FlowInv'
BY DEF FlowInv, FlowTypeOK, Sending, Distinct, W!SlotsUsed, W!In

LEMMA FlowAsks ==
    ASSUME FlowInv, NEW c \in CallIds, W!Agent(c)
    PROVE  FlowInv'
<1>1. /\ call[c] = "none" /\ call' = [call EXCEPT ![c] = "sent"] /\ up' = Append(up, c)
      /\ queue' = queue /\ started' = started /\ inflight' = inflight
  BY DEF W!Agent
<1>2. /\ call \in [CallIds -> Places] /\ up \in Seq(CallIds) /\ queue \in Seq(CallIds)
      /\ inflight \in Nat /\ started \in Nat /\ Distinct(up) /\ Distinct(queue) /\ \A i \in DOMAIN up : call[up[i]] = "sent"
  BY DEF FlowInv, FlowTypeOK, Sending
<1>3. call' \in [CallIds -> Places] /\ call'[c] = "sent" /\ \A x \in CallIds \ {c} : call'[x] = call[x]
  BY <1>1, <1>2 DEF Places
<1>4. /\ up' \in Seq(CallIds) /\ DOMAIN up = 1..Len(up) /\ Len(up) \in Nat /\ DOMAIN up' = 1..(Len(up) + 1)
      /\ \A i \in 1..Len(up) : up'[i] = up[i] /\ up[i] \in CallIds
      /\ up'[Len(up) + 1] = c
  BY <1>1, <1>2
<1>5. \A i \in 1..Len(up) : up[i] # c
  BY <1>1, <1>2, <1>4
<1>6. FlowTypeOK'
  BY <1>1, <1>2, <1>3, <1>4 DEF FlowTypeOK
<1>7. Distinct(up')
  BY <1>2, <1>4, <1>5 DEF Distinct
<1>8. \A i \in DOMAIN up' : call'[up'[i]] = "sent"
  BY <1>2, <1>3, <1>4, <1>5
<1>9. Where(call', "running") = Where(call, "running") /\ Where(call', "queued") = Where(call, "queued")
  BY <1>1, <1>3 DEF Where
<1>10. Books(queue, inflight, call) /\ started <= MaxAgents
  BY BooksHold
<1>11. Books(queue', inflight', call')
  BY <1>1, <1>9, <1>10 DEF Books
<1> QED BY <1>1, <1>2, <1>6, <1>7, <1>8, <1>10, <1>11, HoldBooks DEF Sending

(* A child ends: its slot is free for the pump.                            *)
LEMMA FlowEnds ==
    ASSUME FlowInv, NEW c \in CallIds, W!ChildEnds(c)
    PROVE  FlowInv'
<1>. DEFINE others == [call EXCEPT ![c] = "ended"]
<1>1. PICK before : W!PumpCalls(queue, inflight - 1, others, before)
  BY DEF W!ChildEnds
<1>2. call[c] = "running" /\ up' = up /\ started' = started
  BY DEF W!ChildEnds
<1>3. /\ call \in [CallIds -> Places] /\ up \in Seq(CallIds) /\ queue \in Seq(CallIds)
      /\ inflight \in Nat /\ started \in Nat /\ Distinct(up) /\ Distinct(queue) /\ \A i \in DOMAIN up : call[up[i]] = "sent"
  BY DEF FlowInv, FlowTypeOK, Sending
<1>4. Books(queue, inflight, call) /\ started <= MaxAgents
  BY BooksHold
<1>5. others \in [CallIds -> Places] /\ others[c] = "ended" /\ \A x \in CallIds \ {c} : others[x] = call[x]
  BY <1>3 DEF Places
<1>. HIDE DEF others
<1>6. /\ Where(others, "queued") = Where(call, "queued")
      /\ Where(others, "running") = Where(call, "running") \ {c} /\ c \in Where(call, "running")
  BY <1>2, <1>5 DEF Where
<1>7. Cardinality(Where(others, "running")) = inflight - 1
  <2>1. Where(call, "running") \in SUBSET CallIds
    BY DEF Where
  <2>2. IsFiniteSet(Where(call, "running"))
    BY <2>1, CallsFinite
  <2>3. Cardinality(Where(call, "running") \ {c}) = Cardinality(Where(call, "running")) - 1
    BY <1>6, <2>2, FS_RemoveElement
  <2> QED BY <1>4, <1>6, <2>3 DEF Books
<1>8. inflight - 1 \in Nat /\ inflight - 1 <= Width
  <2>1. Where(others, "running") \in SUBSET CallIds
    BY DEF Where
  <2>2. Cardinality(Where(others, "running")) \in Nat
    BY <2>1, CallsFinite
  <2>3. Width \in Nat /\ inflight <= Width
    BY <1>4, ServiceAssumption DEF Books
  <2> QED BY <1>3, <1>7, <2>2, <2>3
<1>9. Elements(queue) = Where(others, "queued")
  BY <1>4, <1>6 DEF Books
<1>10. /\ call' \in [CallIds -> Places] /\ queue' \in Seq(CallIds) /\ Distinct(queue')
       /\ inflight' \in Nat /\ inflight' <= Width /\ inflight' = Cardinality(Where(call', "running"))
       /\ queue' # <<>> => inflight' = Width
       /\ Elements(queue') = Where(call', "queued")
       /\ \A x \in CallIds : others[x] # "queued" => call'[x] = others[x]
  BY <1>1, <1>3, <1>5, <1>7, <1>8, <1>9, PumpKeeps
<1>11. FlowTypeOK' /\ Books(queue', inflight', call')
  BY <1>2, <1>3, <1>10 DEF FlowTypeOK, Books
<1>12. Sending'
  <2>1. \A i \in DOMAIN up : up[i] \in CallIds /\ up[i] # c
    BY <1>2, <1>3
  <2>2. \A i \in DOMAIN up : call'[up[i]] = "sent"
    BY <1>3, <1>5, <1>10, <2>1
  <2> QED BY <1>2, <1>3, <2>2 DEF Sending
<1> QED BY <1>2, <1>4, <1>10, <1>11, <1>12, HoldBooks

(* A call is read: refused beyond the cap, queued and pumped below it.     *)
LEMMA FlowReads ==
    ASSUME FlowInv, W!HandleCall
    PROVE  FlowInv'
<1>1. /\ call \in [CallIds -> Places] /\ up \in Seq(CallIds) /\ queue \in Seq(CallIds)
      /\ inflight \in Nat /\ started \in Nat /\ Distinct(up) /\ Distinct(queue) /\ \A i \in DOMAIN up : call[up[i]] = "sent"
  BY DEF FlowInv, FlowTypeOK, Sending
<1>2. Books(queue, inflight, call) /\ started <= MaxAgents
  BY BooksHold
<1>3. up # <<>> /\ up' = Tail(up)
  BY DEF W!HandleCall
<1>4. PICK c \in CallIds : c = Head(up)
  BY <1>1, <1>3
<1>5. /\ Len(up) \in Nat \ {0} /\ DOMAIN up = 1..Len(up) /\ c = up[1]
      /\ up' \in Seq(CallIds) /\ DOMAIN up' = 1..(Len(up) - 1)
      /\ \A i \in 1..(Len(up) - 1) : up'[i] = up[i + 1] /\ up[i + 1] \in CallIds
  BY <1>1, <1>3, <1>4
<1>6. call[c] = "sent"
  BY <1>1, <1>5
<1>7. \A i \in 1..(Len(up) - 1) : up[i + 1] # c
  <2>1. ASSUME NEW i \in 1..(Len(up) - 1), up[i + 1] = c
        PROVE  FALSE
    <3>1. i + 1 \in DOMAIN up /\ 1 \in DOMAIN up /\ i + 1 # 1
      BY <1>5
    <3> QED BY <1>1, <1>5, <2>1, <3>1 DEF Distinct
  <2> QED BY <2>1
<1>8. Distinct(up')
  <2>1. SUFFICES ASSUME NEW i \in 1..(Len(up) - 1), NEW j \in 1..(Len(up) - 1), up[i + 1] = up[j + 1]
                 PROVE  i = j
    BY <1>5 DEF Distinct
  <2>2. i + 1 \in DOMAIN up /\ j + 1 \in DOMAIN up
    BY <1>5
  <2>3. i + 1 = j + 1
    BY <1>1, <2>1, <2>2 DEF Distinct
  <2> QED BY <1>5, <2>3
<1>9. \A i \in DOMAIN up' : up'[i] \in CallIds /\ up'[i] # c /\ call[up'[i]] = "sent"
  <2>1. ASSUME NEW i \in 1..(Len(up) - 1)
        PROVE  up'[i] \in CallIds /\ up'[i] # c /\ call[up'[i]] = "sent"
    <3>1. i + 1 \in DOMAIN up /\ up'[i] = up[i + 1]
      BY <1>5
    <3> QED BY <1>1, <1>5, <1>7, <3>1
  <2> QED BY <1>5, <2>1
<1>10. CASE started >= MaxAgents
  <2>1. call' = [call EXCEPT ![c] = "refused"] /\ queue' = queue /\ started' = started /\ inflight' = inflight
    BY <1>4, <1>10 DEF W!HandleCall
  <2>2. call' \in [CallIds -> Places] /\ call'[c] = "refused" /\ \A x \in CallIds \ {c} : call'[x] = call[x]
    BY <1>1, <2>1 DEF Places
  <2>3. Where(call', "running") = Where(call, "running") /\ Where(call', "queued") = Where(call, "queued")
    BY <1>6, <2>2 DEF Where
  <2>4. FlowTypeOK' /\ Books(queue', inflight', call')
    BY <1>1, <1>2, <1>5, <2>1, <2>2, <2>3 DEF FlowTypeOK, Books
  <2>5. Sending'
    BY <1>8, <1>9, <2>2 DEF Sending
  <2> QED BY <1>1, <1>2, <2>1, <2>4, <2>5, HoldBooks
<1>11. CASE ~(started >= MaxAgents)
  <2>. DEFINE others == [call EXCEPT ![c] = "queued"]
              q == Append(queue, c)
  <2>1. started' = started + 1 /\ W!PumpCalls(q, inflight, others, down)
    BY <1>4, <1>11 DEF W!HandleCall
  <2>2. others \in [CallIds -> Places] /\ others[c] = "queued" /\ \A x \in CallIds \ {c} : others[x] = call[x]
    BY <1>1 DEF Places
  <2>3. /\ q \in Seq(CallIds) /\ Len(queue) \in Nat /\ DOMAIN queue = 1..Len(queue) /\ DOMAIN q = 1..(Len(queue) + 1)
        /\ \A i \in 1..Len(queue) : q[i] = queue[i]
        /\ q[Len(queue) + 1] = c
    BY <1>1
  <2>. HIDE DEF others, q
  <2>4. /\ Where(others, "running") = Where(call, "running")
        /\ Where(others, "queued") = Where(call, "queued") \cup {c} /\ c \notin Where(call, "queued")
    BY <1>6, <2>2 DEF Where
  <2>5. Elements(queue) = Where(call, "queued") /\ inflight <= Width /\ inflight = Cardinality(Where(others, "running"))
    BY <1>2, <2>4 DEF Books
  <2>6. Elements(q) = Elements(queue) \cup {c}
    <3>1. ASSUME NEW x \in Elements(q)
          PROVE  x \in Elements(queue) \cup {c}
      <4>1. PICK i \in 1..(Len(queue) + 1) : x = q[i]
        BY <2>3 DEF Elements
      <4>2. i \in 1..Len(queue) \/ i = Len(queue) + 1
        BY <2>3
      <4> QED BY <2>3, <4>1, <4>2 DEF Elements
    <3>2. ASSUME NEW x \in Elements(queue)
          PROVE  x \in Elements(q)
      <4>1. PICK i \in 1..Len(queue) : x = queue[i]
        BY <2>3 DEF Elements
      <4>2. i \in DOMAIN q /\ q[i] = x
        BY <2>3, <4>1
      <4> QED BY <4>2 DEF Elements
    <3>3. c \in Elements(q)
      <4>1. Len(queue) + 1 \in DOMAIN q
        BY <2>3
      <4> QED BY <2>3, <4>1 DEF Elements
    <3> QED BY <3>1, <3>2, <3>3
  <2>7. Distinct(q)
    <3>1. \A i \in 1..Len(queue) : queue[i] # c
      BY <2>3, <2>4, <2>5 DEF Elements
    <3> QED BY <1>1, <2>3, <3>1 DEF Distinct
  <2>8. Elements(q) = Where(others, "queued")
    BY <2>4, <2>5, <2>6
  <2>9. /\ call' \in [CallIds -> Places] /\ queue' \in Seq(CallIds) /\ Distinct(queue')
        /\ inflight' \in Nat /\ inflight' <= Width /\ inflight' = Cardinality(Where(call', "running"))
        /\ queue' # <<>> => inflight' = Width
        /\ Elements(queue') = Where(call', "queued")
        /\ \A x \in CallIds : others[x] # "queued" => call'[x] = others[x]
    BY <1>1, <2>1, <2>2, <2>3, <2>5, <2>7, <2>8, PumpKeeps
  <2>10. started' \in Nat /\ started' <= MaxAgents
    BY <1>1, <1>11, <2>1, ServiceAssumption
  <2>11. FlowTypeOK' /\ Books(queue', inflight', call')
    BY <1>5, <2>9, <2>10 DEF FlowTypeOK, Books
  <2>12. Sending'
    <3>1. \A i \in DOMAIN up' : call'[up'[i]] = "sent"
      BY <1>9, <2>2, <2>9
    <3> QED BY <1>8, <3>1 DEF Sending
  <2> QED BY <2>9, <2>10, <2>11, <2>12, HoldBooks
<1> QED BY <1>10, <1>11

LEMMA FlowStep ==
    ASSUME FlowInv, W!Next
    PROVE  FlowInv'
<1>1. ASSUME NEW c \in CallIds, W!Agent(c) \/ W!ChildEnds(c)
      PROVE  FlowInv'
  BY <1>1, FlowAsks, FlowEnds
<1>2. CASE W!HandleCall
  BY <1>2, FlowReads
<1>3. CASE W!Hear \/ W!ScriptEnds \/ W!Done \/ W!RunEnds \/ W!Cancel \/ W!Shutdown \/ W!WriteFails
  BY <1>3, FlowRests DEF W!Hear, W!ScriptEnds, W!Done, W!RunEnds, W!Cancel, W!Shutdown, W!WriteFails
<1> QED BY <1>1, <1>2, <1>3 DEF W!Next

----------------------------------------------------------------------------
(***************************************************************************)
(* A shell command                                                         *)
(***************************************************************************)
BashTypeOK ==
    /\ taken \in [Streams -> Nat] /\ kept \in [Streams -> Nat] /\ spilled \in [Streams -> Nat]
    /\ written \in [Streams -> Nat] /\ spill \in [Streams -> {"none", "open", "failed", "headless"}]
BashInv == BashTypeOK /\ B!SpillComplete

LEMMA SmallerOfTwo ==
    ASSUME NEW a \in Nat, NEW b \in Nat
    PROVE  B!Min({a, b}) = IF a <= b THEN a ELSE b
<1>1. B!Min({a, b}) = CHOOSE x \in {a, b} : \A y \in {a, b} : x <= y
  BY DEF B!Min
<1>2. \E x \in {a, b} : \A y \in {a, b} : x <= y
  OBVIOUS
<1>3. B!Min({a, b}) \in {a, b} /\ \A y \in {a, b} : B!Min({a, b}) <= y
  BY <1>1, <1>2
<1> QED BY <1>3

(* What is promised of one stream, the smaller of two numbers spelled out. *)
Whole(t, k, sp, f) ==
    /\ k = IF t <= Cap THEN t ELSE Cap
    /\ f = "none" <=> t <= Cap
    /\ f = "open" => sp = IF t <= Limit THEN t ELSE Limit

LEMMA Spelled ==
    ASSUME NEW t \in Nat, NEW k, NEW sp, NEW f
    PROVE  Whole(t, k, sp, f) <=> /\ k = B!Min({t, Cap})
                                  /\ f = "none" <=> t <= Cap
                                  /\ f = "open" => sp = B!Min({t, Limit})
<1>1. Cap \in Nat /\ Limit \in Nat
  BY ServiceAssumption
<1>2. /\ B!Min({t, Cap}) = IF t <= Cap THEN t ELSE Cap
      /\ B!Min({t, Limit}) = IF t <= Limit THEN t ELSE Limit
  BY <1>1, SmallerOfTwo
<1> QED BY <1>2 DEF Whole

LEMMA BashInitially == B!Init => BashInv
<1>. SUFFICES ASSUME B!Init
              PROVE  BashInv
  OBVIOUS
<1>1. /\ written = [s \in Streams |-> 0] /\ taken = [s \in Streams |-> 0] /\ kept = [s \in Streams |-> 0]
      /\ spilled = [s \in Streams |-> 0] /\ spill = [s \in Streams |-> "none"]
  BY DEF B!Init
<1>2. BashTypeOK
  BY <1>1 DEF BashTypeOK
<1>3. \A s \in Streams : Whole(taken[s], kept[s], spilled[s], spill[s])
  BY <1>1, ServiceAssumption DEF Whole
<1>4. \A s \in Streams : taken[s] \in Nat
  BY <1>2 DEF BashTypeOK
<1> QED BY <1>2, <1>3, <1>4, Spelled DEF BashInv, B!SpillComplete

(* A step that reads nothing.                                              *)
LEMMA NothingRead ==
    ASSUME BashInv, written' \in [Streams -> Nat],
           taken' = taken, kept' = kept, spilled' = spilled, spill' = spill
    PROVE  BashInv'
BY DEF BashInv, BashTypeOK, B!SpillComplete

(* What a read of n bytes of which some fit leaves in the spill file.      *)
Overflows(k, sp, f, n, fits, sg, g) ==
    /\ fits < n /\ g # "none"
    /\ g = "open" => \/ f = "none" /\ sg = IF Limit <= k + n THEN Limit ELSE k + n
                     \/ f = "open" /\ sg = IF Limit <= sp + (n - fits) THEN Limit ELSE sp + (n - fits)

(* How many of n bytes fit into memory, and one stream after they are read.*)
Fit(k, n) == IF n <= Cap - k THEN n ELSE Cap - k
StaysWhole(t, k, sp, f, n, fits) ==
    /\ fits \in Nat /\ fits <= n
    /\ fits = n => Whole(t + n, k + fits, sp, f)
    /\ \A g, sg : Overflows(k, sp, f, n, fits, sg, g) => Whole(t + n, k + fits, sg, g)

LEMMA StreamRead ==
    ASSUME NEW t \in Nat, NEW k \in Nat, NEW sp \in Nat, NEW f, Whole(t, k, sp, f), NEW n \in Nat, n > 0
    PROVE  StaysWhole(t, k, sp, f, n, Fit(k, n))
<1>. DEFINE fits == Fit(k, n)
<1>0. fits = IF n <= Cap - k THEN n ELSE Cap - k
  BY DEF Fit
<1>. HIDE DEF fits
<1>1. Cap \in Nat /\ Limit \in Nat
  BY ServiceAssumption
<1>2. k <= Cap /\ (t <= Cap => k = t) /\ (t > Cap => k = Cap)
  BY <1>1 DEF Whole
<1>3. fits \in Nat /\ fits <= n
  BY <1>0, <1>1, <1>2
<1>4. fits = n => Whole(t + n, k + fits, sp, f)
  <2>1. SUFFICES ASSUME fits = n
                 PROVE  Whole(t + n, k + n, sp, f)
    OBVIOUS
  <2>2. t + n <= Cap /\ t <= Cap /\ k = t
    BY <1>0, <1>1, <1>2, <2>1
  <2>3. f = "none"
    BY <2>2 DEF Whole
  <2> QED BY <2>2, <2>3 DEF Whole
<1>5. ASSUME NEW g, NEW sg, Overflows(k, sp, f, n, fits, sg, g)
      PROVE  Whole(t + n, k + fits, sg, g)
  <2>. USE <1>5 DEF Overflows
  <2>1. k + fits = Cap /\ t + n > Cap
    BY <1>0, <1>1, <1>2, <1>5
  <2>2. g = "open" => sg = IF t + n <= Limit THEN t + n ELSE Limit
    <3>1. CASE f = "none" /\ sg = IF Limit <= k + n THEN Limit ELSE k + n
      <4>1. k = t
        BY <1>2, <3>1 DEF Whole
      <4> QED BY <1>1, <3>1, <4>1
    <3>2. CASE f = "open" /\ sg = IF Limit <= sp + (n - fits) THEN Limit ELSE sp + (n - fits)
      <4>1. t > Cap /\ k = Cap /\ sp = IF t <= Limit THEN t ELSE Limit
        BY <1>1, <1>2, <3>2 DEF Whole
      <4>2. fits = 0
        BY <1>0, <1>1, <4>1
      <4> QED BY <1>1, <3>2, <4>1, <4>2
    <3> QED BY <1>5, <3>1, <3>2
  <2> QED BY <1>1, <1>5, <2>1, <2>2 DEF Whole
<1> QED BY <1>3, <1>4, <1>5 DEF StaysWhole, fits

LEMMA BashDrains ==
    ASSUME BashInv, NEW s \in Streams, NEW n \in Nat, B!Drain(s, n)
    PROVE  BashInv'
<1>. DEFINE fits == Fit(kept[s], n)
<1>1. /\ taken \in [Streams -> Nat] /\ kept \in [Streams -> Nat] /\ spilled \in [Streams -> Nat]
      /\ written \in [Streams -> Nat] /\ spill \in [Streams -> {"none", "open", "failed", "headless"}]
      /\ Cap \in Nat /\ Limit \in Nat
  BY ServiceAssumption DEF BashInv, BashTypeOK
<1>2. taken[s] \in Nat /\ kept[s] \in Nat /\ spilled[s] \in Nat /\ written[s] \in Nat
  BY <1>1
<1>3. \A x \in Streams : Whole(taken[x], kept[x], spilled[x], spill[x])
  <2>1. \A x \in Streams : taken[x] \in Nat
    BY <1>1
  <2> QED BY <2>1, Spelled DEF BashInv, B!SpillComplete
<1>4. kept[s] <= Cap
  BY <1>1, <1>2, <1>3 DEF Whole
<1>5. B!Min({n, Cap - kept[s]}) = fits
  <2>1. Cap - kept[s] \in Nat
    BY <1>1, <1>2, <1>4
  <2> QED BY <2>1, SmallerOfTwo DEF Fit
<1>6. /\ n \in 1..(written[s] - taken[s])
      /\ taken' = [taken EXCEPT ![s] = @ + n]
      /\ kept' = [kept EXCEPT ![s] = @ + fits]
      /\ written' = written
      /\ IF fits < n THEN B!Spill(s, kept'[s], n - fits) ELSE UNCHANGED <<spill, spilled>>
  <2>. HIDE DEF fits
  <2> QED BY <1>5 DEF B!Drain, B!process
<1>7. n \in Nat /\ n > 0
  BY <1>6, <1>2
<1>8. /\ fits \in Nat /\ fits <= n
      /\ fits = n => Whole(taken[s] + n, kept[s] + fits, spilled[s], spill[s])
      /\ \A g, sg : Overflows(kept[s], spilled[s], spill[s], n, fits, sg, g)
                    => Whole(taken[s] + n, kept[s] + fits, sg, g)
  <2>1. StaysWhole(taken[s], kept[s], spilled[s], spill[s], n, fits)
    BY <1>2, <1>3, <1>7, StreamRead
  <2> QED BY <2>1 DEF StaysWhole
<1>. HIDE DEF fits
<1>9. /\ taken' \in [Streams -> Nat] /\ kept' \in [Streams -> Nat]
      /\ taken'[s] = taken[s] + n /\ kept'[s] = kept[s] + fits
      /\ \A x \in Streams \ {s} : taken'[x] = taken[x] /\ kept'[x] = kept[x]
  BY <1>1, <1>2, <1>6, <1>7, <1>8
<1>10. CASE ~(fits < n)
  <2>1. spill' = spill /\ spilled' = spilled /\ fits = n
    BY <1>6, <1>7, <1>8, <1>10
  <2>2. BashTypeOK'
    BY <1>1, <1>6, <1>9, <2>1 DEF BashTypeOK
  <2>3. Whole(taken'[s], kept'[s], spilled'[s], spill'[s])
    BY <1>8, <1>9, <2>1
  <2>4. \A x \in Streams \ {s} : Whole(taken'[x], kept'[x], spilled'[x], spill'[x])
    BY <1>3, <1>9, <2>1
  <2>5. B!SpillComplete'
    <3>1. \A x \in Streams : taken'[x] \in Nat /\ Whole(taken'[x], kept'[x], spilled'[x], spill'[x])
      BY <1>9, <2>3, <2>4
    <3> QED BY <3>1, Spelled DEF B!SpillComplete
  <2> QED BY <2>2, <2>5 DEF BashInv
<1>11. CASE fits < n
  <2>1. B!Spill(s, kept'[s], n - fits)
    BY <1>6, <1>11
  <2>2. PICK f \in B!Opens(spill[s]) :
            /\ spill' = [spill EXCEPT ![s] = f]
            /\ spilled' = [spilled EXCEPT ![s] =
                   CASE f = "failed" -> 0
                     [] f = "open" /\ spill[s] = "none" -> B!Min({Limit, kept'[s] + (n - fits)})
                     [] OTHER -> B!Min({Limit, @ + (n - fits)})]
    BY <2>1 DEF B!Spill
  <2>3. f \in {"open", "failed", "headless"} /\ (f = "open" => spill[s] \in {"none", "open"})
    <3>1. spill[s] \in {"none", "open", "failed", "headless"}
      BY <1>1
    <3> QED BY <3>1, <2>2, <1>1 DEF B!Opens
  <2>4. n - fits \in Nat /\ kept'[s] + (n - fits) = kept[s] + n /\ kept[s] + n \in Nat /\ spilled[s] + (n - fits) \in Nat
    BY <1>2, <1>7, <1>8, <1>9, <1>11
  <2>5. /\ B!Min({Limit, kept'[s] + (n - fits)}) = IF Limit <= kept[s] + n THEN Limit ELSE kept[s] + n
        /\ B!Min({Limit, spilled[s] + (n - fits)}) = IF Limit <= spilled[s] + (n - fits) THEN Limit ELSE spilled[s] + (n - fits)
    BY <1>1, <2>4, SmallerOfTwo
  <2>6. /\ spilled'[s] \in Nat
        /\ f = "open" => \/ spill[s] = "none" /\ spilled'[s] = IF Limit <= kept[s] + n THEN Limit ELSE kept[s] + n
                         \/ spill[s] = "open" /\ spilled'[s] = IF Limit <= spilled[s] + (n - fits) THEN Limit
                                                                ELSE spilled[s] + (n - fits)
    <3>1. spilled'[s] = CASE f = "failed" -> 0
                          [] f = "open" /\ spill[s] = "none" -> B!Min({Limit, kept'[s] + (n - fits)})
                          [] OTHER -> B!Min({Limit, spilled[s] + (n - fits)})
      BY <1>1, <2>2
    <3>2. CASE f = "failed"
      BY <3>1, <3>2
    <3>3. CASE f = "open" /\ spill[s] = "none"
      BY <3>1, <3>3, <2>4, <2>5, <1>1
    <3>4. CASE ~(f = "failed") /\ ~(f = "open" /\ spill[s] = "none")
      BY <3>1, <3>4, <2>3, <2>4, <2>5, <1>1
    <3> QED BY <3>2, <3>3, <3>4
  <2>7. /\ spill' \in [Streams -> {"none", "open", "failed", "headless"}] /\ spilled' \in [Streams -> Nat] /\ spill'[s] = f
        /\ \A x \in Streams \ {s} : spill'[x] = spill[x] /\ spilled'[x] = spilled[x]
    <3>1. spill' \in [Streams -> {"none", "open", "failed", "headless"}] /\ spill'[s] = f
      BY <1>1, <2>2, <2>3
    <3>2. \A x \in Streams \ {s} : spill'[x] = spill[x] /\ spilled'[x] = spilled[x]
      BY <1>1, <2>2
    <3>3. spilled' = [x \in Streams |-> IF x = s THEN spilled'[s] ELSE spilled[x]]
      BY <1>1, <2>2
    <3>4. spilled' \in [Streams -> Nat]
      BY <1>1, <2>6, <3>3
    <3> QED BY <3>1, <3>2, <3>4
  <2>8. BashTypeOK'
    BY <1>1, <1>6, <1>9, <2>7 DEF BashTypeOK
  <2>9. Whole(taken'[s], kept'[s], spilled'[s], spill'[s])
    <3>1. Overflows(kept[s], spilled[s], spill[s], n, fits, spilled'[s], f)
      BY <1>11, <2>3, <2>6 DEF Overflows
    <3> QED BY <1>8, <1>9, <2>7, <3>1
  <2>10. \A x \in Streams \ {s} : Whole(taken'[x], kept'[x], spilled'[x], spill'[x])
    BY <1>3, <1>9, <2>7
  <2>11. B!SpillComplete'
    <3>1. \A x \in Streams : taken'[x] \in Nat /\ Whole(taken'[x], kept'[x], spilled'[x], spill'[x])
      BY <1>9, <2>9, <2>10
    <3> QED BY <3>1, Spelled DEF B!SpillComplete
  <2> QED BY <2>8, <2>11 DEF BashInv
<1> QED BY <1>10, <1>11

LEMMA BashStep ==
    ASSUME BashInv, B!Next
    PROVE  BashInv'
<1>. USE DEF B!output, B!process
<1>1. CASE B!Begin \/ B!Fire \/ B!Stop \/ B!PipesClose \/ B!Answer
  BY <1>1, NothingRead DEF B!Begin, B!Fire, B!Stop, B!PipesClose, B!Answer, BashInv, BashTypeOK
<1>2. CASE \E as \in {"exited", "signalled"} : B!Exit(as)
  BY <1>2, NothingRead DEF B!Exit, BashInv, BashTypeOK
<1>3. ASSUME NEW s \in Streams, B!Write(s)
      PROVE  BashInv'
  <2>1. /\ taken' = taken /\ kept' = kept /\ spilled' = spilled /\ spill' = spill
        /\ written' = [written EXCEPT ![s] = @ + 1]
    BY <1>3 DEF B!Write
  <2>2. written' \in [Streams -> Nat]
    BY <2>1 DEF BashInv, BashTypeOK
  <2> QED BY <2>1, <2>2, NothingRead
<1>4. ASSUME NEW s \in Streams, B!End(s)
      PROVE  BashInv'
  <2>1. taken' = taken /\ kept' = kept /\ spilled' = spilled /\ spill' = spill /\ written' = written
    BY <1>4 DEF B!End
  <2> QED BY <2>1, NothingRead DEF BashInv, BashTypeOK
<1>5. ASSUME NEW s \in Streams, NEW n \in 1..MaxBytes, B!Drain(s, n)
      PROVE  BashInv'
  BY <1>5, BashDrains, ServiceAssumption
<1> QED BY <1>1, <1>2, <1>3, <1>4, <1>5 DEF B!Next

(***************************************************************************)
(* The services side by side                                               *)
(***************************************************************************)
ServicesInv == McpInv /\ FlowInv /\ BashInv

LEMMA McpRests ==
    ASSUME McpInv, UNCHANGED mcp
    PROVE  McpInv'
<1>1. /\ tools' = tools /\ registered' = registered /\ stale' = stale /\ error' = error /\ peer' = peer /\ pipe' = pipe
      /\ queued' = queued /\ answer' = answer /\ wake' = wake /\ mgr' = mgr
  BY DEF mcp
<1> QED BY <1>1, QuietStep DEF McpInv, McpTypeOK

LEMMA FlowUntouched ==
    ASSUME FlowInv, UNCHANGED workflow
    PROVE  FlowInv'
BY FlowRests DEF workflow

LEMMA BashRests ==
    ASSUME BashInv, UNCHANGED bash
    PROVE  BashInv'
BY NothingRead DEF bash, BashInv, BashTypeOK

LEMMA ServicesInitially == Init => ServicesInv
BY McpInitially, FlowInitially, BashInitially DEF Init, ServicesInv

LEMMA ServicesStep ==
    ASSUME ServicesInv, [Next]_vars
    PROVE  ServicesInv'
<1>. USE DEF ServicesInv
<1>1. CASE AloneW /\ W!Next
  BY <1>1, FlowStep, McpRests, BashRests DEF AloneW
<1>2. CASE AloneM /\ M!Next
  BY <1>2, McpStep, FlowUntouched, BashRests DEF AloneM
<1>3. CASE AloneB /\ B!Next
  BY <1>3, BashStep, FlowUntouched, McpRests DEF AloneB
<1>4. CASE AloneD /\ D!Next
  BY <1>4, FlowUntouched, McpRests, BashRests DEF AloneD
<1>5. CASE UNCHANGED vars
  BY <1>5, FlowUntouched, McpRests, BashRests DEF vars
<1> QED BY <1>1, <1>2, <1>3, <1>4, <1>5 DEF Next

(***************************************************************************)
(* The books of every service are right in every state: no change of a     *)
(* server's tools is lost to a discovery that was under way, a slot of a   *)
(* workflow is held by a child that runs and by nothing else while calls   *)
(* wait only when none is free, and memory and spill file lose no byte of  *)
(* a command's output below their caps.  (connection.cpp, run and reader;  *)
(* workflow.cpp, pump_calls; shell.cpp, drain.)                            *)
(***************************************************************************)
THEOREM ServicesAccounted == Spec => []Accounted
<1>1. Init => ServicesInv
  BY ServicesInitially
<1>2. ServicesInv /\ [Next]_vars => ServicesInv'
  BY ServicesStep
<1>3. ServicesInv => Accounted
  BY McpSufficient DEF ServicesInv, FlowInv, BashInv, Accounted
<1> QED BY <1>1, <1>2, <1>3, PTL DEF Spec
===============================================================================
