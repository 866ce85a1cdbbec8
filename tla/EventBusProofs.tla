--------------------------- MODULE EventBusProofs ---------------------------
(***************************************************************************)
(* What holds of the event bus for any listeners, dispatches, options and  *)
(* modes: every variable keeps its type (so that no gate counts below      *)
(* zero), the gate of a parallel dispatch counts right, no dispatch calls  *)
(* a listener added after it began, and a failure goes where the mode of   *)
(* its dispatch says: to the sink, to the caller, or to nobody.            *)
(***************************************************************************)
EXTENDS EventBus, FiniteSetTheorems, TLAPS

(* A selection is a vector of listeners that lists exactly its set.        *)
LEMMA SelectionFacts ==
    ASSUME NEW S, S \subseteq Listed, NEW h \in Selections(S)
    PROVE  /\ h \in Seq(Listener) /\ DOMAIN h = 1..Len(h)
           /\ \A i \in DOMAIN h : h[i] \in S
           /\ \A l \in S : \E i \in DOMAIN h : h[i] = l
<1>1. S \subseteq Listener /\ IsFiniteSet(S)
  BY OptionAssumption, FS_Subset DEF Listed
<1>2. Cardinality(S) \in Nat
  BY <1>1, FS_CardinalityType
<1>3. h \in [1..Cardinality(S) -> S]
  BY DEF Selections
<1>4. h \in Seq(S)
  BY <1>2, <1>3
<1>. QED
  BY <1>1, <1>3, <1>4 DEF Selections

(* remove takes exactly one listener off the list, into a new vector.      *)
LEMMA RemovedFacts ==
    ASSUME TypeOK, NEW l \in Listener, Removed(l)
    PROVE  /\ listeners' \in Seq(Listener) /\ version' \in Nat /\ version <= version'
           /\ Listed' = Listed \ {l}
<1>1. listeners' \in Selections(Listed \ {l})
  BY DEF Removed
<1>2. /\ listeners' \in Seq(Listener)
      /\ \A i \in DOMAIN listeners' : listeners'[i] \in Listed \ {l}
      /\ \A m \in Listed \ {l} : \E i \in DOMAIN listeners' : listeners'[i] = m
  BY <1>1, SelectionFacts
<1>3. Listed' = {m \in Listener : \E i \in DOMAIN listeners' : listeners'[i] = m}
  BY DEF Listed
<1>4. Listed' = Listed \ {l}
  <2>1. Listed \subseteq Listener
    BY DEF Listed
  <2>. QED  BY <1>2, <1>3, <2>1
<1>5. version' = version + 1 /\ version \in Nat
  BY DEF Removed, TypeOK
<1>. QED  BY <1>2, <1>4, <1>5

(* What a step that does not begin a dispatch leaves alone of e.           *)
SameList(e, disp) ==
    /\ DOMAIN disp[e].list = DOMAIN dispatch[e].list
    /\ \A i \in DOMAIN dispatch[e].list : disp[e].list[i].l = dispatch[e].list[i].l

(* Moving the slots out of a shared vector changes no dispatch but in the  *)
(* fullness of its slots.                                                  *)
LEMMA EmptiedFacts ==
    ASSUME TypeOK, NEW disp \in [Dispatcher -> Dispatch], NEW l \in Listener,
           \A e \in Dispatcher : SameList(e, disp)
    PROVE  /\ Emptied(disp, l) \in [Dispatcher -> Dispatch]
           /\ \A e \in Dispatcher :
                /\ SameList(e, Emptied(disp, l))
                /\ Emptied(disp, l)[e].phase = disp[e].phase
                /\ Emptied(disp, l)[e].outcome = disp[e].outcome
                /\ Emptied(disp, l)[e].pos = disp[e].pos
                /\ Emptied(disp, l)[e].snap = disp[e].snap
                /\ Emptied(disp, l)[e].private = disp[e].private
                /\ Emptied(disp, l)[e].remaining = disp[e].remaining
<1>. DEFINE slots(e) == [i \in DOMAIN dispatch[e].list |->
                           LET s == dispatch[e].list[i] IN [l |-> s.l, full |-> s.full /\ s.l = l]]
            E == Emptied(disp, l)
<1>1. ASSUME NEW e \in Dispatcher
      PROVE  /\ slots(e) \in Seq(Slot)
             /\ DOMAIN slots(e) = DOMAIN dispatch[e].list
             /\ \A i \in DOMAIN dispatch[e].list : slots(e)[i].l = dispatch[e].list[i].l
  <2>1. dispatch[e].list \in Seq(Slot)
    BY DEF TypeOK, Dispatch
  <2>2. \A i \in DOMAIN dispatch[e].list : dispatch[e].list[i] \in Slot
    BY <2>1
  <2>3. \A i \in DOMAIN dispatch[e].list :
           [l |-> dispatch[e].list[i].l,
            full |-> dispatch[e].list[i].full /\ dispatch[e].list[i].l = l] \in Slot
    BY <2>2 DEF Slot
  <2>4. slots(e) \in [1..Len(dispatch[e].list) -> Slot] /\ Len(dispatch[e].list) \in Nat
    BY <2>1, <2>3
  <2>5. \A i \in DOMAIN dispatch[e].list : slots(e)[i].l = dispatch[e].list[i].l
    OBVIOUS
  <2>6. DOMAIN dispatch[e].list = 1..Len(dispatch[e].list)
    BY <2>1
  <2>. HIDE DEF slots
  <2>7. slots(e) \in Seq(Slot) /\ DOMAIN slots(e) = 1..Len(dispatch[e].list)
    BY <2>4
  <2>. QED  BY <2>5, <2>6, <2>7
<1>2. ASSUME NEW e \in Dispatcher
      PROVE  E[e] = IF Shares(e) THEN [disp[e] EXCEPT !.list = slots(e)] ELSE disp[e]
  BY DEF Emptied
<1>3. ASSUME NEW e \in Dispatcher
      PROVE  /\ E[e] \in Dispatch /\ SameList(e, E)
             /\ E[e].phase = disp[e].phase /\ E[e].outcome = disp[e].outcome
             /\ E[e].pos = disp[e].pos /\ E[e].snap = disp[e].snap
             /\ E[e].private = disp[e].private /\ E[e].remaining = disp[e].remaining
  <2>. HIDE DEF slots, E
  <2>1. disp[e] \in Dispatch
    OBVIOUS
  <2>2. CASE ~Shares(e)
    BY <1>2, <2>1, <2>2 DEF SameList
  <2>3. CASE Shares(e)
    <3>1. E[e] = [disp[e] EXCEPT !.list = slots(e)]
      BY <1>2, <2>3
    <3>2. /\ E[e].list = slots(e)
          /\ E[e] \in Dispatch
          /\ E[e].phase = disp[e].phase /\ E[e].outcome = disp[e].outcome
          /\ E[e].pos = disp[e].pos /\ E[e].snap = disp[e].snap
          /\ E[e].private = disp[e].private /\ E[e].remaining = disp[e].remaining
      BY <1>1, <2>1, <3>1 DEF Dispatch
    <3>. QED  BY <1>1, <3>2 DEF SameList
  <2>. QED  BY <2>2, <2>3
<1>4. E = [e \in Dispatcher |-> E[e]]
  BY DEF Emptied
<1>. QED  BY <1>3, <1>4

(* Moving the callables changes where they live, not what they are doing.  *)
LEMMA MovedFacts ==
    ASSUME TypeOK, NEW cl \in [Dispatcher -> [Listener -> Call]], NEW l \in Listener
    PROVE  /\ Moved(cl, l) \in [Dispatcher -> [Listener -> Call]]
           /\ \A e \in Dispatcher, m \in Listener : Moved(cl, l)[e][m].state = cl[e][m].state
<1>1. ASSUME NEW e \in Dispatcher, NEW m \in Listener
      PROVE  /\ Moved(cl, l)[e][m] \in Call
             /\ Moved(cl, l)[e][m].state = cl[e][m].state
  <2>1. cl[e][m] \in Call /\ version + 1 \in Nat
    BY DEF TypeOK
  <2>2. Moved(cl, l)[e][m] = IF m # l /\ calls[e][m].state = "running" /\ calls[e][m].at = version
                             THEN [cl[e][m] EXCEPT !.at = version + 1] ELSE cl[e][m]
    BY DEF Moved
  <2>. QED  BY <2>1, <2>2 DEF Call
<1>2. Moved(cl, l) = [e \in Dispatcher |-> [m \in Listener |-> Moved(cl, l)[e][m]]]
  BY DEF Moved
<1>. QED  BY <1>1, <1>2

(* Entering a slot: its listener runs, and the list does not grow.         *)
LEMMA EnterFacts ==
    ASSUME TypeOK, NEW d \in Dispatcher, NEW l \in Listener,
           NEW disp \in [Dispatcher -> Dispatch], \A e \in Dispatcher : SameList(e, disp),
           Enter(d, l, disp)
    PROVE  /\ listeners' \in Seq(Listener) /\ version' \in Nat /\ version <= version'
           /\ Listed' \subseteq Listed
           /\ dispatch' \in [Dispatcher -> Dispatch]
           /\ \A e \in Dispatcher :
                /\ SameList(e, dispatch')
                /\ dispatch'[e].phase = disp[e].phase /\ dispatch'[e].outcome = disp[e].outcome
                /\ dispatch'[e].snap = disp[e].snap /\ dispatch'[e].remaining = disp[e].remaining
                /\ dispatch'[e].pos = disp[e].pos
           /\ calls' \in [Dispatcher -> [Listener -> Call]]
           /\ calls'[d][l].state = "running"
           /\ \A e \in Dispatcher, m \in Listener :
                <<e, m>> # <<d, l>> => calls'[e][m].state = calls[e][m].state
<1>. DEFINE c == [state |-> "running", at |-> Lives(d)]
            entered == [calls EXCEPT ![d][l] = c]
<1>1. Lives(d) \in Nat
  BY DEF Lives, TypeOK, Dispatch
<1>2. /\ entered \in [Dispatcher -> [Listener -> Call]]
      /\ entered[d][l].state = "running"
      /\ \A e \in Dispatcher, m \in Listener :
            <<e, m>> # <<d, l>> => entered[e][m].state = calls[e][m].state
  <2>1. c \in Call /\ c.state = "running"
    BY <1>1 DEF Call
  <2>2. calls \in [Dispatcher -> [Listener -> Call]]
    BY DEF TypeOK
  <2>. HIDE DEF c
  <2>. QED  BY <2>1, <2>2
<1>3. CASE l \in Once
  <2>1. Removed(l) /\ dispatch' = Emptied(disp, l) /\ calls' = Moved(entered, l)
    BY <1>3 DEF Enter
  <2>2. /\ listeners' \in Seq(Listener) /\ version' \in Nat /\ version <= version'
        /\ Listed' = Listed \ {l}
    BY <2>1, RemovedFacts
  <2>. HIDE DEF entered
  <2>3. /\ calls' \in [Dispatcher -> [Listener -> Call]]
        /\ \A e \in Dispatcher, m \in Listener : calls'[e][m].state = entered[e][m].state
    BY <1>2, <2>1, MovedFacts
  <2>4. /\ dispatch' \in [Dispatcher -> Dispatch]
        /\ \A e \in Dispatcher :
             /\ SameList(e, dispatch')
             /\ dispatch'[e].phase = disp[e].phase /\ dispatch'[e].outcome = disp[e].outcome
             /\ dispatch'[e].snap = disp[e].snap /\ dispatch'[e].remaining = disp[e].remaining
             /\ dispatch'[e].pos = disp[e].pos
    BY <2>1, EmptiedFacts
  <2>. QED  BY <1>2, <2>2, <2>3, <2>4
<1>4. CASE l \notin Once
  <2>1. dispatch' = disp /\ calls' = entered /\ UNCHANGED <<listeners, version>>
    BY <1>4 DEF Enter
  <2>2. Listed' = Listed /\ version' = version /\ listeners' = listeners
    BY <2>1 DEF Listed
  <2>. HIDE DEF entered
  <2>. QED  BY <1>2, <1>4, <2>1, <2>2 DEF TypeOK
<1>. QED  BY <1>3, <1>4

----------------------------------------------------------------------------
(* A step that keeps every dispatch's vector, empties the list at most, and *)
(* calls only who is in a vector keeps the book of registrations.          *)
LEMMA RegisteredKept ==
    ASSUME TypeOK, Registered, since' = since, version' \in Nat, version <= version',
           Listed' \subseteq Listed,
           \A m \in Listener : reg[m] # "new" => reg'[m] # "new",
           \A e \in Dispatcher :
              /\ SameList(e, dispatch') /\ dispatch'[e].snap = dispatch[e].snap
              /\ dispatch'[e].phase = "idle" => dispatch[e].phase = "idle" /\ Called(e)' = Called(e)
              /\ Called(e)' \subseteq Called(e) \cup InList(e)
    PROVE  Registered'
<1>1. \A m \in Listener : since'[m] <= version'
  BY DEF TypeOK, Registered
<1>2. \A m \in Listed' : reg'[m] # "new"
  BY DEF Registered, Listed
<1>3. ASSUME NEW e \in Dispatcher
      PROVE  /\ dispatch'[e].snap <= version'
             /\ \A m \in InList(e)' : reg'[m] # "new" /\ since'[m] <= dispatch'[e].snap
             /\ \A i, j \in DOMAIN dispatch'[e].list :
                  i # j => dispatch'[e].list[i].l # dispatch'[e].list[j].l
             /\ Called(e)' \subseteq InList(e)'
             /\ dispatch'[e].phase = "idle" => Called(e)' = {}
  <2>1. dispatch'[e].snap <= version'
    <3>1. dispatch[e].snap \in Nat /\ dispatch[e].snap <= version /\ version \in Nat
      BY DEF TypeOK, Dispatch, Registered
    <3>. QED  BY <3>1
  <2>2. InList(e)' = InList(e)
    BY DEF InList, SameList
  <2>3. \A m \in InList(e)' : reg'[m] # "new" /\ since'[m] <= dispatch'[e].snap
    BY <2>2 DEF Registered, InList
  <2>4. \A i, j \in DOMAIN dispatch'[e].list :
           i # j => dispatch'[e].list[i].l # dispatch'[e].list[j].l
    BY DEF SameList, Registered
  <2>5. Called(e)' \subseteq InList(e)'
    BY <2>2 DEF Registered
  <2>6. dispatch'[e].phase = "idle" => Called(e)' = {}
    BY DEF Registered
  <2>. QED  BY <2>1, <2>3, <2>4, <2>5, <2>6
<1>. QED  BY <1>1, <1>2, <1>3 DEF Registered

(* What the gate of one parallel dispatch rests on.                        *)
Sound(d) ==
    mode = "parallel" =>
        /\ dispatch[d].outcome # "none" => dispatch[d].phase = "done"
        /\ Called(d) \subseteq Heard(d)
        /\ \A i \in DOMAIN dispatch[d].list :
              i >= dispatch[d].pos => dispatch[d].list[i].l \notin Called(d)
        /\ \A l \in Listener : calls[d][l].state # "spawned"
        /\ dispatch[d].phase # "idle" =>
              dispatch[d].remaining = Cardinality(Heard(d)) - Cardinality(Finished(d))
        /\ dispatch[d].outcome \in {"ok", "threw"} =>
              Called(d) = Finished(d) /\ Called(d) = Heard(d)

(* The two invariants about gates say that every dispatch is sound.        *)
LEMMA SoundAll == (Phases /\ GateAccounting) <=> \A d \in Dispatcher : Sound(d)
BY DEF Phases, GateAccounting, Sound

(* The same after a step.                                                  *)
LEMMA SoundNext ==
    ASSUME \A d \in Dispatcher : Sound(d)'
    PROVE  Phases' /\ GateAccounting'
BY DEF Phases, GateAccounting, Sound

(* A dispatch a step does not touch stays sound.                           *)
LEMMA SoundStays ==
    ASSUME NEW e \in Dispatcher, Sound(e), mode' = mode, SameList(e, dispatch'),
           dispatch'[e].phase = dispatch[e].phase, dispatch'[e].outcome = dispatch[e].outcome,
           dispatch'[e].pos = dispatch[e].pos, dispatch'[e].remaining = dispatch[e].remaining,
           \A m \in Listener : calls'[e][m].state = calls[e][m].state
    PROVE  Sound(e)'
<1>1. Heard(e)' = Heard(e) /\ Called(e)' = Called(e) /\ Finished(e)' = Finished(e)
  BY DEF Heard, Hears, Called, Finished, SameList
<1>2. /\ DOMAIN dispatch'[e].list = DOMAIN dispatch[e].list
      /\ \A i \in DOMAIN dispatch[e].list : dispatch'[e].list[i].l = dispatch[e].list[i].l
  BY DEF SameList
<1>. QED  BY <1>1, <1>2 DEF Sound

(* The sets the gate counts are finite.                                    *)
LEMMA Finite ==
    ASSUME NEW d \in Dispatcher
    PROVE  /\ IsFiniteSet(Heard(d)) /\ Cardinality(Heard(d)) \in Nat
           /\ IsFiniteSet(Finished(d)) /\ Cardinality(Finished(d)) \in Nat
<1>1. Heard(d) \subseteq Listener /\ Finished(d) \subseteq Listener
  BY DEF Heard, Finished
<1>. QED  BY <1>1, OptionAssumption, FS_Subset, FS_CardinalityType

----------------------------------------------------------------------------
(* A step of d's loop or gate that touches nothing but d's own frame keeps *)
(* the invariant, given what it decides about d.                           *)
LEMMA FrameStep ==
    ASSUME IInv, NEW d \in Dispatcher, NEW r \in Dispatch,
           dispatch' = [dispatch EXCEPT ![d] = r],
           UNCHANGED <<mode, listeners, version, reg, since, calls, sink>>,
           r.list = dispatch[d].list, r.snap = dispatch[d].snap,
           r.remaining = dispatch[d].remaining, r.pos >= dispatch[d].pos,
           dispatch[d].phase # "idle", r.phase # "idle",
           mode = "parallel" /\ r.outcome # "none" => r.phase = "done",
           mode = "parallel" /\ r.outcome \in {"ok", "threw"} =>
              Called(d) = Finished(d) /\ Called(d) = Heard(d)
    PROVE  IInv'
<1>1. TypeOK /\ Registered /\ \A e \in Dispatcher : Sound(e)
  BY SoundAll DEF IInv
<1>2. dispatch \in [Dispatcher -> Dispatch]
  BY <1>1 DEF TypeOK
<1>3. dispatch'[d] = r /\ \A e \in Dispatcher : e # d => dispatch'[e] = dispatch[e]
  BY <1>2
<1>4. TypeOK'
  BY <1>1, <1>2 DEF TypeOK
<1>5. \A e \in Dispatcher : SameList(e, dispatch') /\ dispatch'[e].snap = dispatch[e].snap
  BY <1>3 DEF SameList
<1>6. Listed' = Listed /\ \A e \in Dispatcher : Called(e)' = Called(e)
  BY DEF Listed, Called
<1>7. version' \in Nat /\ version <= version'
  BY <1>1 DEF TypeOK
<1>8. Registered'
  <2>1. \A e \in Dispatcher : dispatch'[e].phase = "idle" => dispatch[e].phase = "idle"
    BY <1>3
  <2>. QED  BY <1>1, <1>5, <1>6, <1>7, <2>1, RegisteredKept
<1>10. ASSUME NEW e \in Dispatcher
       PROVE  Sound(e)'
  <2>1. CASE e # d
    BY <1>1, <1>3, <1>5, <2>1, SoundStays
  <2>2. CASE e = d
    <3>1. Heard(d)' = Heard(d) /\ Called(d)' = Called(d) /\ Finished(d)' = Finished(d)
      BY <1>3 DEF Heard, Hears, Called, Finished
    <3>2. \A i \in DOMAIN r.list : i >= r.pos => i >= dispatch[d].pos
      <4>1. r.pos \in Nat /\ dispatch[d].pos \in Nat
        BY <1>2 DEF Dispatch
      <4>2. DOMAIN r.list = 1..Len(r.list)
        BY DEF Dispatch
      <4>. QED  BY <4>1, <4>2
    <3>. QED  BY <1>1, <1>3, <2>2, <3>1, <3>2 DEF Sound
  <2>. QED  BY <2>1, <2>2
<1>11. Phases' /\ GateAccounting'
  BY <1>10, SoundNext
<1>. QED  BY <1>4, <1>8, <1>11 DEF IInv

(* Entering a listener of d's vector keeps the invariant, given that d's   *)
(* own gate stays sound.                                                   *)
LEMMA EnterStep ==
    ASSUME IInv, NEW d \in Dispatcher, NEW l \in InList(d),
           NEW disp \in [Dispatcher -> Dispatch], Enter(d, l, disp),
           UNCHANGED <<mode, reg, since, sink>>,
           \A e \in Dispatcher : SameList(e, disp) /\ disp[e].snap = dispatch[e].snap,
           \A e \in Dispatcher : e # d => disp[e] = dispatch[e],
           disp[d].phase # "idle", Sound(d)'
    PROVE  IInv'
<1>1. TypeOK /\ Registered /\ \A e \in Dispatcher : Sound(e)
  BY SoundAll DEF IInv
<1>2. l \in Listener
  BY DEF InList
<1>3. /\ listeners' \in Seq(Listener) /\ version' \in Nat /\ version <= version'
      /\ Listed' \subseteq Listed
      /\ dispatch' \in [Dispatcher -> Dispatch]
      /\ \A e \in Dispatcher :
           /\ SameList(e, dispatch')
           /\ dispatch'[e].phase = disp[e].phase /\ dispatch'[e].outcome = disp[e].outcome
           /\ dispatch'[e].snap = disp[e].snap /\ dispatch'[e].remaining = disp[e].remaining
           /\ dispatch'[e].pos = disp[e].pos
      /\ calls' \in [Dispatcher -> [Listener -> Call]]
      /\ \A e \in Dispatcher, m \in Listener :
           <<e, m>> # <<d, l>> => calls'[e][m].state = calls[e][m].state
  BY <1>1, <1>2, EnterFacts
<1>4. TypeOK'
  BY <1>1, <1>3 DEF TypeOK
<1>5. \A e \in Dispatcher : e # d => Called(e)' = Called(e)
  BY <1>3 DEF Called
<1>6. Called(d)' \subseteq Called(d) \cup InList(d)
  BY <1>3 DEF Called
<1>7. Registered'
  <2>1. ASSUME NEW e \in Dispatcher
        PROVE  /\ SameList(e, dispatch') /\ dispatch'[e].snap = dispatch[e].snap
               /\ dispatch'[e].phase = "idle" => dispatch[e].phase = "idle" /\ Called(e)' = Called(e)
               /\ Called(e)' \subseteq Called(e) \cup InList(e)
    BY <1>3, <1>5, <1>6
  <2>. QED  BY <1>1, <1>3, <2>1, RegisteredKept
<1>9. ASSUME NEW e \in Dispatcher
      PROVE  Sound(e)'
  <2>1. CASE e # d
    BY <1>1, <1>3, <2>1, SoundStays, SMTT(40)
  <2>2. CASE e = d
    BY <2>2
  <2>. QED  BY <2>1, <2>2
<1>10. Phases' /\ GateAccounting'
  BY <1>9, SoundNext
<1>. QED  BY <1>4, <1>7, <1>10 DEF IInv

----------------------------------------------------------------------------
(* In a parallel dispatch whoever has answered was called, and whoever was *)
(* called hears it.                                                        *)
LEMMA Nested ==
    ASSUME NEW d \in Dispatcher, Sound(d), mode = "parallel"
    PROVE  Finished(d) \subseteq Called(d) /\ Called(d) \subseteq Heard(d)
BY DEF Sound, Finished, Called

Phase == {"idle", "loop", "awaiting", "unwinding", "gate", "done"}
Outcome == {"none", "ok", "threw", "bailed", "empty"}

(* The loop moves on to the next slot: nothing else of the dispatch changes. *)
LEMMA Advances ==
    ASSUME NEW x \in Dispatch, NEW r, r = [x EXCEPT !.pos = @ + 1]
    PROVE  /\ r \in Dispatch /\ r.list = x.list /\ r.snap = x.snap
           /\ r.remaining = x.remaining /\ r.pos >= x.pos /\ r.pos = x.pos + 1
           /\ r.phase = x.phase /\ r.outcome = x.outcome
BY DEF Dispatch

(* The dispatch enters another phase.                                      *)
LEMMA Waits ==
    ASSUME NEW x \in Dispatch, NEW p \in Phase, NEW r, r = [x EXCEPT !.phase = p]
    PROVE  /\ r \in Dispatch /\ r.list = x.list /\ r.snap = x.snap
           /\ r.remaining = x.remaining /\ r.pos >= x.pos /\ r.pos = x.pos
           /\ r.phase = p /\ r.outcome = x.outcome
BY DEF Dispatch, Phase

Decided(x, o) == [x EXCEPT !.phase = "done", !.outcome = o]

(* Deciding a dispatch ends it, and changes nothing else of it.            *)
LEMMA Decides ==
    ASSUME NEW x \in Dispatch, NEW o \in Outcome
    PROVE  /\ Decided(x, o) \in Dispatch /\ Decided(x, o).list = x.list
           /\ Decided(x, o).snap = x.snap /\ Decided(x, o).remaining = x.remaining
           /\ Decided(x, o).pos >= x.pos
           /\ Decided(x, o).phase = "done" /\ Decided(x, o).outcome = o
<1>. DEFINE r == Decided(x, o)
<1>1. /\ r \in Dispatch /\ r.list = x.list /\ r.snap = x.snap
      /\ r.remaining = x.remaining /\ r.pos = x.pos /\ r.phase = "done" /\ r.outcome = o
  BY DEF Dispatch, Outcome, Decided
<1>2. x.pos \in Nat
  BY DEF Dispatch
<1>. QED  BY <1>1, <1>2

(* Skipping a deaf listener keeps the invariant.                           *)
LEMMA SkipStep == ASSUME IInv, NEW d \in Dispatcher, Skip(d) PROVE IInv'
<1>. DEFINE r == [dispatch[d] EXCEPT !.pos = @ + 1]
<1>1. dispatch[d] \in Dispatch /\ dispatch \in [Dispatcher -> Dispatch] /\ Sound(d)
  BY SoundAll DEF IInv, TypeOK
<1>2. /\ r \in Dispatch /\ r.list = dispatch[d].list /\ r.snap = dispatch[d].snap
      /\ r.remaining = dispatch[d].remaining /\ r.pos >= dispatch[d].pos
      /\ r.phase = dispatch[d].phase /\ r.outcome = dispatch[d].outcome
  BY <1>1, Advances
<1>3. dispatch' = [dispatch EXCEPT ![d] = r] /\ dispatch[d].phase = "loop"
  BY <1>1 DEF Skip, InLoop
<1>4. UNCHANGED <<mode, listeners, version, reg, since, calls, sink>>
  BY DEF Skip
<1>. HIDE DEF r
<1>5. mode = "parallel" => r.outcome = "none"
  BY <1>1, <1>2, <1>3 DEF Sound, Dispatch
<1>. QED  BY <1>2, <1>3, <1>4, <1>5, FrameStep

(* An emptied slot ends the dispatch; nothing is awaited then.             *)
LEMMA InvokeEmptyStep == ASSUME IInv, NEW d \in Dispatcher, InvokeEmpty(d) PROVE IInv'
<1>. DEFINE r == Decided(dispatch[d], "empty")
<1>1. dispatch[d] \in Dispatch /\ dispatch \in [Dispatcher -> Dispatch]
  BY DEF IInv, TypeOK
<1>2. /\ r \in Dispatch /\ r.list = dispatch[d].list /\ r.snap = dispatch[d].snap
      /\ r.remaining = dispatch[d].remaining /\ r.pos >= dispatch[d].pos
      /\ r.phase = "done" /\ r.outcome = "empty"
  BY <1>1, Decides DEF Outcome
<1>3. dispatch' = [dispatch EXCEPT ![d] = r] /\ dispatch[d].phase = "loop"
  BY <1>1 DEF InvokeEmpty, InLoop, Decided
<1>4. UNCHANGED <<mode, listeners, version, reg, since, calls, sink>>
  BY DEF InvokeEmpty
<1>. HIDE DEF r
<1>. QED  BY <1>2, <1>3, <1>4, FrameStep

(* A loop that ends a parallel dispatch on the spot had nobody to call.    *)
LEMMA LoopEndsStep == ASSUME IInv, NEW d \in Dispatcher, LoopEnds(d) PROVE IInv'
<1>. DEFINE gated == mode = "parallel" /\ (dispatch[d].remaining > 0 \/ Called(d) # {})
            g == [dispatch[d] EXCEPT !.phase = "gate"]
            e == Decided(dispatch[d], "ok")
<1>1. dispatch[d] \in Dispatch /\ dispatch \in [Dispatcher -> Dispatch] /\ Sound(d)
  BY SoundAll DEF IInv, TypeOK
<1>2. /\ g \in Dispatch /\ g.list = dispatch[d].list /\ g.snap = dispatch[d].snap
      /\ g.remaining = dispatch[d].remaining /\ g.pos >= dispatch[d].pos
      /\ g.phase = "gate" /\ g.outcome = dispatch[d].outcome
  BY <1>1, Waits DEF Phase
<1>3. /\ e \in Dispatch /\ e.list = dispatch[d].list /\ e.snap = dispatch[d].snap
      /\ e.remaining = dispatch[d].remaining /\ e.pos >= dispatch[d].pos
      /\ e.phase = "done" /\ e.outcome = "ok"
  BY <1>1, Decides DEF Outcome
<1>4. /\ dispatch[d].phase = "loop"
      /\ UNCHANGED <<mode, listeners, version, reg, since, calls, sink>>
      /\ gated => dispatch' = [dispatch EXCEPT ![d] = g]
      /\ ~gated => dispatch' = [dispatch EXCEPT ![d] = e]
  BY <1>1 DEF LoopEnds, Decided
<1>5. CASE gated
  <2>1. dispatch[d].outcome = "none"
    BY <1>1, <1>4, <1>5 DEF Sound
  <2>. HIDE DEF g
  <2>. QED  BY <1>2, <1>4, <1>5, <2>1, FrameStep
<1>6. CASE ~gated
  <2>1. mode = "parallel" => Called(d) = Finished(d) /\ Called(d) = Heard(d)
    <3>1. SUFFICES ASSUME mode = "parallel"
                   PROVE  Called(d) = Finished(d) /\ Called(d) = Heard(d)
      OBVIOUS
    <3>2. Called(d) = {} /\ Finished(d) = {} /\ dispatch[d].remaining = 0
      BY <1>1, <1>6, <3>1, Nested DEF Dispatch
    <3>3. Cardinality(Heard(d)) = 0
      <4>1. dispatch[d].remaining = Cardinality(Heard(d)) - Cardinality(Finished(d))
        BY <1>1, <1>4, <3>1 DEF Sound
      <4>2. Cardinality(Finished(d)) = 0
        BY <3>2, FS_EmptySet
      <4>. QED  BY <3>2, <4>1, <4>2, Finite
    <3>. QED  BY <3>2, <3>3, Finite, FS_EmptySet
  <2>. HIDE DEF e, gated
  <2>. QED  BY <1>3, <1>4, <1>6, <2>1, FrameStep
<1>. QED  BY <1>5, <1>6

(* A gate that opens at zero has heard from everybody.                     *)
LEMMA GateOpensStep == ASSUME IInv, NEW d \in Dispatcher, GateOpens(d) PROVE IInv'
<1>. DEFINE o == IF \E l \in Listener : calls[d][l].state = "threw" THEN "threw" ELSE "ok"
            r == Decided(dispatch[d], o)
<1>1. dispatch[d] \in Dispatch /\ dispatch \in [Dispatcher -> Dispatch] /\ Sound(d)
  BY SoundAll DEF IInv, TypeOK
<1>2. o \in {"threw", "ok"}
  OBVIOUS
<1>3. /\ dispatch' = [dispatch EXCEPT ![d] = r]
      /\ dispatch[d].phase = "gate" /\ dispatch[d].remaining = 0
      /\ UNCHANGED <<mode, listeners, version, reg, since, calls, sink>>
  BY <1>1 DEF GateOpens, Decided
<1>4. /\ r \in Dispatch /\ r.list = dispatch[d].list /\ r.snap = dispatch[d].snap
      /\ r.remaining = dispatch[d].remaining /\ r.pos >= dispatch[d].pos
      /\ r.phase = "done" /\ r.outcome = o
  <2>1. o \in Outcome
    BY <1>2 DEF Outcome
  <2>. HIDE DEF o
  <2>. QED  BY <1>1, <2>1, Decides
<1>5. mode = "parallel" => Called(d) = Finished(d) /\ Called(d) = Heard(d)
  <2>1. SUFFICES ASSUME mode = "parallel"
                 PROVE  Called(d) = Finished(d) /\ Called(d) = Heard(d)
    OBVIOUS
  <2>2. Cardinality(Heard(d)) = Cardinality(Finished(d))
    <3>1. dispatch[d].remaining = Cardinality(Heard(d)) - Cardinality(Finished(d))
      BY <1>1, <1>3, <2>1 DEF Sound
    <3>. QED  BY <1>3, <3>1, Finite
  <2>3. Finished(d) \subseteq Called(d) /\ Called(d) \subseteq Heard(d)
    BY <1>1, <2>1, Nested
  <2>4. Finished(d) = Heard(d)
    BY <2>2, <2>3, Finite, FS_Subset
  <2>. QED  BY <2>3, <2>4
<1>. HIDE DEF r, o
<1>. QED  BY <1>3, <1>4, <1>5, FrameStep

----------------------------------------------------------------------------
(* The slots of a dispatch's vector hold listeners of that vector.         *)
LEMMA SlotInList ==
    ASSUME TypeOK, NEW d \in Dispatcher, NEW i \in Nat \ {0}, i <= Len(dispatch[d].list)
    PROVE  /\ i \in DOMAIN dispatch[d].list /\ dispatch[d].list[i].l \in InList(d)
           /\ dispatch[d].list[i].l \in Listener
<1>1. dispatch[d].list \in Seq(Slot)
  BY DEF TypeOK, Dispatch
<1>2. i \in DOMAIN dispatch[d].list /\ dispatch[d].list[i] \in Slot
  BY <1>1
<1>. QED  BY <1>2 DEF InList, Slot

(* The loop of serial, bail or waterfall enters a listener and awaits it;  *)
(* the loop of a parallel dispatch calls one it has not called before.     *)
LEMMA InvokeStep == ASSUME IInv, NEW d \in Dispatcher, Invoke(d) PROVE IInv'
<1>. DEFINE l == At(d).l
            w == [dispatch[d] EXCEPT !.phase = "awaiting"]
            a == [dispatch[d] EXCEPT !.pos = dispatch[d].pos + 1]
            par == mode = "parallel"
            r == IF par THEN a ELSE w
            disp == [dispatch EXCEPT ![d] = r]
<1>1. /\ TypeOK /\ Registered /\ Sound(d) /\ dispatch \in [Dispatcher -> Dispatch]
      /\ dispatch[d] \in Dispatch
  BY SoundAll DEF IInv, TypeOK
<1>2. dispatch[d].pos \in Nat \ {0} /\ dispatch[d].pos <= Len(dispatch[d].list)
      /\ dispatch[d].phase = "loop" /\ Hears(d, l)
  BY <1>1 DEF Invoke, InLoop, Dispatch
<1>3. /\ dispatch[d].pos \in DOMAIN dispatch[d].list /\ l = dispatch[d].list[dispatch[d].pos].l
      /\ l \in InList(d) /\ l \in Listener
  BY <1>1, <1>2, SlotInList DEF At
<1>4. w \in Dispatch /\ w.list = dispatch[d].list /\ w.snap = dispatch[d].snap /\ w.phase = "awaiting"
  BY <1>1, Waits DEF Phase
<1>5. /\ a \in Dispatch /\ a.list = dispatch[d].list /\ a.snap = dispatch[d].snap
      /\ a.phase = "loop" /\ a.remaining = dispatch[d].remaining
      /\ a.pos = dispatch[d].pos + 1 /\ a.outcome = dispatch[d].outcome
  BY <1>1, <1>2, Advances
<1>6. /\ Enter(d, l, disp) /\ UNCHANGED <<mode, reg, since, sink>>
  BY <1>1 DEF Invoke
<1>. HIDE DEF w, a, par
<1>7. r \in Dispatch /\ r.list = dispatch[d].list /\ r.snap = dispatch[d].snap /\ r.phase # "idle"
  BY <1>4, <1>5
<1>. HIDE DEF r
<1>8. disp \in [Dispatcher -> Dispatch] /\ disp[d] = r
      /\ \A e \in Dispatcher : e # d => disp[e] = dispatch[e]
  BY <1>1, <1>7
<1>. HIDE DEF disp
<1>9. \A e \in Dispatcher : SameList(e, disp) /\ disp[e].snap = dispatch[e].snap
  BY <1>7, <1>8 DEF SameList
<1>10. Sound(d)'
  <2>1. CASE ~par
    BY <1>6, <2>1 DEF Sound, par
  <2>2. CASE par
    <3>. HIDE DEF l
    <3>1. r = a /\ mode = "parallel" /\ mode' = "parallel"
      BY <1>6, <2>2 DEF r, par
    <3>2. /\ SameList(d, dispatch')
          /\ dispatch'[d].phase = "loop" /\ dispatch'[d].outcome = dispatch[d].outcome
          /\ dispatch'[d].remaining = dispatch[d].remaining
          /\ dispatch'[d].pos = dispatch[d].pos + 1
          /\ calls'[d][l].state = "running"
          /\ \A m \in Listener : m # l => calls'[d][m].state = calls[d][m].state
      <4>1. /\ SameList(d, dispatch') /\ dispatch'[d].phase = disp[d].phase
            /\ dispatch'[d].outcome = disp[d].outcome
            /\ dispatch'[d].remaining = disp[d].remaining /\ dispatch'[d].pos = disp[d].pos
            /\ calls'[d][l].state = "running"
            /\ \A m \in Listener : <<d, m>> # <<d, l>> => calls'[d][m].state = calls[d][m].state
        BY <1>1, <1>3, <1>6, <1>8, <1>9, EnterFacts
      <4>. QED  BY <1>5, <1>8, <3>1, <4>1
    <3>3. dispatch[d].outcome = "none"
      BY <1>1, <1>2, <3>1 DEF Sound
    <3>4. l \notin Called(d)
      BY <1>1, <1>2, <1>3, <3>1 DEF Sound
    <3>5. Heard(d)' = Heard(d)
      BY <3>2 DEF Heard, Hears, SameList
    <3>6. Called(d)' = Called(d) \cup {l}
      BY <1>3, <3>2 DEF Called
    <3>7. Finished(d)' = Finished(d)
      BY <3>2, <3>4 DEF Finished, Called
    <3>8. l \in Heard(d)
      BY <1>2, <1>3 DEF Heard, InList, l
    <3>9. \A i \in DOMAIN dispatch'[d].list :
             i >= dispatch'[d].pos => dispatch'[d].list[i].l \notin Called(d)'
      <4>1. SUFFICES ASSUME NEW i \in DOMAIN dispatch[d].list, i >= dispatch[d].pos + 1
                     PROVE  dispatch[d].list[i].l \notin Called(d) \cup {l}
        BY <3>2, <3>6 DEF SameList
      <4>2. i \in Nat
        BY <1>1 DEF Dispatch
      <4>3. i >= dispatch[d].pos /\ i # dispatch[d].pos
        BY <1>2, <4>1, <4>2
      <4>. QED  BY <1>1, <1>3, <3>1, <4>3 DEF Sound, Registered
    <3>10. \A m \in Listener : calls'[d][m].state # "spawned"
      BY <1>1, <3>1, <3>2 DEF Sound
    <3>11. dispatch[d].remaining = Cardinality(Heard(d)) - Cardinality(Finished(d))
           /\ Called(d) \subseteq Heard(d)
      BY <1>1, <1>2, <3>1 DEF Sound
    <3>. QED  BY <3>1, <3>2, <3>3, <3>5, <3>6, <3>7, <3>8, <3>9, <3>10, <3>11 DEF Sound
  <2>. QED  BY <2>1, <2>2
<1>11. disp[d].phase # "idle"
  BY <1>7, <1>8
<1>12. \A e \in Dispatcher : e # d => disp[e] = dispatch[e]
  BY <1>8
<1>. HIDE DEF l
<1>. QED  BY <1>3, <1>6, <1>8, <1>9, <1>10, <1>11, <1>12, EnterStep

(* next() enters the following slot of a waterfall, or fails in its caller. *)
LEMMA CallNextStep == ASSUME IInv, NEW d \in Dispatcher, CallNext(d) PROVE IInv'
<1>. DEFINE i == dispatch[d].pos + 1
            l == dispatch[d].list[i].l
            r == [dispatch[d] EXCEPT !.pos = i]
            disp == [dispatch EXCEPT ![d] = r]
            u == [dispatch[d] EXCEPT !.phase = "unwinding"]
            full == dispatch[d].list[i].full
<1>1. /\ TypeOK /\ Registered /\ Sound(d) /\ dispatch \in [Dispatcher -> Dispatch]
      /\ dispatch[d] \in Dispatch
  BY SoundAll DEF IInv, TypeOK
<1>2. i \in Nat \ {0} /\ i <= Len(dispatch[d].list)
  BY <1>1 DEF CallNext, Dispatch
<1>3. l \in InList(d)
  BY <1>1, <1>2, SlotInList
<1>4. /\ mode = "waterfall" /\ mode' = mode /\ dispatch[d].phase = "awaiting"
      /\ UNCHANGED <<reg, since, sink>>
      /\ full => Enter(d, l, disp)
      /\ ~full => dispatch' = [dispatch EXCEPT ![d] = u]
                   /\ UNCHANGED <<listeners, version, calls>>
  <2>1. disp = [dispatch EXCEPT ![d].pos = i] /\ [dispatch EXCEPT ![d] = u] = [dispatch EXCEPT ![d].phase = "unwinding"]
    OBVIOUS
  <2>2. /\ mode = "waterfall" /\ mode' = mode /\ dispatch[d].phase = "awaiting"
        /\ UNCHANGED <<reg, since, sink>>
        /\ IF full THEN Enter(d, l, [dispatch EXCEPT ![d].pos = i])
           ELSE /\ dispatch' = [dispatch EXCEPT ![d].phase = "unwinding"]
                /\ UNCHANGED <<listeners, version, calls>>
    BY DEF CallNext
  <2>. HIDE DEF full, disp, u, l, i
  <2>. QED  BY <2>1, <2>2
<1>5. CASE full
  <2>1. /\ r \in Dispatch /\ r.list = dispatch[d].list /\ r.snap = dispatch[d].snap
        /\ r.phase = dispatch[d].phase
    BY <1>1, Advances
  <2>. HIDE DEF r
  <2>2. disp \in [Dispatcher -> Dispatch] /\ disp[d] = r
        /\ \A e \in Dispatcher : e # d => disp[e] = dispatch[e]
    BY <1>1, <2>1
  <2>. HIDE DEF disp
  <2>3. \A e \in Dispatcher : SameList(e, disp) /\ disp[e].snap = dispatch[e].snap
    BY <2>1, <2>2 DEF SameList
  <2>4. Sound(d)'
    BY <1>4 DEF Sound
  <2>5. \A e \in Dispatcher : e # d => disp[e] = dispatch[e]
    BY <2>2
  <2>6. disp \in [Dispatcher -> Dispatch] /\ disp[d].phase # "idle"
    BY <1>4, <2>1, <2>2
  <2>7. Enter(d, l, disp) /\ UNCHANGED <<mode, reg, since, sink>>
    BY <1>4, <1>5
  <2>. HIDE DEF l, full
  <2>. QED  BY <1>3, <2>3, <2>4, <2>5, <2>6, <2>7, EnterStep
<1>6. CASE ~full
  <2>1. /\ u \in Dispatch /\ u.list = dispatch[d].list /\ u.snap = dispatch[d].snap
        /\ u.remaining = dispatch[d].remaining /\ u.pos >= dispatch[d].pos
        /\ u.phase = "unwinding"
    BY <1>1, Waits DEF Phase
  <2>. HIDE DEF u, full
  <2>. QED  BY <1>4, <1>6, <2>1, FrameStep
<1>. QED  BY <1>5, <1>6

(* A step that only changes what a called listener of d is doing.          *)
LEMMA CallStep ==
    ASSUME IInv, NEW d \in Dispatcher, NEW l \in InList(d), NEW st,
           st \in {"spawned", "threw"}, mode # "parallel", dispatch[d].phase # "idle",
           calls' = [calls EXCEPT ![d][l].state = st], sink' \in Nat,
           UNCHANGED <<mode, listeners, version, reg, since>>,
           dispatch' \in [Dispatcher -> Dispatch],
           \A e \in Dispatcher : /\ SameList(e, dispatch') /\ dispatch'[e].snap = dispatch[e].snap
                                  /\ dispatch'[e].phase = dispatch[e].phase
    PROVE  IInv'
<1>1. TypeOK /\ Registered /\ l \in Listener
  BY DEF IInv, InList
<1>2. /\ calls' \in [Dispatcher -> [Listener -> Call]] /\ calls'[d][l].state = st
      /\ \A e \in Dispatcher, m \in Listener :
            <<e, m>> # <<d, l>> => calls'[e][m].state = calls[e][m].state
  <2>1. calls \in [Dispatcher -> [Listener -> Call]] /\ calls[d][l] \in Call
    BY <1>1 DEF TypeOK
  <2>. DEFINE c == [calls[d][l] EXCEPT !.state = st]
  <2>2. c \in Call /\ c.state = st
    BY <2>1 DEF Call
  <2>3. calls' = [calls EXCEPT ![d][l] = c]
    BY <2>1
  <2>4. l \in Listener
    BY <1>1
  <2>. HIDE DEF c
  <2>. QED  BY ONLY <2>1, <2>2, <2>3, <2>4
<1>3. TypeOK'
  BY <1>1, <1>2 DEF TypeOK
<1>4. Listed' = Listed
  BY DEF Listed
<1>5. \A e \in Dispatcher : e # d => Called(e)' = Called(e)
  BY <1>2 DEF Called
<1>6. Called(d)' \subseteq Called(d) \cup InList(d)
  BY <1>2 DEF Called
<1>7. Registered'
  <2>1. ASSUME NEW e \in Dispatcher
        PROVE  /\ SameList(e, dispatch') /\ dispatch'[e].snap = dispatch[e].snap
               /\ dispatch'[e].phase = "idle" => dispatch[e].phase = "idle" /\ Called(e)' = Called(e)
               /\ Called(e)' \subseteq Called(e) \cup InList(e)
    BY <1>5, <1>6
  <2>2. version' \in Nat /\ version <= version'
    BY <1>1 DEF TypeOK
  <2>. QED  BY <1>1, <1>4, <2>1, <2>2, RegisteredKept
<1>9. Phases' /\ GateAccounting'
  BY DEF Phases, GateAccounting
<1>. QED  BY <1>3, <1>7, <1>9 DEF IInv

(* emit spawns a coroutine for a slot of its vector.                       *)
LEMMA SpawnStep == ASSUME IInv, NEW d \in Dispatcher, Spawn(d) PROVE IInv'
<1>. DEFINE l == At(d).l
            r == [dispatch[d] EXCEPT !.pos = dispatch[d].pos + 1]
<1>1. /\ TypeOK /\ dispatch \in [Dispatcher -> Dispatch] /\ dispatch[d] \in Dispatch
      /\ sink \in Nat
  BY DEF IInv, TypeOK
<1>2. /\ mode = "emit" /\ dispatch[d].phase = "loop" /\ dispatch[d].pos <= Len(dispatch[d].list)
      /\ calls' = [calls EXCEPT ![d][l].state = "spawned"]
      /\ dispatch' = [dispatch EXCEPT ![d] = r]
      /\ UNCHANGED <<mode, listeners, version, reg, since, sink>>
  BY <1>1 DEF Spawn, InLoop
<1>3. dispatch[d].pos \in Nat \ {0}
  BY <1>1 DEF Dispatch
<1>4. l \in InList(d)
  BY <1>1, <1>2, <1>3, SlotInList DEF At
<1>5. /\ r \in Dispatch /\ r.list = dispatch[d].list /\ r.snap = dispatch[d].snap
      /\ r.phase = dispatch[d].phase
  BY <1>1, Advances
<1>. HIDE DEF r, l
<1>6. /\ dispatch' \in [Dispatcher -> Dispatch] /\ dispatch'[d] = r
      /\ \A e \in Dispatcher : e # d => dispatch'[e] = dispatch[e]
  BY <1>1, <1>2, <1>5
<1>7. \A e \in Dispatcher : /\ SameList(e, dispatch') /\ dispatch'[e].snap = dispatch[e].snap
                            /\ dispatch'[e].phase = dispatch[e].phase
  BY <1>5, <1>6 DEF SameList
<1>8. mode # "parallel" /\ dispatch[d].phase # "idle" /\ sink' \in Nat
  BY <1>1, <1>2
<1>. QED  BY <1>2, <1>4, <1>6, <1>7, <1>8, CallStep

(* A spawned coroutine enters its listener, or finds the slot empty.       *)
LEMMA StartStep ==
    ASSUME IInv, NEW d \in Dispatcher, NEW l \in Listener, Start(d, l) PROVE IInv'
<1>1. /\ TypeOK /\ Registered /\ dispatch \in [Dispatcher -> Dispatch] /\ sink \in Nat
      /\ \A e \in Dispatcher : Sound(e)
  BY SoundAll DEF IInv, TypeOK
<1>2. l \in Called(d) /\ l \in InList(d) /\ dispatch[d].phase # "idle"
  BY <1>1 DEF Start, Called, Registered
<1>3. mode # "parallel" /\ mode' = mode
  BY <1>1 DEF Start, Sound
<1>4. \A e \in Dispatcher : SameList(e, dispatch)
  BY DEF SameList
<1>5. CASE Enter(d, l, dispatch) /\ UNCHANGED sink
  <2>1. UNCHANGED <<mode, reg, since, sink>>
    BY <1>5 DEF Start
  <2>2. Sound(d)'
    BY <1>3 DEF Sound
  <2>. QED  BY <1>1, <1>2, <1>4, <1>5, <2>1, <2>2, EnterStep
<1>6. CASE /\ calls' = [calls EXCEPT ![d][l].state = "threw"]
           /\ sink' = sink + 1
           /\ UNCHANGED <<listeners, version, dispatch>>
  <2>1. UNCHANGED <<mode, listeners, version, reg, since>>
    BY <1>6 DEF Start
  <2>2. /\ dispatch' \in [Dispatcher -> Dispatch] /\ sink' \in Nat
        /\ \A e \in Dispatcher : /\ SameList(e, dispatch') /\ dispatch'[e].snap = dispatch[e].snap
                                  /\ dispatch'[e].phase = dispatch[e].phase
    BY <1>1, <1>4, <1>6
  <2>. QED  BY <1>2, <1>3, <1>6, <2>1, <2>2, CallStep
<1>. QED  BY <1>5, <1>6 DEF Start

(* The answer of a listener: what it makes of its own dispatch.            *)
LEMMA Answer ==
    ASSUME IInv, NEW d \in Dispatcher, NEW l \in Listener, NEW threw \in BOOLEAN,
           Complete(d, l, threw)
    PROVE  \E r \in Dispatch :
             /\ dispatch' = [dispatch EXCEPT ![d] = r]
             /\ r.list = dispatch[d].list /\ r.snap = dispatch[d].snap /\ r.phase # "idle"
             /\ mode = "parallel" =>
                   /\ r.remaining = dispatch[d].remaining - 1 /\ r.phase = dispatch[d].phase
                   /\ r.outcome = dispatch[d].outcome /\ r.pos = dispatch[d].pos
<1>. DEFINE x == dispatch[d]
<1>1. /\ TypeOK /\ Registered /\ Sound(d) /\ dispatch \in [Dispatcher -> Dispatch] /\ x \in Dispatch
  BY SoundAll DEF IInv, TypeOK
<1>2. l \in Called(d) /\ l \notin Finished(d) /\ x.phase # "idle"
  BY <1>1 DEF Complete, Called, Finished, Registered
<1>3. CASE mode = "emit" /\ UNCHANGED dispatch
  <2>1. dispatch' = [dispatch EXCEPT ![d] = x]
    BY <1>1, <1>3
  <2>. QED  BY <1>1, <1>2, <1>3, <2>1
<1>4. CASE mode = "parallel" /\ dispatch' = [dispatch EXCEPT ![d].remaining = @ - 1]
  <2>. DEFINE r == [x EXCEPT !.remaining = x.remaining - 1]
  <2>1. x.remaining - 1 \in Nat
    <3>1. x.remaining = Cardinality(Heard(d)) - Cardinality(Finished(d)) /\ l \in Heard(d)
      BY <1>1, <1>2, <1>4 DEF Sound
    <3>2. Finished(d) \subseteq Heard(d) /\ Finished(d) # Heard(d)
      BY <1>1, <1>2, <1>4, <3>1, Nested
    <3>3. Cardinality(Finished(d)) <= Cardinality(Heard(d))
          /\ Cardinality(Finished(d)) # Cardinality(Heard(d))
      BY <3>2, Finite, FS_Subset
    <3>. QED  BY <3>1, <3>3, Finite
  <2>2. /\ r \in Dispatch /\ r.list = x.list /\ r.snap = x.snap /\ r.remaining = x.remaining - 1
        /\ r.phase = x.phase /\ r.outcome = x.outcome /\ r.pos = x.pos
    BY <1>1, <2>1 DEF Dispatch
  <2>3. dispatch' = [dispatch EXCEPT ![d] = r]
    BY <1>4
  <2>. HIDE DEF r
  <2>. QED  BY <1>2, <2>2, <2>3
<1>5. CASE mode \in {"serial", "bail"} /\ threw
           /\ dispatch' = [dispatch EXCEPT ![d].phase = "done", ![d].outcome = "threw"]
  <2>. DEFINE r == Decided(x, "threw")
  <2>1. dispatch' = [dispatch EXCEPT ![d] = r]
    BY <1>1, <1>5 DEF Decided
  <2>2. r \in Dispatch /\ r.list = x.list /\ r.snap = x.snap /\ r.phase = "done"
    BY <1>1, Decides DEF Outcome
  <2>. HIDE DEF r
  <2>. QED  BY <1>5, <2>1, <2>2
<1>6. CASE mode = "bail" /\ ~threw
           /\ dispatch' = [dispatch EXCEPT ![d].phase = "done", ![d].outcome = "bailed"]
  <2>. DEFINE r == Decided(x, "bailed")
  <2>1. dispatch' = [dispatch EXCEPT ![d] = r]
    BY <1>1, <1>6 DEF Decided
  <2>2. r \in Dispatch /\ r.list = x.list /\ r.snap = x.snap /\ r.phase = "done"
    BY <1>1, Decides DEF Outcome
  <2>. HIDE DEF r
  <2>. QED  BY <1>6, <2>1, <2>2
<1>7. CASE mode \in {"serial", "bail"} /\ ~threw
           /\ dispatch' = [dispatch EXCEPT ![d].phase = "loop", ![d].pos = @ + 1]
  <2>. DEFINE w == [x EXCEPT !.phase = "loop"]
              r == [w EXCEPT !.pos = @ + 1]
  <2>1. w \in Dispatch /\ w.list = x.list /\ w.snap = x.snap /\ w.phase = "loop" /\ w.pos = x.pos
    BY <1>1, Waits DEF Phase
  <2>2. dispatch' = [dispatch EXCEPT ![d] = r]
    BY <1>1, <1>7
  <2>. HIDE DEF w
  <2>3. r \in Dispatch /\ r.list = x.list /\ r.snap = x.snap /\ r.phase = "loop"
    BY <2>1, Advances
  <2>. HIDE DEF r
  <2>. QED  BY <1>7, <2>2, <2>3
<1>8. CASE mode = "waterfall" /\ x.pos > 1
           /\ dispatch' = [dispatch EXCEPT ![d] = [x EXCEPT !.phase = "unwinding", !.pos = x.pos - 1]]
  <2>. DEFINE w == [x EXCEPT !.phase = "unwinding"]
              r == [x EXCEPT !.phase = "unwinding", !.pos = x.pos - 1]
  <2>1. w \in Dispatch /\ w.list = x.list /\ w.snap = x.snap /\ w.phase = "unwinding"
    BY <1>1, Waits DEF Phase
  <2>2. x.pos - 1 \in Nat \ {0}
    BY <1>1, <1>8 DEF Dispatch
  <2>3. r = [w EXCEPT !.pos = x.pos - 1]
    OBVIOUS
  <2>. HIDE DEF w
  <2>4. r \in Dispatch /\ r.list = x.list /\ r.snap = x.snap /\ r.phase = "unwinding"
    BY <2>1, <2>2, <2>3 DEF Dispatch
  <2>. HIDE DEF r
  <2>5. dispatch' = [dispatch EXCEPT ![d] = r]
    BY <1>8 DEF r
  <2>. QED  BY <1>8, <2>4, <2>5
<1>9. CASE mode = "waterfall" /\ ~(x.pos > 1)
           /\ dispatch' = [dispatch EXCEPT ![d] = Decided(x, IF threw THEN "threw" ELSE "ok")]
  <2>. DEFINE o == IF threw THEN "threw" ELSE "ok"
              r == Decided(x, o)
  <2>1. o \in Outcome
    BY DEF Outcome
  <2>. HIDE DEF o
  <2>2. r \in Dispatch /\ r.list = x.list /\ r.snap = x.snap /\ r.phase = "done"
    BY <1>1, <2>1, Decides
  <2>3. dispatch' = [dispatch EXCEPT ![d] = r]
    BY <1>9 DEF o
  <2>. HIDE DEF r
  <2>. QED  BY <1>9, <2>2, <2>3
<1>10. \/ mode = "emit" /\ UNCHANGED dispatch
       \/ mode = "parallel" /\ dispatch' = [dispatch EXCEPT ![d].remaining = @ - 1]
       \/ mode \in {"serial", "bail"} /\ threw
           /\ dispatch' = [dispatch EXCEPT ![d].phase = "done", ![d].outcome = "threw"]
       \/ mode = "bail" /\ ~threw
           /\ dispatch' = [dispatch EXCEPT ![d].phase = "done", ![d].outcome = "bailed"]
       \/ mode \in {"serial", "bail"} /\ ~threw
           /\ dispatch' = [dispatch EXCEPT ![d].phase = "loop", ![d].pos = @ + 1]
       \/ mode = "waterfall" /\ x.pos > 1
           /\ dispatch' = [dispatch EXCEPT ![d] = [x EXCEPT !.phase = "unwinding", !.pos = x.pos - 1]]
       \/ mode = "waterfall" /\ ~(x.pos > 1)
           /\ dispatch' = [dispatch EXCEPT ![d] = Decided(x, IF threw THEN "threw" ELSE "ok")]
  BY DEF Complete, Decided
<1>. QED  BY <1>3, <1>4, <1>5, <1>6, <1>7, <1>8, <1>9, <1>10

(* An answer finishes one listener, and the gate counts one less.          *)
LEMMA CompleteStep ==
    ASSUME IInv, NEW d \in Dispatcher, NEW l \in Listener, NEW threw \in BOOLEAN,
           Complete(d, l, threw)
    PROVE  IInv'
<1>. DEFINE st == IF threw THEN "threw" ELSE "returned"
            c == [calls[d][l] EXCEPT !.state = st]
<1>1. /\ TypeOK /\ Registered /\ dispatch \in [Dispatcher -> Dispatch]
      /\ \A e \in Dispatcher : Sound(e)
  BY SoundAll DEF IInv, TypeOK
<1>2. PICK r \in Dispatch :
        /\ dispatch' = [dispatch EXCEPT ![d] = r]
        /\ r.list = dispatch[d].list /\ r.snap = dispatch[d].snap /\ r.phase # "idle"
        /\ mode = "parallel" =>
              /\ r.remaining = dispatch[d].remaining - 1 /\ r.phase = dispatch[d].phase
              /\ r.outcome = dispatch[d].outcome /\ r.pos = dispatch[d].pos
  BY Answer
<1>3. /\ dispatch' \in [Dispatcher -> Dispatch] /\ dispatch'[d] = r
      /\ \A e \in Dispatcher : e # d => dispatch'[e] = dispatch[e]
  BY <1>1, <1>2
<1>4. /\ calls[d][l].state = "running" /\ calls' = [calls EXCEPT ![d][l].state = st]
      /\ UNCHANGED <<mode, listeners, version, reg, since>>
      /\ sink' \in Nat
  BY <1>1 DEF Complete, TypeOK
<1>5. st \in {"threw", "returned"}
  OBVIOUS
<1>6. /\ calls' \in [Dispatcher -> [Listener -> Call]] /\ calls'[d][l].state = st
      /\ \A e \in Dispatcher, m \in Listener :
            <<e, m>> # <<d, l>> => calls'[e][m].state = calls[e][m].state
  <2>. HIDE DEF st
  <2>1. calls \in [Dispatcher -> [Listener -> Call]] /\ calls[d][l] \in Call
    BY <1>1 DEF TypeOK
  <2>2. c \in Call /\ c.state = st
    BY <1>5, <2>1 DEF Call
  <2>3. calls' = [calls EXCEPT ![d][l] = c]
    BY <1>4, <2>1
  <2>. HIDE DEF c
  <2>. QED  BY ONLY <2>1, <2>2, <2>3, l \in Listener, d \in Dispatcher
<1>. HIDE DEF st, c
<1>7. TypeOK'
  BY <1>1, <1>3, <1>4, <1>6 DEF TypeOK
<1>8. \A e \in Dispatcher : /\ SameList(e, dispatch') /\ dispatch'[e].snap = dispatch[e].snap
                            /\ dispatch'[e].phase = "idle" => dispatch[e].phase = "idle"
  BY <1>2, <1>3 DEF SameList
<1>9. \A e \in Dispatcher : Called(e)' = Called(e)
  BY <1>4, <1>5, <1>6 DEF Called
<1>10. Listed' = Listed
  BY <1>4 DEF Listed
<1>11. Registered'
  <2>1. version' \in Nat /\ version <= version' /\ since' = since /\ reg' = reg
    BY <1>1, <1>4 DEF TypeOK
  <2>. QED  BY <1>1, <1>8, <1>9, <1>10, <2>1, RegisteredKept
<1>13. ASSUME NEW e \in Dispatcher
       PROVE  Sound(e)'
  <2>1. CASE e # d
    <3>1. \A m \in Listener : calls'[e][m].state = calls[e][m].state
      BY <1>6, <2>1
    <3>. QED  BY <1>1, <1>3, <1>4, <1>8, <2>1, <3>1, SoundStays
  <2>2. CASE e = d /\ mode # "parallel"
    BY <1>4, <2>2 DEF Sound
  <2>3. CASE e = d /\ mode = "parallel"
    <3>1. /\ l \in Called(d) /\ l \notin Finished(d) /\ l \in Heard(d)
          /\ dispatch[d].phase # "idle"
      BY <1>1, <1>4, <2>3 DEF Called, Finished, Sound, Registered
    <3>2. Heard(d)' = Heard(d)
      BY <1>8 DEF Heard, Hears, SameList
    <3>3. Finished(d)' = Finished(d) \cup {l}
      BY <1>5, <1>6 DEF Finished
    <3>4. Cardinality(Finished(d)') = Cardinality(Finished(d)) + 1
      BY <3>1, <3>3, Finite, FS_AddElement
    <3>5. r.remaining = Cardinality(Heard(d)') - Cardinality(Finished(d)')
      <4>1. dispatch[d].remaining = Cardinality(Heard(d)) - Cardinality(Finished(d))
        BY <1>1, <2>3, <3>1 DEF Sound
      <4>2. r.remaining = dispatch[d].remaining - 1
        BY <1>2, <2>3
      <4>. QED  BY <3>2, <3>4, <4>1, <4>2, Finite
    <3>6. dispatch[d].outcome \notin {"ok", "threw"}
      BY <1>1, <2>3, <3>1 DEF Sound
    <3>7. \A i \in DOMAIN dispatch'[d].list :
             i >= dispatch'[d].pos => dispatch'[d].list[i].l \notin Called(d)'
      BY <1>1, <1>2, <1>3, <1>9, <2>3 DEF Sound
    <3>8. \A m \in Listener : calls'[d][m].state # "spawned"
      BY <1>1, <1>5, <1>6, <2>3 DEF Sound
    <3>9. /\ dispatch'[d].phase = dispatch[d].phase /\ dispatch'[d].outcome = dispatch[d].outcome
          /\ dispatch'[d].remaining = r.remaining
      BY <1>2, <1>3, <2>3
    <3>10. /\ dispatch[d].outcome # "none" => dispatch[d].phase = "done"
           /\ Called(d) \subseteq Heard(d)
      BY <1>1, <2>3 DEF Sound
    <3>. QED  BY <1>9, <2>3, <3>2, <3>5, <3>6, <3>7, <3>8, <3>9, <3>10 DEF Sound
  <2>. QED  BY <2>1, <2>2, <2>3
<1>14. Phases' /\ GateAccounting'
  BY <1>13, SoundNext
<1>. QED  BY <1>7, <1>11, <1>14 DEF IInv

----------------------------------------------------------------------------
(* Releasing a registration takes it off the list and nothing else.        *)
LEMMA ReleaseStep == ASSUME IInv, NEW l \in Listener, Release(l) PROVE IInv'
<1>1. /\ TypeOK /\ Registered /\ dispatch \in [Dispatcher -> Dispatch]
      /\ calls \in [Dispatcher -> [Listener -> Call]] /\ \A e \in Dispatcher : Sound(e)
  BY SoundAll DEF IInv, TypeOK
<1>2. /\ reg' = [reg EXCEPT ![l] = "released"] /\ Removed(l)
      /\ dispatch' = Emptied(dispatch, l) /\ calls' = Moved(calls, l)
      /\ UNCHANGED <<mode, since, sink>>
  BY DEF Release
<1>3. \A e \in Dispatcher : SameList(e, dispatch)
  BY DEF SameList
<1>4. /\ listeners' \in Seq(Listener) /\ version' \in Nat /\ version <= version'
      /\ Listed' = Listed \ {l}
  BY <1>1, <1>2, RemovedFacts
<1>5. /\ dispatch' \in [Dispatcher -> Dispatch]
      /\ \A e \in Dispatcher :
           /\ SameList(e, dispatch')
           /\ dispatch'[e].phase = dispatch[e].phase /\ dispatch'[e].outcome = dispatch[e].outcome
           /\ dispatch'[e].pos = dispatch[e].pos /\ dispatch'[e].snap = dispatch[e].snap
           /\ dispatch'[e].remaining = dispatch[e].remaining
  BY <1>1, <1>2, <1>3, EmptiedFacts
<1>6. /\ calls' \in [Dispatcher -> [Listener -> Call]]
      /\ \A e \in Dispatcher, m \in Listener : calls'[e][m].state = calls[e][m].state
  BY <1>1, <1>2, MovedFacts
<1>7. TypeOK'
  BY <1>1, <1>2, <1>4, <1>5, <1>6 DEF TypeOK
<1>8. \A e \in Dispatcher : Called(e)' = Called(e)
  BY <1>6 DEF Called
<1>9. Registered'
  <2>1. \A m \in Listener : reg[m] # "new" => reg'[m] # "new"
    BY <1>1, <1>2 DEF TypeOK
  <2>. QED  BY <1>1, <1>2, <1>4, <1>5, <1>8, <2>1, RegisteredKept
<1>11. \A e \in Dispatcher : Sound(e)'
  BY <1>1, <1>2, <1>5, <1>6, SoundStays
<1>12. Phases' /\ GateAccounting'
  BY <1>11, SoundNext
<1>. QED  BY <1>7, <1>9, <1>12 DEF IInv

(* A registration adds itself to the list, in a vector no dispatch holds.  *)
LEMMA AddStep == ASSUME IInv, NEW l \in Listener, Add(l) PROVE IInv'
<1>1. /\ TypeOK /\ Registered /\ \A e \in Dispatcher : Sound(e)
      /\ version \in Nat
  BY SoundAll DEF IInv, TypeOK
<1>2. /\ reg[l] = "new" /\ reg' = [reg EXCEPT ![l] = "held"]
      /\ listeners' = Inserted(l) /\ version' = version + 1
      /\ since' = [since EXCEPT ![l] = version + 1]
      /\ UNCHANGED <<mode, dispatch, calls, sink>>
  BY DEF Add
<1>3. listeners' \in Seq(Listener) /\ Listed' \subseteq Listed \cup {l}
  <2>1. listeners \in Seq(Listener)
    BY <1>1 DEF TypeOK
  <2>2. CASE listeners' = Append(listeners, l)
    BY <2>1, <2>2 DEF Listed
  <2>3. CASE listeners' = <<l>> \o listeners
    <3>1. /\ listeners' \in Seq(Listener)
          /\ \A i \in DOMAIN listeners' :
                listeners'[i] = l \/ (i - 1 \in DOMAIN listeners /\ listeners'[i] = listeners[i - 1])
      BY <2>1, <2>3
    <3>. QED  BY <3>1 DEF Listed
  <2>. QED  BY <1>2, <2>2, <2>3 DEF Inserted
<1>4. TypeOK'
  BY <1>1, <1>2, <1>3 DEF TypeOK
<1>5. \A e \in Dispatcher : l \notin InList(e) /\ l \notin Called(e)
  BY <1>1, <1>2 DEF Registered
<1>6. \A m \in Listener : m # l => reg'[m] = reg[m] /\ since'[m] = since[m]
  BY <1>1, <1>2 DEF TypeOK
<1>7. reg'[l] = "held" /\ since'[l] = version'
  BY <1>1, <1>2 DEF TypeOK
<1>8. Registered'
  <2>1. \A m \in Listener : since'[m] <= version'
    <3>1. \A m \in Listener : since[m] \in Nat /\ since[m] <= version
      BY <1>1 DEF TypeOK, Registered
    <3>2. \A m \in Listener : since[m] <= version + 1
      BY <1>1, <3>1
    <3>. QED  BY <1>1, <1>2, <1>6, <1>7, <3>2
  <2>2. \A m \in Listed' : reg'[m] # "new"
    BY <1>1, <1>3, <1>6, <1>7 DEF Registered, Listed
  <2>3. ASSUME NEW e \in Dispatcher
        PROVE  /\ dispatch'[e].snap <= version'
               /\ \A m \in InList(e)' : reg'[m] # "new" /\ since'[m] <= dispatch'[e].snap
               /\ \A i, j \in DOMAIN dispatch'[e].list :
                    i # j => dispatch'[e].list[i].l # dispatch'[e].list[j].l
               /\ Called(e)' \subseteq InList(e)'
               /\ dispatch'[e].phase = "idle" => Called(e)' = {}
    <3>1. dispatch' = dispatch /\ InList(e)' = InList(e) /\ Called(e)' = Called(e)
      BY <1>2 DEF InList, Called
    <3>2. dispatch'[e].snap <= version'
      <4>1. dispatch[e].snap \in Nat /\ dispatch[e].snap <= version
        BY <1>1 DEF TypeOK, Dispatch, Registered
      <4>. QED  BY <1>1, <1>2, <4>1
    <3>3. \A m \in InList(e) : m # l /\ m \in Listener /\ reg[m] # "new" /\ since[m] <= dispatch[e].snap
      BY <1>1, <1>5 DEF Registered, InList
    <3>4. \A m \in InList(e)' : reg'[m] # "new" /\ since'[m] <= dispatch'[e].snap
      BY <1>6, <3>1, <3>3
    <3>. QED  BY <1>1, <3>1, <3>2, <3>4 DEF Registered
  <2>. QED  BY <2>1, <2>2, <2>3 DEF Registered
<1>10. \A e \in Dispatcher : Sound(e)'
  <2>1. \A e \in Dispatcher : SameList(e, dispatch')
    BY <1>2 DEF SameList
  <2>. QED  BY <1>1, <1>2, <2>1, SoundStays
<1>11. Phases' /\ GateAccounting'
  BY <1>10, SoundNext
<1>. QED  BY <1>4, <1>8, <1>11 DEF IInv

(* A dispatch that begins has called nobody, and its gate waits for those  *)
(* of the list that hear it.                                               *)
LEMMA BeginStep == ASSUME IInv, NEW d \in Dispatcher, Begin(d) PROVE IInv'
<1>. DEFINE private == mode = "waterfall" /\ d \in Scoped
            S == IF private THEN Listening(d) ELSE Listed
<1>1. /\ TypeOK /\ Registered /\ dispatch \in [Dispatcher -> Dispatch]
      /\ version \in Nat /\ \A e \in Dispatcher : Sound(e)
  BY SoundAll DEF IInv, TypeOK
<1>2. PICK slots \in Selections(S) :
        dispatch' = [dispatch EXCEPT ![d] =
          [phase |-> "loop", outcome |-> "none",
           list |-> [i \in DOMAIN slots |-> [l |-> slots[i], full |-> TRUE]],
           pos |-> 1, snap |-> version, private |-> private, remaining |-> Total(d)]]
  BY DEF Begin
<1>3. /\ dispatch[d].phase = "idle"
      /\ UNCHANGED <<mode, listeners, version, reg, since, calls, sink>>
  BY DEF Begin
<1>4. S \subseteq Listed /\ S \subseteq Listener
  BY DEF Listening, Listed
<1>5. /\ slots \in Seq(Listener) /\ DOMAIN slots = 1..Len(slots)
      /\ \A i \in DOMAIN slots : slots[i] \in S
      /\ \A m \in S : \E i \in DOMAIN slots : slots[i] = m
  BY <1>4, SelectionFacts
<1>6. \A i, j \in DOMAIN slots : i # j => slots[i] # slots[j]
  <2>1. \A i, j \in DOMAIN slots : i < j => PositionOf(slots[i]) < PositionOf(slots[j])
    BY DEF Selections
  <2>2. \A m \in Listed : PositionOf(m) \in Nat
    <3>1. listeners \in Seq(Listener)
      BY <1>1 DEF TypeOK
    <3>2. \A i \in DOMAIN listeners : i \in Nat
      BY <3>1
    <3>. QED  BY <3>2 DEF Listed, PositionOf
  <2>3. \A i, j \in DOMAIN slots : i < j => slots[i] # slots[j]
    <3>1. SUFFICES ASSUME NEW i \in DOMAIN slots, NEW j \in DOMAIN slots, i < j, slots[i] = slots[j]
                   PROVE  FALSE
      OBVIOUS
    <3>2. PositionOf(slots[i]) < PositionOf(slots[i]) /\ PositionOf(slots[i]) \in Nat
      BY <1>4, <1>5, <2>1, <2>2, <3>1
    <3>. QED  BY <3>2
  <2>. QED  BY <1>5, <2>3
<1>7. Total(d) \in Nat /\ IsFiniteSet(Listening(d))
  BY OptionAssumption, FS_Subset, FS_CardinalityType DEF Total, Listening, Listed
<1>. DEFINE list == [i \in DOMAIN slots |-> [l |-> slots[i], full |-> TRUE]]
            r == [phase |-> "loop", outcome |-> "none", list |-> list, pos |-> 1,
                  snap |-> version, private |-> private, remaining |-> Total(d)]
<1>8. /\ list \in Seq(Slot) /\ DOMAIN list = DOMAIN slots
      /\ \A i \in DOMAIN slots : list[i].l = slots[i]
  <2>. DEFINE yes == TRUE
              full(m) == [l |-> m, full |-> yes]
  <2>1. yes \in BOOLEAN
    OBVIOUS
  <2>. HIDE DEF yes
  <2>2. \A m \in Listener : full(m) \in Slot /\ full(m).l = m
    BY <2>1 DEF Slot
  <2>. HIDE DEF full
  <2>3. list = [i \in 1..Len(slots) |-> full(slots[i])]
    BY <1>5 DEF full, yes
  <2>4. Len(slots) \in Nat /\ \A i \in 1..Len(slots) : slots[i] \in Listener
    BY <1>5
  <2>. HIDE DEF list
  <2>5. list \in [1..Len(slots) -> Slot] /\ Len(slots) \in Nat
    BY <2>2, <2>3, <2>4
  <2>6. list \in Seq(Slot) /\ DOMAIN list = 1..Len(slots)
    BY <2>5
  <2>. QED  BY <1>5, <2>2, <2>3, <2>4, <2>6
<1>. HIDE DEF list
<1>9. /\ r.phase = "loop" /\ r.outcome = "none" /\ r.list = list /\ r.pos = 1
      /\ r.snap = version /\ r.remaining = Total(d) /\ r \in Dispatch
  <2>1. private \in BOOLEAN
    OBVIOUS
  <2>. HIDE DEF private, S
  <2>. QED  BY <1>1, <1>7, <1>8, <2>1 DEF Dispatch
<1>10. dispatch' = [dispatch EXCEPT ![d] = r]
  BY <1>2 DEF list
<1>. HIDE DEF r, S
<1>11. /\ dispatch' \in [Dispatcher -> Dispatch] /\ dispatch'[d] = r
       /\ \A e \in Dispatcher : e # d => dispatch'[e] = dispatch[e]
  BY <1>1, <1>9, <1>10
<1>12. TypeOK'
  BY <1>1, <1>3, <1>11 DEF TypeOK
<1>13. Called(d) = {} /\ Finished(d) = {}
  BY <1>1, <1>3 DEF Registered, Called, Finished
<1>14. \A e \in Dispatcher : Called(e)' = Called(e) /\ Finished(e)' = Finished(e)
  BY <1>3 DEF Called, Finished
<1>15. Registered'
  <2>1. Listed' = Listed /\ version' = version /\ since' = since /\ reg' = reg
    BY <1>3 DEF Listed
  <2>2. ASSUME NEW e \in Dispatcher
        PROVE  /\ dispatch'[e].snap <= version
               /\ \A m \in InList(e)' : reg[m] # "new" /\ since[m] <= dispatch'[e].snap
               /\ \A i, j \in DOMAIN dispatch'[e].list :
                    i # j => dispatch'[e].list[i].l # dispatch'[e].list[j].l
               /\ Called(e)' \subseteq InList(e)'
               /\ dispatch'[e].phase = "idle" => Called(e)' = {}
    <3>1. CASE e # d
      <4>1. dispatch'[e] = dispatch[e] /\ InList(e)' = InList(e)
        BY <1>11, <3>1 DEF InList
      <4>. QED  BY <1>1, <1>14, <4>1 DEF Registered
    <3>2. CASE e = d
      <4>1. InList(d)' \subseteq Listed
        BY <1>4, <1>5, <1>8, <1>9, <1>11 DEF InList
      <4>2. \A m \in Listed : m \in Listener /\ reg[m] # "new" /\ since[m] <= version
        BY <1>1 DEF Registered, Listed
      <4>. QED  BY <1>1, <1>6, <1>8, <1>9, <1>11, <1>13, <1>14, <3>2, <4>1, <4>2
    <3>. QED  BY <3>1, <3>2
  <2>. QED  BY <1>1, <2>1, <2>2 DEF Registered
<1>17. ASSUME NEW e \in Dispatcher
       PROVE  Sound(e)'
  <2>1. CASE e # d
    <3>1. dispatch'[e] = dispatch[e]
      BY <1>11, <2>1
    <3>2. SameList(e, dispatch')
      BY <3>1 DEF SameList
    <3>. QED  BY <1>1, <1>3, <3>1, <3>2, SoundStays
  <2>2. CASE e = d /\ mode # "parallel"
    BY <1>3, <2>2 DEF Sound
  <2>3. CASE e = d /\ mode = "parallel"
    <3>1. S = Listed
      BY <2>3 DEF S
    <3>2. Heard(d)' = Listening(d)
      BY <1>4, <1>5, <1>8, <1>9, <1>11, <3>1 DEF Heard, Listening, Hears
    <3>3. r.remaining = Cardinality(Heard(d)') - Cardinality(Finished(d)')
      <4>1. Cardinality(Finished(d)') = 0
        BY <1>13, <1>14, FS_EmptySet
      <4>. QED  BY <1>7, <1>9, <3>2, <4>1 DEF Total
    <3>4. \A m \in Listener : calls'[d][m].state # "spawned"
      BY <1>1, <1>3, <2>3 DEF Sound
    <3>. QED  BY <1>9, <1>11, <1>13, <1>14, <2>3, <3>3, <3>4 DEF Sound
  <2>. QED  BY <2>1, <2>2, <2>3
<1>18. Phases' /\ GateAccounting'
  BY <1>17, SoundNext
<1>. QED  BY <1>12, <1>15, <1>18 DEF IInv

----------------------------------------------------------------------------
(* The preset listeners are held, and nothing has begun.                   *)
LEMMA Initially == Init => IInv
<1>. SUFFICES ASSUME Init PROVE IInv
  OBVIOUS
<1>1. IsFiniteSet(Preset) /\ Preset \subseteq Listener
  BY OptionAssumption, FS_Subset
<1>2. Cardinality(Preset) \in Nat
  BY <1>1, FS_CardinalityType
<1>3. listeners \in Seq(Listener) /\ Listed \subseteq Preset
  <2>1. listeners \in [1..Cardinality(Preset) -> Preset]
    BY DEF Init
  <2>. QED  BY <1>1, <1>2, <2>1 DEF Listed
<1>4. /\ NoDispatch \in Dispatch /\ NoDispatch.phase = "idle" /\ NoDispatch.outcome = "none"
      /\ NoDispatch.snap = 0 /\ NoDispatch.list = <<>>
  <2>. DEFINE no == FALSE
              r == [phase |-> "idle", outcome |-> "none", list |-> <<>>, pos |-> 1,
                    snap |-> 0, private |-> no, remaining |-> 0]
  <2>1. NoDispatch = r /\ no \in BOOLEAN
    BY DEF NoDispatch
  <2>. HIDE DEF no
  <2>. QED  BY <2>1 DEF Dispatch
<1>5. NoCall \in Call /\ NoCall.state = "none"
  BY DEF NoCall, Call
<1>6. /\ \A d \in Dispatcher : dispatch[d] = NoDispatch
      /\ \A d \in Dispatcher, l \in Listener : calls[d][l] = NoCall
      /\ \A l \in Listener : since[l] = 0 /\ (l \in Preset => reg[l] = "held")
      /\ version = 1
  BY DEF Init
<1>7. TypeOK
  BY <1>3, <1>4, <1>5 DEF Init, TypeOK
<1>8. \A d \in Dispatcher : Called(d) = {} /\ Finished(d) = {} /\ InList(d) = {}
  BY <1>4, <1>5, <1>6 DEF Called, Finished, InList
<1>9. Registered
  BY <1>1, <1>3, <1>4, <1>6, <1>8 DEF Registered
<1>11. Phases /\ GateAccounting
  BY <1>4, <1>5, <1>6, <1>8 DEF Phases, GateAccounting
<1>. QED  BY <1>7, <1>9, <1>11 DEF IInv

(* Every operation of the bus keeps the invariant.                         *)
LEMMA StepKeepsInv == IInv /\ [Next]_vars => IInv'
<1>. SUFFICES ASSUME IInv, [Next]_vars PROVE IInv'
  OBVIOUS
<1>1. ASSUME NEW l \in Listener, Add(l) PROVE IInv'
  BY <1>1, AddStep
<1>2. ASSUME NEW l \in Listener, Release(l) PROVE IInv'
  BY <1>2, ReleaseStep
<1>3. ASSUME NEW d \in Dispatcher, Begin(d) PROVE IInv'
  BY <1>3, BeginStep
<1>4. ASSUME NEW d \in Dispatcher, Skip(d) PROVE IInv'
  BY <1>4, SkipStep
<1>5. ASSUME NEW d \in Dispatcher, Invoke(d) PROVE IInv'
  BY <1>5, InvokeStep
<1>6. ASSUME NEW d \in Dispatcher, InvokeEmpty(d) PROVE IInv'
  BY <1>6, InvokeEmptyStep
<1>7. ASSUME NEW d \in Dispatcher, Spawn(d) PROVE IInv'
  BY <1>7, SpawnStep
<1>8. ASSUME NEW d \in Dispatcher, LoopEnds(d) PROVE IInv'
  BY <1>8, LoopEndsStep
<1>9. ASSUME NEW d \in Dispatcher, CallNext(d) PROVE IInv'
  BY <1>9, CallNextStep
<1>10. ASSUME NEW d \in Dispatcher, GateOpens(d) PROVE IInv'
  BY <1>10, GateOpensStep
<1>11. ASSUME NEW d \in Dispatcher, NEW l \in Listener, Start(d, l) PROVE IInv'
  BY <1>11, StartStep
<1>12. ASSUME NEW d \in Dispatcher, NEW l \in Listener, NEW threw \in BOOLEAN, Complete(d, l, threw)
       PROVE IInv'
  BY <1>12, CompleteStep
<1>13. CASE UNCHANGED vars
  <2>1. TypeOK /\ Registered /\ \A e \in Dispatcher : Sound(e)
    BY SoundAll DEF IInv
  <2>2. UNCHANGED <<mode, listeners, version, reg, since, dispatch, calls, sink>>
    BY <1>13 DEF vars
  <2>3. \A e \in Dispatcher : SameList(e, dispatch') /\ Called(e)' = Called(e)
    BY <2>2 DEF SameList, Called
  <2>4. Listed' = Listed
    BY <2>2 DEF Listed
  <2>5. TypeOK'
    BY <2>1, <2>2 DEF TypeOK
  <2>6. version' \in Nat /\ version <= version'
    BY <2>1, <2>2 DEF TypeOK
  <2>7. Registered'
    BY <2>1, <2>2, <2>3, <2>4, <2>6, RegisteredKept
  <2>9. Phases' /\ GateAccounting'
    BY <2>1, <2>2, <2>3, SoundStays, SoundNext
  <2>. QED  BY <2>5, <2>7, <2>9 DEF IInv
<1>. QED
  BY <1>1, <1>2, <1>3, <1>4, <1>5, <1>6, <1>7, <1>8, <1>9, <1>10, <1>11, <1>12, <1>13 DEF Next

(* The invariant holds of every behaviour.                                 *)
THEOREM BusInvariance == Spec => []IInv
<1>1. Init => IInv
  BY Initially
<1>2. IInv /\ [Next]_vars => IInv'
  BY StepKeepsInv
<1>. QED  BY <1>1, <1>2, PTL DEF Spec

(* Every variable keeps its type; in particular no completion takes a gate *)
(* below zero, and no unwinding waterfall leaves the first slot.           *)
THEOREM BusTypeCorrect == Spec => []TypeOK
<1>1. IInv => TypeOK
  BY DEF IInv
<1>. QED  BY <1>1, BusInvariance, PTL

(* The gate of a parallel dispatch counts the listeners it has called and  *)
(* not yet heard from, and opens when all have answered                    *)
(* (dispatch_parallel, parallel_state::complete).                          *)
THEOREM GateCounts == Spec => []GateAccounting
<1>1. IInv => GateAccounting
  BY DEF IInv
<1>. QED  BY <1>1, BusInvariance, PTL

(* Copy on write: no dispatch calls a listener added after it began        *)
(* (event_entry_impl::add, snapshot_t).                                    *)
THEOREM NeverAddedLater == Spec => []AddedLater
<1>1. IInv => AddedLater
  <2>1. SUFFICES ASSUME IInv, NEW d \in Dispatcher, NEW l \in Listener, calls[d][l].state # "none"
                 PROVE  since[l] <= dispatch[d].snap
    BY DEF AddedLater
  <2>2. l \in Called(d)
    BY <2>1 DEF Called
  <2>. QED  BY <2>1, <2>2 DEF IInv, Registered
<1>. QED  BY <1>1, BusInvariance, PTL

----------------------------------------------------------------------------
(* The loop of a serial or bail dispatch, between two awaits: what it has  *)
(* passed has returned, what it has not come to was not called, and it     *)
(* ends with the listener that threw.                                      *)
Chain(d) ==
    mode \in {"serial", "bail"} =>
        /\ dispatch[d].phase \in {"idle", "loop", "awaiting", "done"}
        /\ dispatch[d].outcome # "none" <=> dispatch[d].phase = "done"
        /\ Called(d) \subseteq Heard(d)
        /\ \A i \in DOMAIN dispatch[d].list :
              /\ i > dispatch[d].pos \/ (dispatch[d].phase = "loop" /\ i = dispatch[d].pos)
                    => dispatch[d].list[i].l \notin Called(d)
              /\ i < dispatch[d].pos /\ Hears(d, dispatch[d].list[i].l)
                    => calls[d][dispatch[d].list[i].l].state = "returned"
        /\ \A l \in Listener :
              /\ calls[d][l].state # "spawned"
              /\ calls[d][l].state = "running" => dispatch[d].phase = "awaiting"
              /\ calls[d][l].state = "threw" => dispatch[d].outcome = "threw"
              /\ calls[d][l].state \in {"running", "threw"} =>
                    dispatch[d].pos \in DOMAIN dispatch[d].list /\ l = dispatch[d].list[dispatch[d].pos].l
        /\ dispatch[d].outcome = "threw" => \E l \in Listener : calls[d][l].state = "threw"
        /\ dispatch[d].outcome = "ok" => dispatch[d].pos > Len(dispatch[d].list)

(* emit calls no listener before its loop comes to it; parallel rethrows   *)
(* exactly when somebody threw.                                            *)
Ahead(d) ==
    mode = "emit" => \A i \in DOMAIN dispatch[d].list :
                        i >= dispatch[d].pos => dispatch[d].list[i].l \notin Called(d)
Rethrown(d) ==
    mode = "parallel" /\ dispatch[d].outcome \in {"ok", "threw"} =>
        (dispatch[d].outcome = "threw" <=> \E l \in Listener : calls[d][l].state = "threw")

Book(d) == Chain(d) /\ Ahead(d) /\ Rethrown(d)

(* The sink has heard once of every listener of an emit that threw.        *)
Thrown == {p \in Dispatcher \X Listener : calls[p[1]][p[2]].state = "threw"}
SinkBook == mode = "emit" => IsFiniteSet(Thrown) /\ sink = Cardinality(Thrown)

FailureInv == SinkBook /\ \A d \in Dispatcher : Book(d)

(* A dispatch a step does not touch keeps its book.                        *)
LEMMA BookStays ==
    ASSUME NEW e \in Dispatcher, Book(e), mode' = mode, SameList(e, dispatch'),
           dispatch[e].list \in Seq(Slot), dispatch'[e].list \in Seq(Slot),
           dispatch'[e].phase = dispatch[e].phase, dispatch'[e].outcome = dispatch[e].outcome,
           dispatch'[e].pos = dispatch[e].pos,
           \A m \in Listener : calls'[e][m].state = calls[e][m].state
    PROVE  Book(e)'
<1>1. Heard(e)' = Heard(e) /\ Called(e)' = Called(e) 
  BY DEF Heard, Hears, Called, SameList
<1>2. /\ DOMAIN dispatch'[e].list = DOMAIN dispatch[e].list
      /\ \A i \in DOMAIN dispatch[e].list : dispatch'[e].list[i].l = dispatch[e].list[i].l
  BY DEF SameList
<1>3. Len(dispatch'[e].list) = Len(dispatch[e].list)
  BY <1>2
<1>4. Chain(e)'
  <2>. SUFFICES ASSUME mode \in {"serial", "bail"} PROVE Chain(e)'
    BY DEF Chain
  <2>1. \A i \in DOMAIN dispatch'[e].list :
          /\ i > dispatch'[e].pos \/ (dispatch'[e].phase = "loop" /\ i = dispatch'[e].pos)
                => dispatch'[e].list[i].l \notin Called(e)'
          /\ i < dispatch'[e].pos /\ Hears(e, dispatch'[e].list[i].l)
                => calls'[e][dispatch'[e].list[i].l].state = "returned"
    <3>0. \A i \in DOMAIN dispatch[e].list : dispatch[e].list[i] \in Slot
      OBVIOUS
    <3>1. \A i \in DOMAIN dispatch[e].list : dispatch[e].list[i].l \in Listener
      BY <3>0 DEF Slot
    <3>. QED  BY <1>1, <1>2, <3>1, SMTT(40) DEF Book, Chain
  <2>2. \A l \in Listener :
          /\ calls'[e][l].state # "spawned"
          /\ calls'[e][l].state = "running" => dispatch'[e].phase = "awaiting"
          /\ calls'[e][l].state = "threw" => dispatch'[e].outcome = "threw"
          /\ calls'[e][l].state \in {"running", "threw"} =>
                dispatch'[e].pos \in DOMAIN dispatch'[e].list /\ l = dispatch'[e].list[dispatch'[e].pos].l
    BY <1>2 DEF Book, Chain
  <2>. QED  BY <1>1, <1>2, <1>3, <2>1, <2>2 DEF Book, Chain, Hears
<1>5. Ahead(e)' /\ Rethrown(e)'
  BY <1>1, <1>2 DEF Book, Ahead, Rethrown
<1>. QED  BY <1>4, <1>5 DEF Book

(* A step after which the same listeners have thrown, and one after which  *)
(* one more has.                                                           *)
LEMMA SinkStays ==
    ASSUME SinkBook, mode' = mode, sink' = sink,
           \A e \in Dispatcher, m \in Listener :
              calls'[e][m].state = "threw" <=> calls[e][m].state = "threw"
    PROVE  SinkBook'
<1>1. Thrown' = Thrown
  BY DEF Thrown
<1>. QED  BY <1>1 DEF SinkBook

LEMMA SinkGrows ==
    ASSUME SinkBook, mode' = mode, sink' = sink + 1, NEW d \in Dispatcher, NEW l \in Listener,
           calls[d][l].state # "threw", calls'[d][l].state = "threw",
           \A e \in Dispatcher, m \in Listener :
              <<e, m>> # <<d, l>> => calls'[e][m].state = calls[e][m].state
    PROVE  SinkBook'
<1>1. Thrown' = Thrown \cup {<<d, l>>} /\ <<d, l>> \notin Thrown
  <2>1. \A p \in Dispatcher \X Listener : p # <<d, l>> => calls'[p[1]][p[2]].state = calls[p[1]][p[2]].state
    OBVIOUS
  <2>. QED  BY <2>1 DEF Thrown
<1>2. mode = "emit" => IsFiniteSet(Thrown') /\ Cardinality(Thrown') = Cardinality(Thrown) + 1
  BY <1>1, FS_AddElement DEF SinkBook
<1>. QED  BY <1>2 DEF SinkBook

(* What is known before every step.                                        *)
LEMMA Given ==
    ASSUME IInv, NEW d \in Dispatcher
    PROVE  /\ TypeOK /\ Registered /\ dispatch \in [Dispatcher -> Dispatch]
           /\ calls \in [Dispatcher -> [Listener -> Call]] /\ sink \in Nat
           /\ dispatch[d] \in Dispatch /\ dispatch[d].pos \in Nat \ {0}
           /\ dispatch[d].list \in Seq(Slot) /\ Len(dispatch[d].list) \in Nat
           /\ DOMAIN dispatch[d].list = 1..Len(dispatch[d].list)
<1>1. TypeOK /\ Registered /\ dispatch[d] \in Dispatch
  BY DEF IInv, TypeOK
<1>2. dispatch[d].list \in Seq(Slot) /\ dispatch[d].pos \in Nat \ {0}
  BY <1>1 DEF Dispatch
<1>. QED  BY <1>1, <1>2 DEF TypeOK

(* Deciding a dispatch leaves its loop where it is.                        *)
LEMMA DecidesThere ==
    ASSUME NEW x \in Dispatch, NEW o \in {"ok", "threw", "bailed", "empty"}
    PROVE  /\ Decided(x, o) \in Dispatch /\ Decided(x, o).list = x.list /\ Decided(x, o).pos = x.pos
           /\ Decided(x, o).phase = "done" /\ Decided(x, o).outcome = o
BY DEF Dispatch, Decided

(* A step of d's own: the other books are kept.                            *)
LEMMA OwnStep ==
    ASSUME IInv, FailureInv, NEW d \in Dispatcher, mode' = mode,
           dispatch' \in [Dispatcher -> Dispatch],
           \A e \in Dispatcher : e # d =>
              /\ SameList(e, dispatch')
              /\ dispatch'[e].phase = dispatch[e].phase /\ dispatch'[e].outcome = dispatch[e].outcome
              /\ dispatch'[e].pos = dispatch[e].pos
              /\ \A m \in Listener : calls'[e][m].state = calls[e][m].state,
           Book(d)', SinkBook'
    PROVE  FailureInv'
<1>1. ASSUME NEW e \in Dispatcher PROVE Book(e)'
  <2>1. CASE e = d
    BY <2>1
  <2>2. CASE e # d
    <3>1. Book(e)
      BY DEF FailureInv
    <3>2. dispatch[e].list \in Seq(Slot)
      BY Given
    <3>3. dispatch'[e].list \in Seq(Slot)
      BY DEF Dispatch
    <3>. QED  BY <2>2, <3>1, <3>2, <3>3, BookStays
  <2>. QED  BY <2>1, <2>2
<1>. QED  BY <1>1 DEF FailureInv

(* A step of d's frame that calls nobody.                                  *)
LEMMA FrameBook ==
    ASSUME IInv, FailureInv, NEW d \in Dispatcher, NEW r \in Dispatch,
           dispatch' = [dispatch EXCEPT ![d] = r], UNCHANGED <<mode, calls, sink>>, Book(d)'
    PROVE  FailureInv'
<1>1. /\ dispatch' \in [Dispatcher -> Dispatch]
      /\ \A e \in Dispatcher : e # d => dispatch'[e] = dispatch[e]
  BY Given
<1>2. \A e \in Dispatcher : e # d => SameList(e, dispatch')
  BY <1>1 DEF SameList
<1>3. SinkBook'
  BY SinkStays DEF FailureInv
<1>. QED  BY <1>1, <1>2, <1>3, OwnStep

----------------------------------------------------------------------------
(* The books after each operation.                                         *)

LEMMA SkipBook == ASSUME IInv, FailureInv, NEW d \in Dispatcher, Skip(d) PROVE FailureInv'
<1>. DEFINE x == dispatch[d]
            r == [x EXCEPT !.pos = @ + 1]
<1>1. x \in Dispatch /\ x.pos \in Nat \ {0} /\ DOMAIN x.list \subseteq Nat /\ Book(d)
  BY Given DEF FailureInv
<1>2. /\ r \in Dispatch /\ r.list = x.list /\ r.phase = x.phase /\ r.outcome = x.outcome /\ r.pos = x.pos + 1
  BY <1>1, Advances
<1>3. /\ dispatch' = [dispatch EXCEPT ![d] = r] /\ x.phase = "loop" /\ UNCHANGED <<mode, calls, sink>>
      /\ x.pos <= Len(x.list) /\ ~Hears(d, x.list[x.pos].l)
  BY DEF Skip, InLoop, At
<1>. HIDE DEF r
<1>4. dispatch'[d] = r
  BY <1>3, Given
<1>5. Called(d)' = Called(d) /\ Heard(d)' = Heard(d) 
  BY <1>2, <1>3, <1>4 DEF Called, Heard, Hears
<1>6. mode \in {"serial", "bail"} => /\ x.outcome = "none" /\ \A l \in Listener : calls[d][l].state \notin {"running", "threw"}
  BY <1>1, <1>3 DEF Book, Chain
<1>7. Chain(d)'
  <2>. SUFFICES ASSUME mode \in {"serial", "bail"} PROVE Chain(d)'
    BY <1>3 DEF Chain
  <2>1. ASSUME NEW i \in DOMAIN x.list, i >= x.pos + 1 PROVE x.list[i].l \notin Called(d)
    BY <1>1, <1>3, <2>1 DEF Book, Chain
  <2>2. ASSUME NEW i \in DOMAIN x.list, i < x.pos + 1, Hears(d, x.list[i].l)
        PROVE  calls[d][x.list[i].l].state = "returned"
    <3>1. i # x.pos
      BY <1>3, <2>2
    <3>2. i < x.pos
      BY <1>1, <2>2, <3>1
    <3>. QED  BY <1>1, <2>2, <3>2 DEF Book, Chain
  <2>3. \A i \in DOMAIN x.list :
          /\ i > x.pos + 1 \/ (x.phase = "loop" /\ i = x.pos + 1) => x.list[i].l \notin Called(d)
          /\ i < x.pos + 1 /\ Hears(d, x.list[i].l) => calls[d][x.list[i].l].state = "returned"
    BY <1>1, <2>1, <2>2
  <2>. QED  BY <1>1, <1>2, <1>3, <1>4, <1>5, <1>6, <2>3, ZenonT(60) DEF Book, Chain
<1>8. Ahead(d)' /\ Rethrown(d)'
  BY <1>1, <1>2, <1>3, <1>4, <1>5 DEF Book, Ahead, Rethrown
<1>. QED  BY <1>2, <1>3, <1>7, <1>8, FrameBook DEF Book

LEMMA InvokeEmptyBook == ASSUME IInv, FailureInv, NEW d \in Dispatcher, InvokeEmpty(d) PROVE FailureInv'
<1>. DEFINE x == dispatch[d]
            r == Decided(x, "empty")
<1>1. x \in Dispatch /\ x.pos \in Nat \ {0} /\ DOMAIN x.list \subseteq Nat /\ Book(d)
  BY Given DEF FailureInv
<1>2. /\ r \in Dispatch /\ r.list = x.list /\ r.phase = "done" /\ r.outcome = "empty" /\ r.pos = x.pos
  BY <1>1, DecidesThere
<1>3. dispatch' = [dispatch EXCEPT ![d] = r] /\ x.phase = "loop" /\ UNCHANGED <<mode, calls, sink>>
  BY DEF InvokeEmpty, InLoop, Decided
<1>. HIDE DEF r
<1>4. dispatch'[d] = r
  BY <1>3, Given
<1>5. Called(d)' = Called(d) /\ Heard(d)' = Heard(d)
  BY <1>2, <1>3, <1>4 DEF Called, Heard, Hears
<1>6. mode \in {"serial", "bail"} => /\ x.outcome = "none" /\ \A l \in Listener : calls[d][l].state \notin {"running", "threw"}
  BY <1>1, <1>3 DEF Book, Chain
<1>7. Chain(d)'
  BY <1>1, <1>2, <1>3, <1>4, <1>5, <1>6 DEF Book, Chain, Hears
<1>8. Ahead(d)' /\ Rethrown(d)'
  BY <1>1, <1>2, <1>3, <1>4, <1>5 DEF Book, Ahead, Rethrown
<1>. QED  BY <1>2, <1>3, <1>7, <1>8, FrameBook DEF Book

LEMMA LoopEndsBook == ASSUME IInv, FailureInv, NEW d \in Dispatcher, LoopEnds(d) PROVE FailureInv'
<1>. DEFINE x == dispatch[d]
            gated == mode = "parallel" /\ (x.remaining > 0 \/ Called(d) # {})
            g == [x EXCEPT !.phase = "gate"]
            o == Decided(x, "ok")
            r == IF gated THEN g ELSE o
<1>1. x \in Dispatch /\ x.pos \in Nat \ {0} /\ DOMAIN x.list \subseteq Nat /\ Book(d) /\ Sound(d)
  BY Given, SoundAll DEF FailureInv, IInv
<1>2. /\ g \in Dispatch /\ g.list = x.list /\ g.phase = "gate" /\ g.outcome = x.outcome /\ g.pos = x.pos
      /\ o \in Dispatch /\ o.list = x.list /\ o.phase = "done" /\ o.outcome = "ok" /\ o.pos = x.pos
  BY <1>1, Waits, DecidesThere DEF Phase
<1>3. /\ dispatch' = [dispatch EXCEPT ![d] = r] /\ x.phase = "loop" /\ x.pos > Len(x.list)
      /\ UNCHANGED <<mode, calls, sink>>
  BY DEF LoopEnds, Decided
<1>. HIDE DEF g, o, gated
<1>4. /\ r \in Dispatch /\ r.list = x.list /\ r.pos = x.pos
      /\ mode # "parallel" => r.phase = "done" /\ r.outcome = "ok"
      /\ mode = "parallel" => r.outcome = x.outcome \/ (r.outcome = "ok" /\ Called(d) = {})
  BY <1>2 DEF gated
<1>. HIDE DEF r
<1>5. dispatch'[d] = r
  BY <1>3, Given
<1>6. Called(d)' = Called(d) /\ Heard(d)' = Heard(d)
  BY <1>3, <1>4, <1>5 DEF Called, Heard, Hears
<1>7. mode \in {"serial", "bail"} => /\ x.outcome = "none" /\ \A l \in Listener : calls[d][l].state \notin {"running", "threw"}
  BY <1>1, <1>3 DEF Book, Chain
<1>8. Chain(d)'
  BY <1>1, <1>3, <1>4, <1>5, <1>6, <1>7, SMTT(40) DEF Book, Chain, Hears
<1>9. Ahead(d)'
  BY <1>1, <1>3, <1>4, <1>5, <1>6 DEF Book, Ahead
<1>10. Rethrown(d)'
  BY <1>1, <1>3, <1>4, <1>5 DEF Book, Rethrown, Called
<1>. QED  BY <1>3, <1>4, <1>8, <1>9, <1>10, FrameBook DEF Book

LEMMA GateOpensBook == ASSUME IInv, FailureInv, NEW d \in Dispatcher, GateOpens(d) PROVE FailureInv'
<1>. DEFINE x == dispatch[d]
            o == IF \E l \in Listener : calls[d][l].state = "threw" THEN "threw" ELSE "ok"
            r == Decided(x, o)
<1>1. x \in Dispatch /\ Book(d)
  BY Given DEF FailureInv
<1>2. dispatch' = [dispatch EXCEPT ![d] = r] /\ x.phase = "gate" /\ UNCHANGED <<mode, calls, sink>>
  BY DEF GateOpens, Decided
<1>3. r \in Dispatch /\ r.list = x.list /\ r.outcome = o /\ r.pos = x.pos
  <2>1. o \in {"ok", "threw"}
    OBVIOUS
  <2>. HIDE DEF o
  <2>. QED  BY <1>1, <2>1, DecidesThere
<1>. HIDE DEF r
<1>4. dispatch'[d] = r
  BY <1>2, Given
<1>5. Called(d)' = Called(d)
  BY <1>2 DEF Called
<1>6. Chain(d)'
  BY <1>1, <1>2 DEF Book, Chain
<1>7. Ahead(d)' /\ Rethrown(d)'
  BY <1>1, <1>2, <1>3, <1>4, <1>5 DEF Book, Ahead, Rethrown
<1>. QED  BY <1>2, <1>3, <1>6, <1>7, FrameBook DEF Book

LEMMA BeginBook == ASSUME IInv, FailureInv, NEW d \in Dispatcher, Begin(d) PROVE FailureInv'
<1>1. dispatch[d].phase = "idle" /\ UNCHANGED <<mode, calls, sink>>
  BY DEF Begin
<1>2. Called(d) = {} /\ Called(d)' = {} /\ \A l \in Listener : calls[d][l].state = "none"
  BY <1>1, Given DEF Registered, Called
<1>3. /\ dispatch' \in [Dispatcher -> Dispatch]
      /\ \A e \in Dispatcher : e # d => dispatch'[e] = dispatch[e]
  <2>1. TypeOK'
    BY BeginStep DEF IInv
  <2>2. PICK r : dispatch' = [dispatch EXCEPT ![d] = r]
    BY DEF Begin
  <2>. QED  BY <2>1, <2>2, Given DEF TypeOK
<1>4. dispatch'[d].phase = "loop" /\ dispatch'[d].outcome = "none" /\ dispatch'[d].pos = 1
  BY Given DEF Begin
<1>5. DOMAIN dispatch'[d].list \subseteq Nat \ {0}
  BY <1>3 DEF Dispatch
<1>6. Book(d)'
  BY <1>1, <1>2, <1>4, <1>5 DEF Book, Chain, Ahead, Rethrown
<1>7. \A e \in Dispatcher : e # d => SameList(e, dispatch')
  BY <1>3 DEF SameList
<1>8. SinkBook'
  BY <1>1, SinkStays DEF FailureInv
<1>. QED  BY <1>1, <1>3, <1>6, <1>7, <1>8, OwnStep

(* A listener that is entered has not thrown before, and does not now.     *)
LEMMA EnterBook ==
    ASSUME IInv, FailureInv, NEW d \in Dispatcher, NEW l \in Listener,
           NEW disp \in [Dispatcher -> Dispatch], \A e \in Dispatcher : SameList(e, disp),
           \A e \in Dispatcher : e # d => disp[e] = dispatch[e],
           Enter(d, l, disp), UNCHANGED <<mode, sink>>, mode = "emit" => calls[d][l].state # "threw",
           Book(d)'
    PROVE  FailureInv'
<1>1. /\ dispatch' \in [Dispatcher -> Dispatch]
      /\ \A e \in Dispatcher :
           /\ SameList(e, dispatch')
           /\ dispatch'[e].phase = disp[e].phase /\ dispatch'[e].outcome = disp[e].outcome
           /\ dispatch'[e].pos = disp[e].pos
      /\ calls'[d][l].state = "running"
      /\ \A e \in Dispatcher, m \in Listener :
           <<e, m>> # <<d, l>> => calls'[e][m].state = calls[e][m].state
  BY Given, EnterFacts
<1>2. SinkBook'
  <2>1. mode = "emit" => \A e \in Dispatcher, m \in Listener :
                            calls'[e][m].state = "threw" <=> calls[e][m].state = "threw"
    BY <1>1
  <2>2. CASE mode = "emit"
    BY <2>1, <2>2, SinkStays DEF FailureInv
  <2>3. CASE mode # "emit"
    BY <2>3 DEF SinkBook
  <2>. QED  BY <2>2, <2>3
<1>. QED  BY <1>1, <1>2, OwnStep

LEMMA InvokeBook == ASSUME IInv, FailureInv, NEW d \in Dispatcher, Invoke(d) PROVE FailureInv'
<1>. DEFINE x == dispatch[d]
            l == At(d).l
            w == [x EXCEPT !.phase = "awaiting"]
            a == [x EXCEPT !.pos = x.pos + 1]
            r == IF mode = "parallel" THEN a ELSE w
            disp == [dispatch EXCEPT ![d] = r]
<1>1. /\ x \in Dispatch /\ x.pos \in Nat \ {0} /\ DOMAIN x.list = 1..Len(x.list) /\ Len(x.list) \in Nat
      /\ dispatch \in [Dispatcher -> Dispatch]
      /\ Book(d) /\ Sound(d) /\ TypeOK /\ Registered
  BY Given, SoundAll DEF FailureInv, IInv
<1>2. /\ x.phase = "loop" /\ x.pos <= Len(x.list) /\ Hears(d, l) /\ mode # "emit"
      /\ Enter(d, l, disp) /\ UNCHANGED <<mode, sink>>
  BY DEF Invoke, InLoop
<1>3. x.pos \in DOMAIN x.list /\ l = x.list[x.pos].l /\ l \in Listener /\ l \in InList(d)
  BY <1>1, <1>2, SlotInList DEF At
<1>4. /\ w \in Dispatch /\ w.list = x.list /\ w.phase = "awaiting" /\ w.outcome = x.outcome /\ w.pos = x.pos
      /\ a \in Dispatch /\ a.list = x.list /\ a.outcome = x.outcome
  BY <1>1, Waits, Advances DEF Phase
<1>. HIDE DEF w, a, l
<1>5. /\ r \in Dispatch /\ r.list = x.list /\ r.outcome = x.outcome
      /\ mode # "parallel" => r.phase = "awaiting" /\ r.pos = x.pos
  BY <1>4
<1>. HIDE DEF r
<1>6. /\ disp \in [Dispatcher -> Dispatch] /\ disp[d] = r
      /\ \A e \in Dispatcher : e # d => disp[e] = dispatch[e]
  BY <1>1, <1>5
<1>. HIDE DEF disp
<1>7. \A e \in Dispatcher : SameList(e, disp)
  BY <1>5, <1>6 DEF SameList
<1>8. /\ SameList(d, dispatch') /\ dispatch'[d].phase = r.phase /\ dispatch'[d].outcome = x.outcome
      /\ dispatch'[d].pos = r.pos /\ dispatch' \in [Dispatcher -> Dispatch]
      /\ calls'[d][l].state = "running"
      /\ \A m \in Listener : m # l => calls'[d][m].state = calls[d][m].state
  <2>1. /\ dispatch' \in [Dispatcher -> Dispatch]
        /\ \A e \in Dispatcher :
           /\ SameList(e, dispatch')
           /\ dispatch'[e].phase = disp[e].phase /\ dispatch'[e].outcome = disp[e].outcome
           /\ dispatch'[e].pos = disp[e].pos
      /\ calls'[d][l].state = "running"
      /\ \A e \in Dispatcher, m \in Listener :
           <<e, m>> # <<d, l>> => calls'[e][m].state = calls[e][m].state
    <3>1. TypeOK /\ l \in Listener /\ Enter(d, l, disp)
      BY <1>1, <1>2, <1>3
    <3>2. disp \in [Dispatcher -> Dispatch] /\ \A e \in Dispatcher : SameList(e, disp)
      BY <1>6, <1>7
    <3>. QED  BY ONLY <3>1, <3>2, d \in Dispatcher, EnterFacts
  <2>. QED  BY <1>5, <1>6, <2>1
<1>9. Heard(d)' = Heard(d) /\ Called(d)' = Called(d) \cup {l} /\ l \in Heard(d)
  <2>1. Heard(d)' = Heard(d)
    BY <1>8 DEF Heard, Hears, SameList
  <2>2. Called(d)' = Called(d) \cup {l}
    BY <1>3, <1>8 DEF Called
  <2>3. l \in Heard(d)
    BY <1>2, <1>3 DEF Heard
  <2>. QED  BY <2>1, <2>2, <2>3
<1>10. Chain(d)'
  <2>. SUFFICES ASSUME mode \in {"serial", "bail"} PROVE Chain(d)'
    BY <1>2 DEF Chain
  <2>1. /\ x.outcome = "none" /\ Called(d) \subseteq Heard(d)
        /\ \A m \in Listener : calls[d][m].state \notin {"running", "threw", "spawned"}
    BY <1>1, <1>2 DEF Book, Chain
  <2>2. /\ dispatch'[d].phase = "awaiting" /\ dispatch'[d].pos = x.pos /\ dispatch'[d].outcome = "none"
        /\ DOMAIN dispatch'[d].list = DOMAIN x.list
        /\ \A i \in DOMAIN x.list : dispatch'[d].list[i].l = x.list[i].l
    BY <1>5, <1>8, <2>1 DEF SameList
  <2>3. ASSUME NEW i \in DOMAIN x.list, i > x.pos PROVE x.list[i].l \notin Called(d)'
    <3>1. x.list[i].l \notin Called(d)
      BY <1>1, <2>3 DEF Book, Chain
    <3>2. x.list[i].l # l
      BY <1>1, <1>3, <2>3 DEF Registered
    <3>. QED  BY <1>9, <3>1, <3>2
  <2>4. ASSUME NEW i \in DOMAIN x.list, i < x.pos, Hears(d, x.list[i].l)
        PROVE  calls'[d][x.list[i].l].state = "returned"
    <3>1. calls[d][x.list[i].l].state = "returned"
      BY <1>1, <2>4 DEF Book, Chain
    <3>2. x.list[i].l # l /\ x.list[i].l \in Listener
      BY <1>1, <1>3, <2>4, SlotInList DEF Registered
    <3>. QED  BY <1>8, <3>1, <3>2
  <2>5. \A m \in Listener :
          /\ calls'[d][m].state # "spawned" /\ calls'[d][m].state # "threw"
          /\ calls'[d][m].state = "running" => m = l
    BY <1>8, <2>1
  <2>. QED  BY <1>3, <1>9, <2>1, <2>2, <2>3, <2>4, <2>5 DEF Chain, Hears
<1>11. Ahead(d)' /\ Rethrown(d)'
  <2>1. mode = "parallel" => dispatch'[d].outcome = "none"
    BY <1>1, <1>2, <1>8 DEF Sound, Dispatch
  <2>. QED  BY <1>2, <2>1 DEF Ahead, Rethrown
<1>12. Book(d)'
  BY <1>10, <1>11 DEF Book
<1>. QED  BY <1>2, <1>3, <1>6, <1>7, <1>12, EnterBook

LEMMA CallNextBook == ASSUME IInv, FailureInv, NEW d \in Dispatcher, CallNext(d) PROVE FailureInv'
<1>. DEFINE i == dispatch[d].pos + 1
            l == dispatch[d].list[i].l
            r == [dispatch[d] EXCEPT !.pos = i]
            disp == [dispatch EXCEPT ![d] = r]
            u == [dispatch[d] EXCEPT !.phase = "unwinding"]
            full == dispatch[d].list[i].full
<1>1. /\ TypeOK /\ dispatch \in [Dispatcher -> Dispatch] /\ dispatch[d] \in Dispatch
      /\ i \in Nat \ {0} /\ i <= Len(dispatch[d].list)
  BY Given DEF CallNext
<1>2. l \in Listener
  BY <1>1, SlotInList
<1>3. /\ mode = "waterfall" /\ UNCHANGED <<mode, sink>>
      /\ full => Enter(d, l, disp)
      /\ ~full => dispatch' = [dispatch EXCEPT ![d] = u] /\ UNCHANGED calls
  <2>1. disp = [dispatch EXCEPT ![d].pos = i] /\ [dispatch EXCEPT ![d] = u] = [dispatch EXCEPT ![d].phase = "unwinding"]
    OBVIOUS
  <2>2. /\ mode = "waterfall" /\ UNCHANGED <<mode, sink>>
        /\ IF full THEN Enter(d, l, [dispatch EXCEPT ![d].pos = i])
           ELSE /\ dispatch' = [dispatch EXCEPT ![d].phase = "unwinding"]
                /\ UNCHANGED <<listeners, version, calls>>
    BY DEF CallNext
  <2>. HIDE DEF full, disp, u, l, i
  <2>. QED  BY <2>1, <2>2
<1>4. Book(d)'
  BY <1>3 DEF Book, Chain, Ahead, Rethrown
<1>5. CASE full
  <2>1. r \in Dispatch /\ r.list = dispatch[d].list
    BY <1>1, Advances
  <2>. HIDE DEF r
  <2>2. /\ disp \in [Dispatcher -> Dispatch] /\ disp[d] = r
        /\ \A e \in Dispatcher : e # d => disp[e] = dispatch[e]
    BY <1>1, <2>1
  <2>. HIDE DEF disp
  <2>3. \A e \in Dispatcher : SameList(e, disp)
    BY <2>1, <2>2 DEF SameList
  <2>4. Enter(d, l, disp) /\ UNCHANGED <<mode, sink>> /\ mode # "emit"
    BY <1>3, <1>5
  <2>. HIDE DEF l, full
  <2>. QED  BY <1>2, <1>4, <2>2, <2>3, <2>4, EnterBook
<1>6. CASE ~full
  <2>1. u \in Dispatch
    BY <1>1, Waits DEF Phase
  <2>. HIDE DEF u, full
  <2>. QED  BY <1>3, <1>4, <1>6, <2>1, FrameBook
<1>. QED  BY <1>5, <1>6

(* What becomes of one call, the others being left alone.                  *)
LEMMA OneCall ==
    ASSUME IInv, NEW d \in Dispatcher, NEW l \in Listener, NEW st,
           st \in {"spawned", "returned", "threw"},
           calls' = [calls EXCEPT ![d][l].state = st]
    PROVE  /\ calls'[d][l].state = st
           /\ \A e \in Dispatcher, m \in Listener :
                <<e, m>> # <<d, l>> => calls'[e][m].state = calls[e][m].state
<1>. DEFINE c == [calls[d][l] EXCEPT !.state = st]
<1>1. calls \in [Dispatcher -> [Listener -> Call]] /\ calls[d][l] \in Call
  BY Given
<1>2. c.state = st
  BY <1>1 DEF Call
<1>3. calls' = [calls EXCEPT ![d][l] = c]
  BY <1>1
<1>. HIDE DEF c
<1>. QED  BY ONLY <1>1, <1>2, <1>3, l \in Listener, d \in Dispatcher

LEMMA SpawnBook == ASSUME IInv, FailureInv, NEW d \in Dispatcher, Spawn(d) PROVE FailureInv'
<1>. DEFINE x == dispatch[d]
            l == At(d).l
            r == [x EXCEPT !.pos = @ + 1]
<1>1. /\ x \in Dispatch /\ x.pos \in Nat \ {0} /\ DOMAIN x.list = 1..Len(x.list) /\ Len(x.list) \in Nat
      /\ dispatch \in [Dispatcher -> Dispatch] /\ Book(d) /\ TypeOK /\ Registered /\ SinkBook
  BY Given DEF FailureInv
<1>2. /\ x.pos <= Len(x.list) /\ mode = "emit" /\ UNCHANGED <<mode, sink>>
      /\ dispatch' = [dispatch EXCEPT ![d] = r]
      /\ calls' = [calls EXCEPT ![d][l].state = "spawned"]
  BY DEF Spawn, InLoop
<1>3. x.pos \in DOMAIN x.list /\ l = x.list[x.pos].l /\ l \in Listener
  BY <1>1, <1>2, SlotInList DEF At
<1>4. r \in Dispatch /\ r.list = x.list /\ r.pos = x.pos + 1 /\ r.phase = x.phase /\ r.outcome = x.outcome
  BY <1>1, Advances
<1>. HIDE DEF r, l
<1>5. /\ dispatch' \in [Dispatcher -> Dispatch] /\ dispatch'[d] = r
      /\ \A e \in Dispatcher : e # d => dispatch'[e] = dispatch[e]
  BY <1>1, <1>2, <1>4
<1>6. /\ calls'[d][l].state = "spawned"
      /\ \A e \in Dispatcher, m \in Listener :
            <<e, m>> # <<d, l>> => calls'[e][m].state = calls[e][m].state
  <2>. DEFINE st == "spawned"
  <2>1. st \in {"spawned", "returned", "threw"} /\ calls' = [calls EXCEPT ![d][l].state = st]
    BY <1>2
  <2>2. st = "spawned"
    OBVIOUS
  <2>. HIDE DEF st
  <2>3. /\ calls'[d][l].state = st
        /\ \A e \in Dispatcher, m \in Listener :
              <<e, m>> # <<d, l>> => calls'[e][m].state = calls[e][m].state
    <3>1. l \in Listener
      BY <1>3
    <3>. QED  BY <2>1, <3>1, OneCall, ZenonT(40)
  <2>. QED  BY <2>2, <2>3
<1>7. l \notin Called(d)
  <2>1. mode = "emit" /\ Ahead(d)
    BY <1>1, <1>2 DEF Book
  <2>2. \A i \in DOMAIN x.list : i >= x.pos => x.list[i].l \notin Called(d)
    BY <2>1, Zenon DEF Ahead
  <2>3. x.pos \in DOMAIN x.list /\ x.pos >= x.pos
    BY <1>1, <1>3
  <2>4. x.list[x.pos].l \notin Called(d)
    BY <2>2, <2>3, Zenon
  <2>. QED  BY <1>3, <2>4
<1>8. SinkBook'
  <2>1. calls[d][l].state # "threw"
    BY <1>3, <1>7 DEF Called
  <2>2. \A e \in Dispatcher, m \in Listener :
           calls'[e][m].state = "threw" <=> calls[e][m].state = "threw"
    BY <1>6, <2>1
  <2>. QED  BY <1>1, <1>2, <2>2, SinkStays
<1>9. Book(d)'
  <2>1. Called(d)' = Called(d) \cup {l}
    BY <1>3, <1>6 DEF Called
  <2>2. ASSUME NEW i \in DOMAIN x.list, i >= x.pos + 1
        PROVE  x.list[i].l \notin Called(d) \cup {l}
    <3>1. i >= x.pos /\ i # x.pos
      BY <1>1, <2>2
    <3>2. x.list[i].l \notin Called(d)
      BY <1>1, <1>2, <3>1 DEF Book, Ahead
    <3>3. x.list[i].l # l
      BY <1>1, <1>3, <3>1 DEF Registered
    <3>. QED  BY <3>2, <3>3
  <2>3. Ahead(d)'
    BY <1>4, <1>5, <2>1, <2>2 DEF Ahead
  <2>. QED  BY <1>2, <2>3 DEF Book, Chain, Rethrown
<1>10. \A e \in Dispatcher : e # d =>
          /\ SameList(e, dispatch')
          /\ dispatch'[e].phase = dispatch[e].phase /\ dispatch'[e].outcome = dispatch[e].outcome
          /\ dispatch'[e].pos = dispatch[e].pos
          /\ \A m \in Listener : calls'[e][m].state = calls[e][m].state
  BY <1>5, <1>6 DEF SameList
<1>. QED  BY <1>2, <1>5, <1>8, <1>9, <1>10, OwnStep

LEMMA StartBook ==
    ASSUME IInv, FailureInv, NEW d \in Dispatcher, NEW l \in Listener, Start(d, l)
    PROVE  FailureInv'
<1>1. /\ dispatch \in [Dispatcher -> Dispatch] /\ Book(d) /\ Sound(d) /\ SinkBook
      /\ calls[d][l].state = "spawned" /\ mode' = mode
  BY Given, SoundAll DEF FailureInv, IInv, Start
<1>2. mode \notin {"serial", "bail", "parallel"}
  BY <1>1 DEF Book, Chain, Sound
<1>3. \A e \in Dispatcher : SameList(e, dispatch)
  BY DEF SameList
<1>4. ASSUME SameList(d, dispatch'), dispatch'[d].pos = dispatch[d].pos, calls'[d][l].state # "none",
             \A m \in Listener : m # l => calls'[d][m].state = calls[d][m].state
      PROVE  Book(d)'
  <2>1. Called(d)' = Called(d)
    BY <1>1, <1>4 DEF Called
  <2>2. Ahead(d)'
    BY <1>1, <1>4, <2>1 DEF Book, Ahead, SameList
  <2>. QED  BY <1>1, <1>2, <2>2 DEF Book, Chain, Rethrown
<1>5. CASE Enter(d, l, dispatch) /\ UNCHANGED sink
  <2>1. /\ SameList(d, dispatch') /\ dispatch'[d].pos = dispatch[d].pos /\ calls'[d][l].state = "running"
        /\ \A m \in Listener : m # l => calls'[d][m].state = calls[d][m].state
    <3>1. /\ \A e \in Dispatcher : SameList(e, dispatch') /\ dispatch'[e].pos = dispatch[e].pos
          /\ calls'[d][l].state = "running"
          /\ \A e \in Dispatcher, m \in Listener :
                <<e, m>> # <<d, l>> => calls'[e][m].state = calls[e][m].state
      BY <1>1, <1>3, <1>5, Given, EnterFacts
    <3>. QED  BY <3>1
  <2>2. Book(d)'
    BY <1>4, <2>1
  <2>3. UNCHANGED <<mode, sink>> /\ calls[d][l].state # "threw"
    BY <1>1, <1>5
  <2>. QED  BY <1>1, <1>3, <1>5, <2>2, <2>3, EnterBook
<1>6. CASE /\ calls' = [calls EXCEPT ![d][l].state = "threw"]
           /\ sink' = sink + 1
           /\ UNCHANGED <<listeners, version, dispatch>>
  <2>1. /\ calls'[d][l].state = "threw"
        /\ \A e \in Dispatcher, m \in Listener :
              <<e, m>> # <<d, l>> => calls'[e][m].state = calls[e][m].state
    BY <1>6, OneCall
  <2>2. SinkBook'
    BY <1>1, <1>6, <2>1, SinkGrows
  <2>3. /\ dispatch' \in [Dispatcher -> Dispatch] /\ \A e \in Dispatcher : SameList(e, dispatch')
    BY <1>1, <1>3, <1>6
  <2>4. Book(d)'
    BY <1>4, <1>6, <2>1, <2>3
  <2>5. \A e \in Dispatcher : e # d =>
          /\ SameList(e, dispatch')
          /\ dispatch'[e].phase = dispatch[e].phase /\ dispatch'[e].outcome = dispatch[e].outcome
          /\ dispatch'[e].pos = dispatch[e].pos
          /\ \A m \in Listener : calls'[e][m].state = calls[e][m].state
    BY <1>6, <2>1, <2>3
  <2>. QED  BY <1>1, <2>2, <2>3, <2>4, <2>5, OwnStep
<1>. QED  BY <1>5, <1>6 DEF Start

(* The answer of the listener a serial or bail dispatch awaits.            *)
LEMMA ChainAnswers ==
    ASSUME IInv, FailureInv, NEW d \in Dispatcher, NEW l \in Listener, NEW threw \in BOOLEAN,
           Complete(d, l, threw), mode \in {"serial", "bail"}
    PROVE  Chain(d)'
<1>. DEFINE x == dispatch[d]
            st == IF threw THEN "threw" ELSE "returned"
<1>1. /\ x \in Dispatch /\ x.pos \in Nat \ {0} /\ DOMAIN x.list = 1..Len(x.list) /\ Len(x.list) \in Nat
      /\ dispatch \in [Dispatcher -> Dispatch] /\ Chain(d) /\ TypeOK /\ Registered
      /\ calls \in [Dispatcher -> [Listener -> Call]]
  BY Given DEF FailureInv, Book
<1>2. /\ calls[d][l].state = "running" /\ mode' = mode
      /\ calls' = [calls EXCEPT ![d][l].state = st]
  BY DEF Complete
<1>3. x.phase = "awaiting" /\ x.outcome = "none" /\ x.pos \in DOMAIN x.list /\ l = x.list[x.pos].l
  BY <1>1, <1>2 DEF Chain
<1>4. /\ dispatch'[d].list = x.list
      /\ \/ /\ threw /\ dispatch'[d].phase = "done" /\ dispatch'[d].outcome = "threw"
            /\ dispatch'[d].pos = x.pos
         \/ /\ ~threw /\ dispatch'[d].phase = "done" /\ dispatch'[d].outcome = "bailed"
            /\ dispatch'[d].pos = x.pos
         \/ /\ ~threw /\ dispatch'[d].phase = "loop" /\ dispatch'[d].outcome = "none"
            /\ dispatch'[d].pos = x.pos + 1
  <2>1. CASE threw /\ dispatch' = [dispatch EXCEPT ![d].phase = "done", ![d].outcome = "threw"]
    BY <1>1, <2>1 DEF Dispatch
  <2>2. CASE ~threw /\ dispatch' = [dispatch EXCEPT ![d].phase = "done", ![d].outcome = "bailed"]
    BY <1>1, <2>2 DEF Dispatch
  <2>3. CASE ~threw /\ dispatch' = [dispatch EXCEPT ![d].phase = "loop", ![d].pos = @ + 1]
    BY <1>1, <1>3, <2>3 DEF Dispatch
  <2>. QED  BY <2>1, <2>2, <2>3 DEF Complete
<1>5. /\ calls'[d][l].state = st
      /\ \A m \in Listener : m # l => calls'[d][m].state = calls[d][m].state
  <2>1. st \in {"spawned", "returned", "threw"}
    OBVIOUS
  <2>. HIDE DEF st
  <2>2. /\ calls'[d][l].state = st
        /\ \A e \in Dispatcher, m \in Listener :
              <<e, m>> # <<d, l>> => calls'[e][m].state = calls[e][m].state
    BY <1>2, <2>1, OneCall
  <2>. QED  BY <2>2
<1>6. (threw => st = "threw") /\ (~threw => st = "returned")
  OBVIOUS
<1>. HIDE DEF st
<1>7. Called(d)' = Called(d)
  BY <1>2, <1>5, <1>6 DEF Called
<1>8. Heard(d)' = Heard(d)
  BY <1>4 DEF Heard, Hears
<1>9. \A m \in Listener : m # l => calls[d][m].state \notin {"running", "threw", "spawned"}
  BY <1>1, <1>3 DEF Chain
<1>10. ASSUME NEW i \in DOMAIN x.list, i > x.pos PROVE x.list[i].l \notin Called(d)
  BY <1>1, <1>10 DEF Chain
<1>11. ASSUME NEW i \in DOMAIN x.list, i < x.pos, Hears(d, x.list[i].l)
       PROVE  calls'[d][x.list[i].l].state = "returned"
  <2>1. calls[d][x.list[i].l].state = "returned"
    BY <1>1, <1>11 DEF Chain
  <2>2. x.list[i].l # l /\ x.list[i].l \in Listener
    BY <1>1, <1>3, <1>11, SlotInList DEF Registered
  <2>. QED  BY <1>5, <2>1, <2>2
<1>12. \A i \in DOMAIN x.list :
         /\ i > dispatch'[d].pos \/ (dispatch'[d].phase = "loop" /\ i = dispatch'[d].pos)
               => x.list[i].l \notin Called(d)
         /\ i < dispatch'[d].pos /\ Hears(d, x.list[i].l) => calls'[d][x.list[i].l].state = "returned"
  <2>1. CASE dispatch'[d].phase = "done" /\ dispatch'[d].pos = x.pos
    BY <1>1, <1>10, <1>11, <2>1
  <2>2. CASE ~threw /\ dispatch'[d].phase = "loop" /\ dispatch'[d].pos = x.pos + 1
    <3>1. ASSUME NEW i \in DOMAIN x.list, i < x.pos + 1, Hears(d, x.list[i].l)
          PROVE  calls'[d][x.list[i].l].state = "returned"
      <4>1. CASE i = x.pos
        BY <1>3, <1>5, <1>6, <2>2, <4>1
      <4>2. CASE i # x.pos
        BY <1>1, <1>11, <3>1, <4>2
      <4>. QED  BY <4>1, <4>2
    <3>2. ASSUME NEW i \in DOMAIN x.list, i >= x.pos + 1 PROVE x.list[i].l \notin Called(d)
      BY <1>1, <1>10, <3>2
    <3>. QED  BY <1>1, <2>2, <3>1, <3>2
  <2>. QED  BY <1>4, <2>1, <2>2
<1>13. \A m \in Listener :
         /\ calls'[d][m].state \notin {"spawned", "running"}
         /\ calls'[d][m].state = "threw" => m = l /\ threw
  BY <1>5, <1>6, <1>9
<1>14. Called(d) \subseteq Heard(d)
  BY <1>1 DEF Chain
<1>15. threw => calls'[d][l].state = "threw"
  BY <1>5, <1>6
<1>16. /\ dispatch'[d].phase \in {"loop", "done"} /\ dispatch'[d].outcome # "ok"
       /\ dispatch'[d].outcome # "none" <=> dispatch'[d].phase = "done"
       /\ dispatch'[d].outcome = "threw" <=> threw
       /\ threw => dispatch'[d].pos = x.pos
  BY <1>4
<1>. QED  BY <1>3, <1>4, <1>7, <1>8, <1>12, <1>13, <1>14, <1>15, <1>16 DEF Chain, Hears

LEMMA CompleteBook ==
    ASSUME IInv, FailureInv, NEW d \in Dispatcher, NEW l \in Listener, NEW threw \in BOOLEAN,
           Complete(d, l, threw)
    PROVE  FailureInv'
<1>. DEFINE st == IF threw THEN "threw" ELSE "returned"
<1>1. /\ dispatch \in [Dispatcher -> Dispatch] /\ Book(d) /\ Sound(d) /\ SinkBook
      /\ calls[d][l].state = "running" /\ mode' = mode /\ Registered
      /\ calls' = [calls EXCEPT ![d][l].state = st]
  BY Given, SoundAll DEF FailureInv, IInv, Complete
<1>2. PICK r \in Dispatch :
        /\ dispatch' = [dispatch EXCEPT ![d] = r] /\ r.list = dispatch[d].list
        /\ mode = "parallel" => r.outcome = dispatch[d].outcome
  BY Answer
<1>3. /\ dispatch' \in [Dispatcher -> Dispatch] /\ dispatch'[d] = r
      /\ \A e \in Dispatcher : e # d => dispatch'[e] = dispatch[e]
  BY <1>1, <1>2
<1>4. st \in {"returned", "threw"} /\ (st = "threw" <=> threw)
  OBVIOUS
<1>. HIDE DEF st
<1>5. /\ calls'[d][l].state = st
      /\ \A e \in Dispatcher, m \in Listener :
            <<e, m>> # <<d, l>> => calls'[e][m].state = calls[e][m].state
  BY <1>1, <1>4, OneCall
<1>6. SinkBook'
  <2>1. CASE mode = "emit" /\ threw
    BY <1>1, <1>4, <1>5, <2>1, SinkGrows DEF Complete
  <2>2. CASE mode = "emit" /\ ~threw
    <3>1. sink' = sink
      BY <2>2 DEF Complete
    <3>2. \A e \in Dispatcher, m \in Listener :
            calls'[e][m].state = "threw" <=> calls[e][m].state = "threw"
      BY <1>1, <1>4, <1>5, <2>2
    <3>. QED  BY <1>1, <3>1, <3>2, SinkStays
  <2>3. CASE mode # "emit"
    BY <1>1, <2>3 DEF SinkBook
  <2>. QED  BY <2>1, <2>2, <2>3
<1>7. Called(d)' = Called(d)
  BY <1>1, <1>4, <1>5 DEF Called
<1>8. Chain(d)'
  <2>1. CASE mode \in {"serial", "bail"}
    BY <2>1, ChainAnswers
  <2>2. CASE mode \notin {"serial", "bail"}
    BY <1>1, <2>2 DEF Chain
  <2>. QED  BY <2>1, <2>2
<1>9. Ahead(d)'
  <2>1. mode = "emit" => dispatch' = dispatch
    BY DEF Complete
  <2>. QED  BY <1>1, <1>7, <2>1 DEF Book, Ahead
<1>10. Rethrown(d)'
  <2>1. mode = "parallel" => dispatch[d].outcome \notin {"ok", "threw"}
    <3>1. l \in Called(d) /\ l \notin Finished(d)
      BY <1>1 DEF Called, Finished
    <3>2. dispatch[d].phase # "idle"
      BY <1>1, <3>1 DEF Registered
    <3>. QED  BY <1>1, <3>1, <3>2 DEF Sound
  <2>. QED  BY <1>1, <1>2, <1>3, <2>1 DEF Rethrown
<1>11. \A e \in Dispatcher : e # d =>
          /\ SameList(e, dispatch')
          /\ dispatch'[e].phase = dispatch[e].phase /\ dispatch'[e].outcome = dispatch[e].outcome
          /\ dispatch'[e].pos = dispatch[e].pos
          /\ \A m \in Listener : calls'[e][m].state = calls[e][m].state
  BY <1>3, <1>5 DEF SameList
<1>12. Book(d)'
  BY <1>8, <1>9, <1>10 DEF Book
<1>. QED  BY <1>1, <1>3, <1>6, <1>11, <1>12, OwnStep

(* Changing the list leaves every book as it is, and so does a stutter.    *)
LEMMA ListChangeBook ==
    ASSUME IInv, FailureInv, UNCHANGED <<mode, sink>>,
           dispatch' \in [Dispatcher -> Dispatch],
           \A e \in Dispatcher :
              /\ SameList(e, dispatch')
              /\ dispatch'[e].phase = dispatch[e].phase /\ dispatch'[e].outcome = dispatch[e].outcome
              /\ dispatch'[e].pos = dispatch[e].pos
              /\ \A m \in Listener : calls'[e][m].state = calls[e][m].state
    PROVE  FailureInv'
<1>1. SinkBook'
  BY SinkStays DEF FailureInv
<1>2. ASSUME NEW e \in Dispatcher PROVE Book(e)'
  <2>1. Book(e) /\ dispatch[e].list \in Seq(Slot)
    BY Given DEF FailureInv
  <2>2. dispatch'[e].list \in Seq(Slot)
    BY DEF Dispatch
  <2>. QED  BY <2>1, <2>2, BookStays
<1>. QED  BY <1>1, <1>2 DEF FailureInv

LEMMA ReleaseBook == ASSUME IInv, FailureInv, NEW l \in Listener, Release(l) PROVE FailureInv'
<1>1. TypeOK /\ dispatch \in [Dispatcher -> Dispatch] /\ calls \in [Dispatcher -> [Listener -> Call]]
  BY DEF IInv, TypeOK
<1>2. dispatch' = Emptied(dispatch, l) /\ calls' = Moved(calls, l) /\ UNCHANGED <<mode, sink>>
  BY DEF Release
<1>3. \A e \in Dispatcher : SameList(e, dispatch)
  BY DEF SameList
<1>4. /\ dispatch' \in [Dispatcher -> Dispatch]
      /\ \A e \in Dispatcher :
           /\ SameList(e, dispatch')
           /\ dispatch'[e].phase = dispatch[e].phase /\ dispatch'[e].outcome = dispatch[e].outcome
           /\ dispatch'[e].pos = dispatch[e].pos
  BY <1>1, <1>2, <1>3, EmptiedFacts
<1>5. \A e \in Dispatcher, m \in Listener : calls'[e][m].state = calls[e][m].state
  BY <1>1, <1>2, MovedFacts
<1>. QED  BY <1>2, <1>4, <1>5, ListChangeBook

LEMMA SameBook == ASSUME IInv, FailureInv, UNCHANGED <<mode, dispatch, calls, sink>> PROVE FailureInv'
<1>1. dispatch' \in [Dispatcher -> Dispatch]
  BY DEF IInv, TypeOK
<1>2. \A e \in Dispatcher : SameList(e, dispatch')
  BY DEF SameList
<1>. QED  BY <1>1, <1>2, ListChangeBook

----------------------------------------------------------------------------
(* The books are empty before the first dispatch.                          *)
LEMMA InitBook == Init => FailureInv
<1>. SUFFICES ASSUME Init PROVE FailureInv
  OBVIOUS
<1>1. /\ \A d \in Dispatcher : dispatch[d] = NoDispatch
      /\ \A d \in Dispatcher, l \in Listener : calls[d][l] = NoCall
      /\ sink = 0
  BY DEF Init
<1>2. Thrown = {}
  BY <1>1 DEF Thrown, NoCall
<1>3. SinkBook
  BY <1>1, <1>2, FS_EmptySet DEF SinkBook
<1>4. ASSUME NEW d \in Dispatcher PROVE Book(d)
  <2>1. \A l \in Listener : calls[d][l].state = "none"
    BY <1>1 DEF NoCall
  <2>2. /\ dispatch[d].phase = "idle" /\ dispatch[d].outcome = "none" /\ dispatch[d].list = <<>>
    BY <1>1 DEF NoDispatch
  <2>3. Called(d) = {} /\ DOMAIN dispatch[d].list = {}
    BY <2>1, <2>2 DEF Called
  <2>. QED  BY <2>1, <2>2, <2>3 DEF Book, Chain, Ahead, Rethrown
<1>. QED  BY <1>3, <1>4 DEF FailureInv

LEMMA StepKeepsBook == IInv /\ FailureInv /\ [Next]_vars => FailureInv'
<1>. SUFFICES ASSUME IInv, FailureInv, [Next]_vars PROVE FailureInv'
  OBVIOUS
<1>1. CASE UNCHANGED vars
  BY <1>1, SameBook DEF vars
<1>2. ASSUME NEW l \in Listener, Add(l) PROVE FailureInv'
  BY <1>2, SameBook DEF Add
<1>3. ASSUME NEW l \in Listener, Release(l) PROVE FailureInv'
  BY <1>3, ReleaseBook
<1>4. ASSUME NEW d \in Dispatcher,
             \/ Begin(d) \/ Skip(d) \/ Invoke(d) \/ InvokeEmpty(d) \/ Spawn(d)
             \/ LoopEnds(d) \/ CallNext(d) \/ GateOpens(d)
      PROVE  FailureInv'
  BY <1>4, BeginBook, SkipBook, InvokeBook, InvokeEmptyBook, SpawnBook, LoopEndsBook,
     CallNextBook, GateOpensBook
<1>5. ASSUME NEW d \in Dispatcher, NEW l \in Listener, Start(d, l) PROVE FailureInv'
  BY <1>5, StartBook
<1>6. ASSUME NEW d \in Dispatcher, NEW l \in Listener, NEW threw \in BOOLEAN, Complete(d, l, threw)
      PROVE  FailureInv'
  BY <1>6, CompleteBook
<1>. QED  BY <1>1, <1>2, <1>3, <1>4, <1>5, <1>6 DEF Next

(* The books say what becomes of a failure.                                *)
LEMMA BookSays == IInv /\ FailureInv => FailureSemantics
<1>. SUFFICES ASSUME IInv, FailureInv PROVE FailureSemantics
  OBVIOUS
<1>1. mode = "emit" =>
        sink = Cardinality({c \in Dispatcher \X Listener : calls[c[1]][c[2]].state = "threw"})
  BY DEF FailureInv, SinkBook, Thrown
<1>2. ASSUME NEW d \in Dispatcher, mode \in {"serial", "bail"}
      PROVE  LET failed == {l \in Listener : calls[d][l].state = "threw"}
             IN  /\ Cardinality(failed) <= 1
                 /\ dispatch[d].outcome = "threw" <=> failed # {}
                 /\ failed # {} => \A l \in Listener :
                      (\E i \in dispatch[d].pos + 1 .. Len(dispatch[d].list) :
                           dispatch[d].list[i].l = l) => l \notin Called(d)
                 /\ dispatch[d].outcome = "ok" => Finished(d) = Heard(d)
  <2>. DEFINE x == dispatch[d]
              failed == {l \in Listener : calls[d][l].state = "threw"}
              a == x.list[x.pos].l
  <2>1. /\ Chain(d) /\ x.pos \in Nat \ {0} /\ DOMAIN x.list = 1..Len(x.list) /\ Len(x.list) \in Nat
    BY Given DEF FailureInv, Book
  <2>2. failed = {} \/ failed = {a}
    BY <1>2, <2>1 DEF Chain
  <2>3. Cardinality(failed) <= 1
    <3>. HIDE DEF failed, a
    <3>1. Cardinality({}) = 0 /\ Cardinality({a}) = 1
      BY FS_EmptySet, FS_Singleton, Zenon
    <3>. QED  BY <2>2, <3>1
  <2>4. dispatch[d].outcome = "threw" <=> failed # {}
    BY <1>2, <2>1 DEF Chain
  <2>5. ASSUME NEW i \in x.pos + 1 .. Len(x.list) PROVE x.list[i].l \notin Called(d)
    BY <1>2, <2>1 DEF Chain
  <2>6. ASSUME x.outcome = "ok" PROVE Finished(d) = Heard(d)
    <3>1. Finished(d) \subseteq Called(d)
      BY DEF Finished, Called
    <3>2. ASSUME NEW l \in Heard(d) PROVE l \in Finished(d)
      <4>1. PICK i \in DOMAIN x.list : x.list[i].l = l
        BY DEF Heard
      <4>2. i < x.pos /\ Hears(d, l) /\ l \in Listener
        BY <1>2, <2>1, <2>6 DEF Chain, Heard
      <4>. QED  BY <1>2, <2>1, <4>1, <4>2 DEF Chain, Finished
    <3>. QED  BY <1>2, <2>1, <3>1, <3>2 DEF Chain
  <2>. QED  BY <2>3, <2>4, <2>5, <2>6
<1>3. ASSUME NEW d \in Dispatcher PROVE Rethrown(d)
  BY DEF FailureInv, Book
<1>. QED  BY <1>1, <1>2, <1>3 DEF FailureSemantics, Rethrown

(* What becomes of a failure, whatever the listeners and dispatches, and   *)
(* in whatever order they are entered, removed and completed: serial and   *)
(* bail stop at the first that throws and rethrow it, parallel hears all   *)
(* and then rethrows, emit reports each of them, and a dispatch that ends  *)
(* well has run everybody it was owed (dispatch_serial, dispatch_bail,     *)
(* dispatch_parallel, emit).                                               *)
THEOREM FailuresSurface == Spec => []FailureSemantics
<1>1. Init => FailureInv
  BY InitBook
<1>2. IInv /\ FailureInv /\ [Next]_vars => FailureInv'
  BY StepKeepsBook
<1>3. Spec => []IInv
  BY BusInvariance
<1>4. IInv /\ FailureInv => FailureSemantics
  BY BookSays
<1>. QED  BY <1>1, <1>2, <1>3, <1>4, PTL DEF Spec

=============================================================================
