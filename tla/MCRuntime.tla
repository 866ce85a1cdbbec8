----------------------------- MODULE MCRuntime -----------------------------
(* Small systems of components for TLC.                                    *)
EXTENDS Runtime

NoneOf(S) == [c \in S |-> {}]
Childless(S) == [c \in S |-> "none"]
Sound(S) == [c \in S |-> "instance"]

(* A diamond: store provides 1, index needs 1 and provides 2, app needs    *)
(* both, so app hangs off two providers of which one hangs off the other.  *)
DiamondComp == {"store", "index", "app"}
DiamondInject == [NoneOf(DiamondComp) EXCEPT !["index"] = {1}, !["app"] = {1, 2}]
DiamondProvides == [NoneOf(DiamondComp) EXCEPT !["store"] = {1}, !["index"] = {2}]
DiamondChild == Childless(DiamondComp)
DiamondFactory == Sound(DiamondComp)

(* The diamond with app's dependencies optional.                           *)
OptionalRequired == [DiamondInject EXCEPT !["app"] = {}]

(* An optional dependency in the middle: hub provides 1 and would like 2,  *)
(* leaf needs 1, extra provides 2.                                         *)
HubComp == {"hub", "leaf", "extra"}
HubInject == [NoneOf(HubComp) EXCEPT !["hub"] = {2}, !["leaf"] = {1}]
HubRequired == [HubInject EXCEPT !["hub"] = {}]
HubProvides == [NoneOf(HubComp) EXCEPT !["hub"] = {1}, !["extra"] = {2}]
HubChild == Childless(HubComp)
HubFactory == Sound(HubComp)

(* One provider of two keys, a consumer of both and a consumer of one.     *)
TwinComp == {"store", "both", "one"}
TwinInject == [NoneOf(TwinComp) EXCEPT !["both"] = {1, 2}, !["one"] = {1}]
TwinProvides == [NoneOf(TwinComp) EXCEPT !["store"] = {1, 2}]
TwinChild == Childless(TwinComp)
TwinFactory == Sound(TwinComp)

(* A family on the diamond: index also mounts a child, worker, which needs *)
(* what store provides, too.                                               *)
FamilyComp == DiamondComp \cup {"worker"}
FamilyRoots == DiamondComp
FamilyInject == [c \in FamilyComp |-> IF c = "worker" THEN {1} ELSE DiamondInject[c]]
FamilyProvides == [c \in FamilyComp |-> IF c = "worker" THEN {3} ELSE DiamondProvides[c]]
FamilyChild == [Childless(FamilyComp) EXCEPT !["index"] = "worker"]
FamilyFactory == Sound(FamilyComp)

(* Everything that can go wrong at once: store's check may say no, it may   *)
(* raise, be cancelled and release its provision early; hub would like 1,   *)
(* provides 2 and mounts worker, which needs 2, also from a listener; one   *)
(* factory returns null, one throws.                                        *)
FaultComp == {"store", "hub", "worker", "hollow", "broken"}
FaultRoots == FaultComp \ {"worker"}
FaultInject == [store |-> {}, hub |-> {1}, worker |-> {2}, hollow |-> {1}, broken |-> {2}]
FaultRequired == [FaultInject EXCEPT !["hub"] = {}]
FaultProvides == [NoneOf(FaultComp) EXCEPT !["store"] = {1}, !["hub"] = {2}]
FaultChild == [Childless(FaultComp) EXCEPT !["hub"] = "worker"]
FaultFactory == [Sound(FaultComp) EXCEPT !["hollow"] = "null", !["broken"] = "throws"]
=============================================================================
