------------------------------ MODULE MCEventBus ------------------------------
(* Small instances of EventBus: three listeners, two dispatches.           *)
EXTENDS EventBus

CONSTANTS a, b, c, d1, d2

Listeners == {a, b, c}
Dispatchers == {d1, d2}
AllModes == {"serial", "bail", "waterfall", "parallel", "emit"}

(* c runs once, b goes to the front, d1 carries a scope that a is deaf to. *)
OnceC == {c}
PrependB == {b}
ScopedD1 == {d1}
DeafA == {<<a, d1>>}
FirstTwo == {a, c}
Nobody == {}
SerialOnly == {"serial"}
=============================================================================
