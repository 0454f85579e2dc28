---------------------------------- MODULE Pose ----------------------------------
(***************************************************************************)
(* Angles and poses (src/src/Pose.cpp, Mcl::normalizeAngle).               *)
(*                                                                         *)
(* Angles are integers: Pi units make half a turn.  A direction is what    *)
(* get16bitRepresentation() returns, an angle modulo a turn; the code has  *)
(* 2^16 directions in a turn, the model 2 * Pi, so that no angle of the    *)
(* model lies between two directions and nothing is cut off.  A pose has   *)
(* one coordinate, x, and the heading t: y is treated as x everywhere.     *)
(***************************************************************************)
EXTENDS Integers

CONSTANT Pi     \* M_PI

ASSUME PiAssumption == Pi \in Nat \ {0}

(* The two loops, each run to its end, for an angle counted in units of     *)
(* which pi make half a turn.  Pi and -Pi are both left as they are.        *)
Normalized(t, pi) ==
    IF t > pi THEN pi - ((pi - t) % (2 * pi))
    ELSE IF t < -pi THEN ((t + pi) % (2 * pi)) - pi
    ELSE t

NormalizeAngle(t) == Normalized(t, Pi)

Direction == 0 .. 2 * Pi - 1

Get16bitRepresentation(t) == t % (2 * Pi)

Move(p, length, rotation) ==
    [p EXCEPT !.x = @ + length, !.t = NormalizeAngle(@ + rotation)]

InTurn(t) == -Pi <= t /\ t <= Pi
=============================================================================
