------------------------------ MODULE Perception ------------------------------
(***************************************************************************)
(* The perception gate (perception/gate.py) and the composition of an      *)
(* accepted correction with a part's nominal pose (perception/correction.py*)
(* and geometry/transforms.py).                                            *)
(***************************************************************************)
EXTENDS Recipe

CONSTANTS
    Corrections,    \* correction messages that may reach the job
    NoCorrection,   \* a job that is given no message
    Threshold       \* confidence threshold, in per cent

(* A message: the part id it names (perhaps none of the recipe's), its       *)
(* confidence in per cent, the translation, and the rotation about z given   *)
(* in quarter turns (a multiple of 90 degrees: see Geometry).                *)
CorrectionType ==
    [part : STRING, confidence : Int, delta : Vec, turns : -2 .. 2]

ASSUME CorrectionsAssumption ==
    /\ Corrections \subseteq CorrectionType
    /\ NoCorrection \notin Corrections
    /\ Constraints \in [translation : Nat, rotation : Nat]
    /\ Threshold \in 0 .. 100

Square(n) == n * n
NormSquared(v) == Square(v.x) + Square(v.y) + Square(v.z)
Degrees(turns) == 90 * turns
Magnitude(n) == IF n < 0 THEN -n ELSE n

LowConfidence(c) == c.confidence < Threshold
TranslationPerAxis(c) ==
    \E axis \in {"x", "y", "z"} : Magnitude(c.delta[axis]) > Constraints.translation
TranslationOutOfBounds(c) == NormSquared(c.delta) > Square(Constraints.translation)
RotationOutOfBounds(c) == Magnitude(Degrees(c.turns)) > Constraints.rotation

(* evaluate: all three must pass, or the correction is rejected whole.      *)
AcceptedTranslationOnly(c) == ~ (LowConfidence(c) \/ TranslationOutOfBounds(c))
Accepted(c) == ~ (LowConfidence(c) \/ TranslationOutOfBounds(c) \/ RotationOutOfBounds(c))

(* corrected_pose_from_nominal *)
CorrectedPose(nominal, c) ==
    Composed(nominal, c.delta, c.turns % 4)
===============================================================================
