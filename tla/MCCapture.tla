------------------------------ MODULE MCCapture ------------------------------
(* TLC: a capture's frames, or the arithmetic of its picture; `subject` says  *)
(* which of the two a behaviour is about.                                     *)
EXTENDS FrameCapture, ScreenGeometry

VARIABLE subject

MCScales == {[num |-> 1, den |-> 1], [num |-> 3, den |-> 2], [num |-> 2, den |-> 1]}

MCInit == Init /\ GeometryInit /\ subject \in {"frames", "picture"}

FrameStep   == subject = "frames" /\ Next /\ UNCHANGED <<result, subject>>
CaptureStep == subject = "frames" /\ Capture /\ UNCHANGED <<result, subject>>
PictureStep == subject = "picture" /\ GeometryNext /\ UNCHANGED <<vars, subject>>

MCSpec ==
    /\ MCInit /\ [][FrameStep \/ PictureStep]_<<vars, result, subject>>
    /\ WF_<<vars, result, subject>>(CaptureStep)
==============================================================================
