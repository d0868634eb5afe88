---------------------------- MODULE FramePipeline ----------------------------
(***************************************************************************)
(* What the page-flip loop of kmsroots promises to somebody who watches    *)
(* the screen.  Frames are numbered in the order in which the calls of the *)
(* renderer return.  The screen shows frames it has returned only, in that *)
(* order, none is skipped, and the next call returns only once the frame   *)
(* of the last is on the screen: at most one frame is waiting to be shown. *)
(*                                                                         *)
(* PageFlip implements this specification, whether or not the calls that   *)
(* draw a frame succeed.                                                   *)
(***************************************************************************)
EXTENDS Naturals

CONSTANT LastFrame   \* frame numbers wrap after this one; at least 2

VARIABLES
  drawn,   \* the last frame the renderer returned
  shown    \* the frame on the screen

pipeline == <<drawn, shown>>

Frames == 0 .. LastFrame

NextFrame(f) == IF f = LastFrame THEN 0 ELSE f + 1

Init ==
  /\ drawn = 0
  /\ shown = 0

\* The renderer returns a frame while its predecessor is on the screen.
Draw ==
  /\ shown = drawn
  /\ drawn' = NextFrame(drawn)
  /\ UNCHANGED shown

\* The new frame replaces its predecessor on the screen.
Show ==
  /\ drawn = NextFrame(shown)
  /\ shown' = drawn
  /\ UNCHANGED drawn

Next == Draw \/ Show

Spec == Init /\ [][Next]_pipeline
=============================================================================
