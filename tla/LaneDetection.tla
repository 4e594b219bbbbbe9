---------------------------- MODULE LaneDetection ----------------------------
(***************************************************************************)
(* CFpu::slidingWindow, drawLines and dangerDetection (src/cfpu.cpp) on    *)
(* one filtered frame.  A window climbs from the bottom of the frame to    *)
(* its top, once for each line of the lane; at each height it takes the    *)
(* mean column of the white pixels in it as a point of the line and        *)
(* centres itself there.  dangerDetection then measures how far the middle *)
(* of the two lowest points is from being in the middle of them.           *)
(*                                                                         *)
(* The picture is not modelled: the mean column may be any column of the   *)
(* window, its middle one if there are no white pixels.  The windows have  *)
(* even sizes, as in the code, so that halves are whole numbers.           *)
(***************************************************************************)
EXTENDS Integers, Sequences

CONSTANTS
  FrameWidth, FrameHeight,     \* 1024, 576
  WindowWidth, WindowHeight,   \* 300, 72
  LeftX, RightX, StartY        \* where the windows start: 0, 724 and 504

HalfWidth  == WindowWidth \div 2
HalfHeight == WindowHeight \div 2

(* The windows start inside the frame and far enough apart for the lines   *)
(* they find to be more than ten columns apart.                            *)
ASSUME LaneDetectionAssumption ==
  /\ FrameWidth \in Nat /\ FrameHeight \in Nat
  /\ HalfWidth \in Nat \ {0} /\ WindowWidth = 2 * HalfWidth
  /\ HalfHeight \in Nat \ {0} /\ WindowHeight = 2 * HalfHeight
  /\ LeftX \in Nat /\ RightX \in Nat /\ StartY \in Nat
  /\ WindowWidth < FrameWidth
  /\ LeftX + WindowWidth + 10 <= RightX
  /\ RightX + WindowWidth <= FrameWidth
  /\ StartY + WindowHeight <= FrameHeight

VARIABLES
  phase,            \* the line being followed, then "danger", then "done"
  window,           \* the upper left corner of the window
  points,           \* the points of that line so far, lowest first
  leftLanePoint, rightLanePoint,   \* the lowest point of each line
  danger            \* has SIG_WARN_SYS been sent?

vars == <<phase, window, points, leftLanePoint, rightLanePoint, danger>>

Point == [x : Nat, y : Nat]
Origin == [x |-> 0, y |-> 0]
StartOf(lane) ==
  [x |-> IF lane = "left" THEN LeftX ELSE RightX, y |-> StartY]

-----------------------------------------------------------------------------
Init ==
  /\ phase = "left"
  /\ window = StartOf("left")
  /\ points = <<>>
  /\ leftLanePoint = Origin /\ rightLanePoint = Origin
  /\ danger = FALSE

(* Mutant of Clamp: only the left border.                                 *)
ClampLeft(x) == IF x < 0 THEN 0 ELSE x

(* The window stays in the frame, one column short of its right border.    *)
Clamp(x) == IF x < 0 THEN 0
            ELSE IF x + WindowWidth >= FrameWidth
                   THEN FrameWidth - WindowWidth - 1
                   ELSE x

Found(x) == [x |-> x, y |-> window.y + HalfHeight]
Following == phase \in {"left", "right"}

(* Mutant of Slide: the window climbs straight up.                         *)
SlideStraight ==
  /\ Following
  /\ window.y >= WindowHeight
  /\ \E avgX \in window.x..window.x + WindowWidth - 1 :
       points' = Append(points, Found(avgX))
  /\ window' = [window EXCEPT !.y = @ - WindowHeight]
  /\ UNCHANGED <<phase, leftLanePoint, rightLanePoint, danger>>

(* An iteration that is not the last one: the point, then the next window. *)
Slide ==
  /\ Following
  /\ window.y >= WindowHeight
  /\ \E avgX \in window.x..window.x + WindowWidth - 1 :
       /\ points' = Append(points, Found(avgX))
       /\ window' = [x |-> Clamp(avgX - HalfWidth), y |-> window.y - WindowHeight]
  /\ UNCHANGED <<phase, leftLanePoint, rightLanePoint, danger>>

(* Mutants of SlideLast: it ends one window too early; it keeps the points *)
(* at the top of the lines instead of those at the bottom.                 *)
SlideLastEarly ==
  /\ Following
  /\ window.y < 2 * WindowHeight
  /\ \E avgX \in window.x..window.x + WindowWidth - 1 :
       points' = Append(points, Found(avgX))
  /\ phase' = "danger"
  /\ UNCHANGED <<window, leftLanePoint, rightLanePoint, danger>>

SlideLastTop ==
  /\ Following
  /\ window.y < WindowHeight
  /\ \E avgX \in window.x..window.x + WindowWidth - 1 :
       IF phase = "left"
         THEN /\ phase' = "right" /\ points' = <<>> /\ window' = StartOf("right")
              /\ leftLanePoint' = Found(avgX)
              /\ UNCHANGED rightLanePoint
         ELSE /\ phase' = "danger" /\ points' = Append(points, Found(avgX))
              /\ rightLanePoint' = Found(avgX)
              /\ UNCHANGED <<window, leftLanePoint>>
  /\ UNCHANGED danger

(* The last iteration, and drawLines goes on to the other line or draws.   *)
SlideLast ==
  /\ Following
  /\ window.y < WindowHeight
  /\ \E avgX \in window.x..window.x + WindowWidth - 1 :
       LET line == Append(points, Found(avgX))
       IN  IF phase = "left"
             THEN /\ phase' = "right"
                  /\ points' = <<>>
                  /\ window' = StartOf("right")
                  /\ leftLanePoint' = line[1]
                  /\ UNCHANGED rightLanePoint
             ELSE /\ phase' = "danger"
                  /\ points' = line
                  /\ rightLanePoint' = line[1]
                  /\ UNCHANGED <<window, leftLanePoint>>
  /\ UNCHANGED danger

(* offset = (leftCenterDistance - rightCenterDistance) / laneWidth * 100;  *)
(* the two points are at the same height, the middle is a whole column.    *)
Distance(a, b) == IF a.x < b.x THEN b.x - a.x ELSE a.x - b.x
(* Mutant of Center: the quotient taken before the sum.                    *)
CenterMisplaced(l, r) == [x |-> l.x + (r.x \div 2), y |-> (l.y + r.y) \div 2]
Center(l, r) == [x |-> (l.x + r.x) \div 2, y |-> (l.y + r.y) \div 2]
Off(l, r) ==
  LET leftCenterDistance  == Distance(Center(l, r), l)
      rightCenterDistance == Distance(r, Center(l, r))
      difference == leftCenterDistance - rightCenterDistance
  IN  /\ Distance(r, l) > 0
      /\ \/ 100 * difference >= 10 * Distance(r, l)
         \/ 100 * difference <= -10 * Distance(r, l)

DangerDetection ==
  /\ phase = "danger"
  /\ phase' = "done"
  /\ danger' = Off(leftLanePoint, rightLanePoint)
  /\ UNCHANGED <<window, points, leftLanePoint, rightLanePoint>>

Next == Slide \/ SlideLast \/ DangerDetection

Spec == Init /\ [][Next]_vars

(* The computation is a loop of one thread, which is scheduled again and   *)
(* again.                                                                  *)
FairSpec == Spec /\ WF_vars(Next)

-----------------------------------------------------------------------------
TypeOK ==
  /\ phase \in {"left", "right", "danger", "done"}
  /\ window \in Point
  /\ points \in Seq(Point)
  /\ leftLanePoint \in Point /\ rightLanePoint \in Point
  /\ danger \in BOOLEAN

(* filteredFrame(window) is inside the frame at each iteration, wherever   *)
(* the line leads: OpenCV throws if it is not.                             *)
WindowInFrame ==
  /\ window.x >= 0 /\ window.x + WindowWidth <= FrameWidth
  /\ window.y >= 0 /\ window.y + WindowHeight <= FrameHeight

(* Away from the borders of the frame, each point is within half a window  *)
(* of the one below: the window follows the line.                          *)
PointsFollowLine ==
  \A i \in 1..Len(points) - 1 :
    LET below == points[i].x
        above == points[i + 1].x
    IN  below >= HalfWidth /\ below + HalfWidth < FrameWidth
          => above >= below - HalfWidth /\ above <= below + HalfWidth

(* The middle of the two points is never further from one of them than     *)
(* from the other by more than the rounding: SIG_WARN_SYS is never sent.   *)
NeverDanger == ~danger

(* Each line is followed up to the top of the frame and the detection      *)
(* comes to an end.                                                        *)
Finishes == <>(phase = "done" /\ points[Len(points)].y < WindowHeight + HalfHeight)

(* drawLines keeps the lowest points "for further departure detection"     *)
(* (cfpu.cpp:158): when the middle of the lane is away from the middle of  *)
(* the frame by 10 per cent of the lane's width or more, danger is raised. *)
Departed ==
  LET width == Distance(rightLanePoint, leftLanePoint)
      shift == 2 * Center(leftLanePoint, rightLanePoint).x - FrameWidth
  IN  100 * shift >= 20 * width \/ 100 * shift <= -20 * width
DepartureDetected == phase = "done" /\ Departed => danger

(***************************************************************************)
(* The inductive invariant from which LaneDetectionProofs proves that no   *)
(* danger is found.                                                        *)
(***************************************************************************)
LowestPointOf(lane, p) ==
  /\ p.x >= StartOf(lane).x /\ p.x < StartOf(lane).x + WindowWidth
  /\ p.y = StartY + HalfHeight

(* The lowest point of each line lies in the window its search began with. *)
LaneInv ==
  /\ TypeOK
  /\ WindowInFrame
  /\ Following =>
       IF points = <<>> THEN window = StartOf(phase)
                        ELSE LowestPointOf(phase, points[1])
  /\ phase # "left" => LowestPointOf("left", leftLanePoint)
  /\ phase \in {"danger", "done"} => LowestPointOf("right", rightLanePoint)
  /\ NeverDanger
=============================================================================
