------------------------- MODULE LaneDetectionProofs -------------------------
(***************************************************************************)
(* Proofs about LaneDetection, for frames and windows of any size: the     *)
(* window never leaves the frame, the points it finds follow the line to   *)
(* the top of the frame, and dangerDetection never finds danger.           *)
(***************************************************************************)
EXTENDS LaneDetection, SequenceTheorems, TLAPS

(* What the assumption says of the numbers.                                *)
LEMMA Sizes ==
  /\ FrameWidth \in Nat /\ FrameHeight \in Nat
  /\ HalfWidth \in Nat \ {0} /\ HalfHeight \in Nat \ {0}
  /\ WindowWidth \in Nat \ {0} /\ WindowHeight \in Nat \ {0}
  /\ LeftX \in Nat /\ RightX \in Nat /\ StartY \in Nat
BY LaneDetectionAssumption

(* Clamping brings any column into the frame.                              *)
LEMMA ClampInFrame ==
  ASSUME NEW x \in Int
  PROVE  /\ Clamp(x) \in Int
         /\ Clamp(x) >= 0 /\ Clamp(x) + WindowWidth <= FrameWidth
BY LaneDetectionAssumption, Sizes DEF Clamp

(* Appending does not change the first element of a sequence that has one. *)
LEMMA FirstOfAppend ==
  ASSUME NEW S, NEW seq \in Seq(S), NEW e \in S
  PROVE  /\ Append(seq, e) \in Seq(S)
         /\ Append(seq, e) # <<>>
         /\ Append(seq, e)[1] = IF seq = <<>> THEN e ELSE seq[1]
<1>1. CASE seq = <<>>
  BY <1>1, AppendProperties
<1>2. CASE seq # <<>>
  <2>1. 1 \in 1..Len(seq)
    BY <1>2
  <2> QED BY <1>2, <2>1, AppendProperties
<1> QED BY <1>1, <1>2

(* The windows start inside the frame.                                     *)
LEMMA StartInFrame ==
  ASSUME NEW lane \in {"left", "right"}
  PROVE  /\ StartOf(lane) \in Point
         /\ StartOf(lane).x >= 0 /\ StartOf(lane).x + WindowWidth <= FrameWidth
         /\ StartOf(lane).y >= 0 /\ StartOf(lane).y + WindowHeight <= FrameHeight
BY LaneDetectionAssumption, Sizes DEF StartOf, Point

(* The lowest points of two lines are more than ten columns apart and      *)
(* their middle is the middle but for rounding, so there is no danger.     *)
LEMMA NotOff ==
  ASSUME NEW l \in Point, NEW r \in Point,
         LowestPointOf("left", l), LowestPointOf("right", r)
  PROVE  Off(l, r) = FALSE
<1> DEFINE c == Center(l, r)
<1>1. l.x \in Int /\ r.x \in Int /\ l.x + 10 < r.x
  BY LaneDetectionAssumption, Sizes DEF LowestPointOf, StartOf, Point
<1>2. c.x = (l.x + r.x) \div 2
  BY DEF Center
<1>3. c.x \in Int /\ 2 * c.x <= l.x + r.x /\ l.x + r.x <= 2 * c.x + 1
  BY <1>1, <1>2
<1> HIDE DEF c
<1>4. l.x < c.x /\ c.x < r.x
  BY <1>1, <1>3
<1>5. Distance(c, l) = c.x - l.x /\ Distance(r, c) = r.x - c.x
      /\ Distance(r, l) = r.x - l.x
  BY <1>1, <1>3, <1>4 DEF Distance
<1>6. LET d == (c.x - l.x) - (r.x - c.x)
      IN  ~(100 * d >= 10 * (r.x - l.x)) /\ ~(100 * d <= -10 * (r.x - l.x))
  BY <1>1, <1>3
<1> QED BY <1>5, <1>6 DEF Off, c

-----------------------------------------------------------------------------
LEMMA LaneInit == Init => LaneInv
<1> SUFFICES ASSUME Init PROVE LaneInv
  OBVIOUS
<1>1. TypeOK
  <2>1. Origin \in Point /\ StartOf("left") \in Point
    BY StartInFrame DEF Origin, Point
  <2>2. <<>> \in Seq(Point)
    OBVIOUS
  <2> QED BY <2>1, <2>2 DEF Init, TypeOK
<1>2. WindowInFrame
  BY StartInFrame DEF Init, WindowInFrame
<1> QED BY <1>1, <1>2 DEF Init, LaneInv, NeverDanger

(* Each action keeps the window in the frame and the lowest points where   *)
(* their searches began.                                                   *)
LEMMA LaneNext == LaneInv /\ [Next]_vars => LaneInv'
<1> SUFFICES ASSUME LaneInv, [Next]_vars PROVE LaneInv'
  OBVIOUS
<1>1. /\ window.x \in Nat /\ window.y \in Nat /\ points \in Seq(Point)
      /\ TypeOK
  BY DEF LaneInv, TypeOK, Point
<1>2. ASSUME NEW avgX \in window.x..window.x + WindowWidth - 1, Following
      PROVE  /\ Found(avgX) \in Point
             /\ LowestPointOf(phase, Append(points, Found(avgX))[1])
             /\ Append(points, Found(avgX)) \in Seq(Point)
             /\ Append(points, Found(avgX)) # <<>>
             /\ Append(points, Found(avgX))[1] \in Point
  <2>1. Found(avgX) \in Point
    BY <1>1, Sizes DEF Found, Point
  <2>2. /\ Append(points, Found(avgX)) \in Seq(Point)
        /\ Append(points, Found(avgX)) # <<>>
        /\ Append(points, Found(avgX))[1]
             = IF points = <<>> THEN Found(avgX) ELSE points[1]
    BY <1>1, <2>1, FirstOfAppend
  <2>3. CASE points = <<>>
    <3>1. window = StartOf(phase)
      BY <1>2, <2>3 DEF LaneInv
    <3>2. LowestPointOf(phase, Found(avgX))
      BY <3>1, <1>1, <1>2, Sizes DEF LowestPointOf, Found, StartOf
    <3> QED BY <2>1, <2>3, <2>2, <3>2
  <2>4. CASE points # <<>>
    <3>1. points[1] \in Point
      BY <1>1, <2>4
    <3> QED BY <1>2, <2>1, <2>4, <2>2, <3>1 DEF LaneInv
  <2> QED BY <2>3, <2>4
<1>3. CASE Slide
  <2>1. PICK avgX \in window.x..window.x + WindowWidth - 1 :
          /\ points' = Append(points, Found(avgX))
          /\ window' = [x |-> Clamp(avgX - HalfWidth),
                        y |-> window.y - WindowHeight]
    BY <1>3 DEF Slide
  <2>2. /\ Following /\ window.y >= WindowHeight /\ phase' = phase
        /\ UNCHANGED <<leftLanePoint, rightLanePoint, danger>>
    BY <1>3 DEF Slide
  <2>3. avgX \in Int /\ avgX - HalfWidth \in Int
    BY <1>1, Sizes
  <2> DEFINE x == Clamp(avgX - HalfWidth)
             y == window.y - WindowHeight
  <2>4. x \in Int /\ x >= 0 /\ x + WindowWidth <= FrameWidth
    BY <2>3, ClampInFrame
  <2>5. y \in Int /\ y >= 0 /\ y + WindowHeight <= FrameHeight
    BY <1>1, <2>2, Sizes DEF LaneInv, WindowInFrame
  <2>6. window'.x = x /\ window'.y = y
    BY <2>1
  <2>7. TypeOK'
    <3> HIDE DEF x, y
    <3>1. [x |-> x, y |-> y] \in Point
      BY <2>4, <2>5 DEF Point
    <3>2. window' \in Point
      BY <2>1, <3>1 DEF x, y
    <3>3. points' \in Seq(Point)
      BY <1>2, <2>1, <2>2
    <3> QED BY <1>1, <2>2, <3>2, <3>3 DEF TypeOK
  <2>8. WindowInFrame'
    BY <2>4, <2>5, <2>6 DEF WindowInFrame
  <2>9. points' # <<>> /\ LowestPointOf(phase, points'[1])
    BY <1>2, <2>1, <2>2
  <2> QED BY <2>2, <2>7, <2>8, <2>9
          DEF LaneInv, Following, LowestPointOf, NeverDanger
<1>4. CASE SlideLast
  <2>1. PICK avgX \in window.x..window.x + WindowWidth - 1 :
          LET line == Append(points, Found(avgX))
          IN  IF phase = "left"
                THEN /\ phase' = "right" /\ points' = <<>>
                     /\ window' = StartOf("right")
                     /\ leftLanePoint' = line[1]
                     /\ UNCHANGED rightLanePoint
                ELSE /\ phase' = "danger" /\ points' = line
                     /\ rightLanePoint' = line[1]
                     /\ UNCHANGED <<window, leftLanePoint>>
    BY <1>4 DEF SlideLast
  <2>2. Following /\ danger' = danger
    BY <1>4 DEF SlideLast
  <2>3. CASE phase = "left"
    <3>1. /\ phase' = "right" /\ points' = <<>> /\ window' = StartOf("right")
          /\ LowestPointOf("left", leftLanePoint') /\ leftLanePoint' \in Point
          /\ rightLanePoint' = rightLanePoint
      BY <1>2, <2>1, <2>2, <2>3
    <3>2. TypeOK'
      BY <1>1, <2>2, <3>1, StartInFrame DEF TypeOK
    <3>3. WindowInFrame'
      BY <3>1, StartInFrame DEF WindowInFrame
    <3> QED BY <2>2, <3>1, <3>2, <3>3
            DEF LaneInv, Following, LowestPointOf, NeverDanger
  <2>4. CASE phase = "right"
    <3>1. /\ phase' = "danger" /\ points' \in Seq(Point)
          /\ LowestPointOf("right", rightLanePoint') /\ rightLanePoint' \in Point
          /\ window' = window /\ leftLanePoint' = leftLanePoint
      BY <1>2, <2>1, <2>2, <2>4
    <3>2. TypeOK'
      BY <1>1, <2>2, <3>1 DEF TypeOK
    <3>3. WindowInFrame'
      BY <3>1 DEF LaneInv, WindowInFrame
    <3> QED BY <2>2, <2>4, <3>1, <3>2, <3>3
            DEF LaneInv, Following, LowestPointOf, NeverDanger
  <2> QED BY <2>2, <2>3, <2>4 DEF Following
<1>5. CASE DangerDetection
  <2>1. Off(leftLanePoint, rightLanePoint) = FALSE
    BY <1>1, <1>5, NotOff DEF DangerDetection, LaneInv, TypeOK
  <2>2. danger' = FALSE
    BY <1>5, <2>1 DEF DangerDetection
  <2>3. TypeOK'
    BY <1>1, <1>5, <2>2 DEF DangerDetection, TypeOK
  <2> QED BY <1>5, <2>3, <2>2
          DEF DangerDetection, LaneInv, WindowInFrame, Following,
              LowestPointOf, NeverDanger
<1>6. CASE UNCHANGED vars
  BY <1>1, <1>6 DEF vars, TypeOK, LaneInv, WindowInFrame, Following,
                    LowestPointOf, NeverDanger
<1> QED BY <1>3, <1>4, <1>5, <1>6 DEF Next

-----------------------------------------------------------------------------
(* The lowest points lie where the searches for them began.                *)
THEOREM LaneInvariant == Spec => []LaneInv
BY LaneInit, LaneNext, PTL DEF Spec

(* Each iteration looks at a window inside the frame.                      *)
THEOREM InFrame == Spec => []WindowInFrame
<1>1. LaneInv => WindowInFrame
  BY DEF LaneInv
<1> QED BY <1>1, LaneInvariant, PTL

(* dangerDetection never sends SIG_WARN_SYS, whatever the camera sees.     *)
THEOREM NoDanger == Spec => []NeverDanger
<1>1. LaneInv => NeverDanger
  BY DEF LaneInv
<1> QED BY <1>1, LaneInvariant, PTL

-----------------------------------------------------------------------------
(* A line is climbed one window at a time.                                 *)
OneWindowApart ==
  \A i \in 1..Len(points) - 1 : points[i + 1].y = points[i].y - WindowHeight

(* The last window of a line is the one at the top of the frame.           *)
ReachesTop ==
  phase \in {"danger", "done"} =>
    /\ points # <<>>
    /\ points[Len(points)].y < WindowHeight + HalfHeight

(* The window is centred on the point found last, one window above it, but *)
(* for the borders of the frame.                                           *)
Centred ==
  Following /\ points # <<>> =>
    /\ window.x = Clamp(points[Len(points)].x - HalfWidth)
    /\ window.y = points[Len(points)].y - HalfHeight - WindowHeight

(* The three facts about the points and, for the next one, the window's    *)
(* place: the inductive invariant.                                         *)
FollowInv == PointsFollowLine /\ OneWindowApart /\ ReachesTop /\ Centred

(* Away from the borders clamping does nothing.                            *)
LEMMA ClampInside ==
  ASSUME NEW x \in Nat, x >= HalfWidth, x + HalfWidth < FrameWidth
  PROVE  Clamp(x - HalfWidth) = x - HalfWidth
BY LaneDetectionAssumption, Sizes DEF Clamp

(* PointsFollowLine and OneWindowApart, of any line.                       *)
Climbs(line) ==
  \A i \in 1..Len(line) - 1 :
    /\ line[i].x >= HalfWidth /\ line[i].x + HalfWidth < FrameWidth
         => /\ line[i + 1].x >= line[i].x - HalfWidth
            /\ line[i + 1].x <= line[i].x + HalfWidth
    /\ line[i + 1].y = line[i].y - WindowHeight

(* A point found in a window that is centred on the highest point of the   *)
(* line continues the line.                                                *)
LEMMA PointContinues ==
  ASSUME LaneInv, FollowInv, Following,
         NEW avgX \in window.x..window.x + WindowWidth - 1,
         NEW line, line = Append(points, Found(avgX))
  PROVE  Climbs(line) /\ line # <<>> /\ line[Len(line)] = Found(avgX)
<1>1. /\ window.x \in Nat /\ window.y \in Nat /\ points \in Seq(Point)
      /\ avgX \in Nat
  BY Sizes DEF LaneInv, TypeOK, Point
<1>2. Found(avgX) \in Point
  BY <1>1, Sizes DEF Found, Point
<1>3. /\ Len(points) \in Nat
      /\ Len(line) = Len(points) + 1 /\ line[Len(line)] = Found(avgX)
      /\ \A i \in 1..Len(points) : line[i] = points[i]
  BY <1>1, <1>2, AppendProperties
<1>4. line # <<>>
  BY <1>1, <1>2, FirstOfAppend
<1>5. ASSUME NEW i \in 1..Len(line) - 1
      PROVE  /\ line[i].x >= HalfWidth /\ line[i].x + HalfWidth < FrameWidth
                  => /\ line[i + 1].x >= line[i].x - HalfWidth
                     /\ line[i + 1].x <= line[i].x + HalfWidth
             /\ line[i + 1].y = line[i].y - WindowHeight
  <2>1. CASE i < Len(points)
    <3>1. /\ i \in 1..Len(points) - 1
          /\ line[i] = points[i] /\ line[i + 1] = points[i + 1]
      BY <1>3, <2>1
    <3> QED BY <3>1 DEF FollowInv, PointsFollowLine, OneWindowApart
  <2>2. CASE i = Len(points)
    <3>1. points # <<>> /\ i \in 1..Len(points) /\ points[i] \in Point
      BY <1>1, <1>3, <2>2
    <3>2. line[i] = points[i] /\ line[i + 1] = Found(avgX)
      BY <1>3, <2>2, <3>1
    <3>3. /\ window.x = Clamp(points[i].x - HalfWidth)
          /\ window.y = points[i].y - HalfHeight - WindowHeight
      BY <2>2, <3>1 DEF FollowInv, Centred
    <3>4. points[i].x \in Nat /\ points[i].y \in Nat
      BY <3>1 DEF Point
    <3>5. line[i + 1].x = avgX /\ line[i + 1].y = window.y + HalfHeight
      BY <3>2 DEF Found
    <3>6. line[i + 1].y = line[i].y - WindowHeight
      BY <3>2, <3>3, <3>4, <3>5, Sizes
    <3>7. ASSUME line[i].x >= HalfWidth, line[i].x + HalfWidth < FrameWidth
          PROVE  /\ line[i + 1].x >= line[i].x - HalfWidth
                 /\ line[i + 1].x <= line[i].x + HalfWidth
      <4>1. window.x = points[i].x - HalfWidth
        BY <3>2, <3>3, <3>4, <3>7, ClampInside
      <4>2. WindowWidth = 2 * HalfWidth /\ HalfWidth \in Nat
        BY LaneDetectionAssumption
      <4> QED BY <1>1, <3>2, <3>4, <3>5, <4>1, <4>2
    <3> QED BY <3>6, <3>7
  <2> QED BY <1>3, <2>1, <2>2
<1> QED BY <1>3, <1>4, <1>5 DEF Climbs

(* Slide centres the window on the point it has found; SlideLast begins    *)
(* another line or ends this one at the top.                               *)
LEMMA FollowNext == LaneInv /\ FollowInv /\ [Next]_vars => FollowInv'
<1> SUFFICES ASSUME LaneInv, FollowInv, [Next]_vars PROVE FollowInv'
  OBVIOUS
<1>1. CASE Slide
  <2>1. PICK avgX \in window.x..window.x + WindowWidth - 1 :
          /\ points' = Append(points, Found(avgX))
          /\ window' = [x |-> Clamp(avgX - HalfWidth),
                        y |-> window.y - WindowHeight]
    BY <1>1 DEF Slide
  <2>2. Following /\ phase' = phase
    BY <1>1 DEF Slide
  <2>3. Climbs(points') /\ points' # <<>> /\ points'[Len(points')] = Found(avgX)
    BY <2>1, <2>2, PointContinues
  <2>4. PointsFollowLine' /\ OneWindowApart'
    BY <2>3 DEF Climbs, PointsFollowLine, OneWindowApart
  <2>5. ReachesTop'
    BY <2>2 DEF ReachesTop, Following
  <2>6. Centred'
    <3>1. window.x \in Nat /\ window.y \in Nat
      BY DEF LaneInv, TypeOK, Point
    <3>2. points'[Len(points')].x = avgX
          /\ points'[Len(points')].y = window.y + HalfHeight
      BY <2>3 DEF Found
    <3>3. window'.x = Clamp(avgX - HalfWidth) /\ window'.y = window.y - WindowHeight
      BY <2>1
    <3> QED BY <3>1, <3>2, <3>3, Sizes DEF Centred
  <2> QED BY <2>4, <2>5, <2>6 DEF FollowInv
<1>2. CASE SlideLast
  <2>1. PICK avgX \in window.x..window.x + WindowWidth - 1 :
          LET line == Append(points, Found(avgX))
          IN  IF phase = "left"
                THEN phase' = "right" /\ points' = <<>>
                ELSE phase' = "danger" /\ points' = line
    BY <1>2 DEF SlideLast
  <2>2. Following /\ window.y < WindowHeight
    BY <1>2 DEF SlideLast
  <2>3. CASE phase = "left"
    <3>1. phase' = "right" /\ points' = <<>>
      BY <2>1, <2>3
    <3>2. Len(points') = 0
      BY <3>1
    <3> QED BY <3>1, <3>2 DEF FollowInv, PointsFollowLine, OneWindowApart,
                              ReachesTop, Centred
  <2>4. CASE phase = "right"
    <3>1. phase' = "danger" /\ points' = Append(points, Found(avgX))
      BY <2>1, <2>4
    <3>2. Climbs(points') /\ points' # <<>> /\ points'[Len(points')] = Found(avgX)
      BY <2>2, <3>1, PointContinues
    <3>3. PointsFollowLine' /\ OneWindowApart'
      BY <3>2 DEF Climbs, PointsFollowLine, OneWindowApart
    <3>4. window.y \in Nat
      BY DEF LaneInv, TypeOK, Point
    <3>5. points'[Len(points')].y < WindowHeight + HalfHeight
      BY <2>2, <3>2, <3>4, Sizes DEF Found
    <3>6. ReachesTop' /\ Centred'
      BY <3>1, <3>2, <3>5 DEF ReachesTop, Centred, Following
    <3> QED BY <3>3, <3>6 DEF FollowInv
  <2> QED BY <2>2, <2>3, <2>4 DEF Following
<1>3. CASE DangerDetection
  BY <1>3 DEF DangerDetection, FollowInv, PointsFollowLine, OneWindowApart,
              ReachesTop, Centred, Following
<1>4. CASE UNCHANGED vars
  BY <1>4 DEF vars, FollowInv, PointsFollowLine, OneWindowApart,
              ReachesTop, Centred, Following
<1> QED BY <1>1, <1>2, <1>3, <1>4 DEF Next

(* Whatever the camera sees, the points of a line are one window's height  *)
(* apart, up to the top of the frame, and away from its borders each is    *)
(* within half a window of the one below.                                  *)
THEOREM FollowsLine ==
  Spec => [](PointsFollowLine /\ OneWindowApart /\ ReachesTop)
<1>1. Init => FollowInv
  <2> SUFFICES ASSUME Init PROVE FollowInv
    OBVIOUS
  <2>1. phase = "left" /\ points = <<>> /\ Len(points) = 0
    BY DEF Init
  <2> QED BY <2>1 DEF FollowInv, PointsFollowLine, OneWindowApart, ReachesTop,
                      Centred
<1>2. LaneInv /\ FollowInv /\ [Next]_vars => FollowInv'
  BY FollowNext
<1>3. FollowInv => PointsFollowLine /\ OneWindowApart /\ ReachesTop
  BY DEF FollowInv
<1> QED BY <1>1, <1>2, <1>3, LaneInvariant, PTL DEF Spec
=============================================================================
