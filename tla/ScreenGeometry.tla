--------------------------- MODULE ScreenGeometry ---------------------------
(* The arithmetic between a screen, its stream and its pictures: which stream *)
(* of the session is a screen's (match_stream_to_screen), what part of a      *)
(* frame a region of the screen is (crop_logical_region), and what becomes of *)
(* it in the answer (compute_target_dims).  Floating-point products are taken *)
(* to be exact but for the side a tie rounds to.                              *)
EXTENDS Integers, Sequences

CONSTANTS
    Places,     \* where screens and streams begin
    Sizes,      \* widths and heights
    Scales,     \* screen scales, as fractions [num, den]
    MaxStreams, \* bound: streams of a session
    Pixels,     \* widths and heights of frames
    LongEdge,   \* MAX_LONG_EDGE
    Area        \* MAX_PIXELS

ASSUME GeometryAssumption ==
    /\ Sizes \subseteq Nat \ {0} /\ Pixels \subseteq Nat \ {0}
    /\ Scales \subseteq [num : Nat \ {0}, den : Nat \ {0}]
    /\ MaxStreams \in Nat /\ LongEdge \in Nat \ {0} /\ Area \in Nat /\ LongEdge <= Area

VARIABLE result     \* of the request that was answered last

\* Screens are KWin's, in logical pixels, Shapes what the portal says of its
\* streams: logical or physical pixels, whichever it likes.
Screens == [at : Places, w : Sizes, h : Sizes, scale : Scales]
Shapes == [at : Places, w : Pixels, h : Pixels]

Idle == [op |-> "none"]

Larger(a, b)  == IF a < b THEN b ELSE a
Smaller(a, b) == IF a < b THEN a ELSE b
Apart(a, b)   == Larger(a, b) - Smaller(a, b)

\* f64::round of num/den, both neighbours at a tie; and of its square root.
Nearest(num, den) ==
    {n \in {num \div den, (num \div den) + 1} : 2 * Apart(n * den, num) <= den}
Root(num, den) ==
    {n \in 1 .. num : /\ (2 * n - 1) * (2 * n - 1) * den <= 4 * num
                      /\ 4 * num <= (2 * n + 1) * (2 * n + 1) * den}

Physical(length, scale) == Nearest(length * scale.num, scale.den)

-----------------------------------------------------------------------------
(* match_stream_to_screen *)

\* Slip: each side may match in a space of its own.
HasASideEach(stream, scr, pw, ph) ==
    stream.at = scr.at /\ stream.w \in {scr.w, pw} /\ stream.h \in {scr.h, ph}

\* Both sides match in logical or both in physical pixels.
HasSize(stream, scr, pw, ph) ==
    /\ stream.at = scr.at
    /\ <<stream.w, stream.h>> \in {<<scr.w, scr.h>>, <<pw, ph>>}

Earliest(S) == CHOOSE i \in S : \A j \in S : i <= j

Chosen(streams, scr, pw, ph) ==
    LET exact    == {i \in DOMAIN streams : HasSize(streams[i], scr, pw, ph)}
        fallback == {i \in DOMAIN streams : streams[i].at = scr.at}
    IN  IF exact # {} THEN {streams[Earliest(exact)]}
        ELSE IF fallback # {} THEN {streams[Earliest(fallback)]}
        ELSE {}                                 \* not_shared

Aim(scr, streams) ==
    \E pw \in Physical(scr.w, scr.scale), ph \in Physical(scr.h, scr.scale) :
        result' = [op |-> "aim", screen |-> scr, streams |-> streams, pw |-> pw, ph |-> ph,
                   stream |-> Chosen(streams, scr, pw, ph)]

-----------------------------------------------------------------------------
(* crop_logical_region along one axis: the region starts at `at` and has      *)
(* `length` of the screen's `logical` pixels, the frame has `frame` pixels.   *)

\* Slip: the crop is taken as it is rounded.
Unclamped(frame, start, size) == size

Clamped(frame, start, size) == Larger(1, Smaller(size, Larger(0, frame - start)))

Crops(frame, logical, at, length) ==
    {[start |-> start, size |-> Clamped(frame, start, Larger(1, size))] :
        start \in Nearest(at * frame, logical), size \in Nearest(length * frame, logical)}

(* compute_target_dims *)
Targets(pw, ph) ==
    LET m == Larger(pw, ph)
        overLong == m > LongEdge
        overArea == pw * ph > Area
        longWins == LongEdge * LongEdge * pw * ph <= Area * m * m
    IN  IF ~overLong /\ ~overArea THEN {<<pw, ph>>}
        ELSE IF longWins
        THEN {<<Larger(1, tw), Larger(1, th)>> : tw \in Nearest(pw * LongEdge, m), th \in Nearest(ph * LongEdge, m)}
        ELSE Root(Area * pw, ph) \X Root(Area * ph, pw)

Zoom(frame, scr, at, length, height) ==
    /\ at + length <= scr.w /\ height <= scr.h
    /\ \E c \in Crops(frame, scr.w, at, length),
          pw \in Physical(length, scr.scale), ph \in Physical(height, scr.scale) :
       \E t \in Targets(Larger(1, pw), Larger(1, ph)) :
        result' = [op |-> "zoom", frame |-> frame, logical |-> scr.w, at |-> at, length |-> length,
                   crop |-> c, pw |-> Larger(1, pw), ph |-> Larger(1, ph), target |-> t]

Fetched == result # Idle /\ result' = Idle

GeometryNext ==
    \/ /\ result = Idle
       /\ \E scr \in Screens :
          \/ \E n \in 0 .. MaxStreams : \E streams \in [1 .. n -> Shapes] : Aim(scr, streams)
          \/ \E f \in Pixels, at \in 0 .. scr.w - 1, length \in 1 .. scr.w, h \in 1 .. scr.h :
                Zoom(f, scr, at, length, h)
    \/ Fetched

GeometryInit == result = Idle

GeometrySpec == GeometryInit /\ [][GeometryNext]_result

-----------------------------------------------------------------------------
(* A screen is given a stream that begins where it does; and if one of those  *)
(* has the screen's size, then one that is not skewed, whose sides are in the *)
(* proportion of the screen's but for the rounding of physical pixels: the    *)
(* pointer lands where it was sent (local_stream_point).                      *)
PointerUnskewed == result.op = "aim" =>
    LET scr == result.screen
        here == {i \in DOMAIN result.streams : result.streams[i].at = scr.at}
        fitting == {i \in here : HasSize(result.streams[i], scr, result.pw, result.ph)}
    IN  /\ result.stream = {} <=> here = {}
        /\ \A st \in result.stream :
            /\ st.at = scr.at
            /\ fitting # {} => 2 * Apart(st.w * scr.h, st.h * scr.w) <= scr.w + scr.h

CropCovers(frame, logical, at, length, crop) ==
    LET end == crop.start + crop.size
    IN  /\ end <= frame /\ crop.size >= 1
        /\ 2 * Apart(crop.start * logical, at * frame) <= logical
        /\ Apart(end * logical, (at + length) * frame) <= logical

PictureFits(pw, ph, tw, th) ==
    /\ tw <= pw /\ th <= ph
    /\ tw <= LongEdge /\ th <= LongEdge
    /\ (2 * tw - 1) * (2 * th - 1) <= 4 * Area
    /\ tw > 1 /\ th > 1 => 2 * Apart(tw * ph, th * pw) <= pw + ph
    /\ \/ tw = pw /\ th = ph
       \/ Larger(tw, th) = LongEdge
       \/ (2 * tw + 1) * (2 * th + 1) >= 4 * Area

(* A zoom shows the region that was asked for, on a frame of more than half   *)
(* the screen's logical size: the crop lies in the frame although both of its *)
(* edges round, the first to within half a pixel of the region's, the last to *)
(* within one.  The answer has its proportions, is never enlarged, keeps to   *)
(* the limits but for rounding, and is no smaller than they ask for.          *)
ZoomShowsRegion == result.op = "zoom" /\ 2 * result.frame > result.logical =>
    /\ CropCovers(result.frame, result.logical, result.at, result.length, result.crop)
    /\ PictureFits(result.pw, result.ph, result.target[1], result.target[2])
=============================================================================
