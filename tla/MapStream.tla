----------------------------- MODULE MapStream -----------------------------
(***************************************************************************)
(* The map of a robot, from the frames of the biz stream to points on the  *)
(* rendered image and back (api/map_stream.py, coordinator.py).            *)
(*                                                                         *)
(* The floor is a plane of cells, Res centimetres wide.  A frame carries   *)
(* the pixels of a grid, a rectangle of cells; a backup carries as well    *)
(* the room outline, on a rectangle of its own, and the restricted zones.  *)
(* Pixels and outline are bytes, compressed or not, and may arrive cut.    *)
(* Pixel <<i, j>> of a grid is the cell i to the right of and j above the  *)
(* grid's corner; the image shows the top row first and is not scaled.     *)
(***************************************************************************)
EXTENDS Integers, Sequences, FiniteSets, SequencesExt, FiniteSetsExt

CONSTANTS
  Absent,
  Floors,     \* the maps of the robot: for each cell a room, or 0
  Grids,      \* rectangles of a map, [x, y, w, h] in cells
  Outlines,   \* rectangles of a room outline
  Zones,      \* what the restricted zones of a map may be
  Pictures,   \* pixels of a frame: byte strings
  Res,        \* centimetres per cell
  LenMax, ExtMax, MinMatch,  \* of the compression: 15, 255 and 4
  MaxCuts     \* bound of the model: the parts of frames that arrive cut

ASSUME SizesArePositive ==
  /\ Res \in Nat \ {0}
  /\ MaxCuts \in Nat
  /\ LenMax \in Nat \ {0} /\ ExtMax \in Nat \ {0} /\ MinMatch \in Nat \ {0}
ASSUME RectsAreOfCells ==
  Grids \cup Outlines \subseteq [x : Int, y : Int, w : Nat \ {0}, h : Nat \ {0}]
ASSUME FloorsAreOfCells ==
  \A f \in Floors :
    DOMAIN f \subseteq Int \X Int /\ \A c \in DOMAIN f : f[c] \in 0..ExtMax
ASSUME PicturesAreBytes == Pictures \subseteq Seq(0..ExtMax) \ {<<>>}

VARIABLES
  floor,       \* where the robot is: one of Floors, and the zones on it
  mapData,     \* coordinator._map_data; Absent
  robotPixel,  \* coordinator._robot_pixel; Absent
  last,        \* history: the pixels of the picture shown as they were sent; Absent
  outlined,    \* history: the outline shown as it was sent; Absent
  pose,        \* history: the cell of the robot pixel, grid and rooms then; Absent
  cuts         \* the parts that arrived cut

mapVars == <<floor, mapData, robotPixel, last, outlined, pose, cuts>>

\* Python's round(n / d): to the nearest integer, a half to the even one.
Round(n, d) ==
  LET q == n \div d
      r == 2 * (n % d)
  IN  IF r < d \/ (r = d /\ q % 2 = 0) THEN q ELSE q + 1

-----------------------------------------------------------------------------
(***************************************************************************)
(* LZ4 blocks.                                                             *)
(***************************************************************************)
ByteSize == ExtMax + 1

Extra(k) == IF k < LenMax THEN <<>>
            ELSE [i \in 1..((k - LenMax) \div ExtMax) |-> ExtMax] \o <<(k - LenMax) % ExtMax>>

Token(l, m) == Min({l, LenMax}) * (LenMax + 1) + Min({m, LenMax})

Literals(s, m) == <<Token(Len(s), m)>> \o Extra(Len(s)) \o s

Match(offset, m) == <<offset % ByteSize, offset \div ByteSize>> \o Extra(m)

Repeats(text, j, o, m) == \A k \in j..(j + m - 1) : text[k] = text[k - o]

\* What an encoder may copy from i on: where it starts, how far back, how much.
Copies(text, i) ==
  {c \in (i..Len(text)) \X (1..Len(text)) \X (MinMatch..Len(text)) :
     c[2] < c[1] /\ c[1] + c[3] <= Len(text) /\ Repeats(text, c[1], c[2], c[3])}

Encoded(text, i, c, rest) ==
  Literals(SubSeq(text, i, c[1] - 1), c[3] - MinMatch) \o Match(c[2], c[3] - MinMatch) \o rest

\* Every block that stands for the text: an encoder copies what it likes.
Encodings(text) ==
  LET from[i \in 1..Len(text)] ==
        {Literals(SubSeq(text, i, Len(text)), 0)} \cup
        UNION {{Encoded(text, i, c, rest) : rest \in from[c[1] + c[3]]} : c \in Copies(text, i)}
  IN  from[1]

\* A length at pos whose half byte is given, and where it ends.
ReadLength(data, pos, half) ==
  IF half < LenMax \/ pos > Len(data) THEN <<half, pos>>
  ELSE LET end == Min({k \in pos..Len(data) : data[k] # ExtMax} \cup {Len(data)})
       IN  <<LenMax + (end - pos) * ExtMax + data[end], end + 1>>

\* Fault: the copy is cut from what there is before it starts.
CopyAtOnce(out, offset, m) ==
  IF offset > Len(out) THEN out
  ELSE out \o SubSeq(out, Len(out) - offset + 1, Min({Len(out), Len(out) - offset + m}))

\* Byte by byte: the copy may read what it has just written.  A negative index
\* counts from the end, as it does in Python.
Copy(out, offset, m) ==
  LET Source(o) ==
        o[IF offset <= Len(o) THEN Len(o) - offset + 1 ELSE 2 * Len(o) - offset + 1]
      upTo[k \in 0..m] ==
        IF k = 0 THEN out ELSE Append(upTo[k - 1], Source(upTo[k - 1]))
  IN  upTo[m]

\* data[pos: pos + n], which ends with the data.
Slice(data, pos, n) == SubSeq(data, pos, Min({Len(data), pos + n - 1}))

\* An IndexError: there is nothing after it.
Broken(data) == [pos |-> Len(data) + 1, out |-> <<>>, ok |-> FALSE]

\* One sequence of a block: literals, then a match unless the block ends.  It
\* fails where the offset is cut or points before the output.
Sequence(data, s) ==
  LET token == data[s.pos]
      lit == ReadLength(data, s.pos + 1, token \div (LenMax + 1))
      out == s.out \o Slice(data, lit[2], lit[1])
      at == lit[2] + lit[1]
      offset == data[at] + data[at + 1] * ByteSize
      match == ReadLength(data, at + 2, token % (LenMax + 1))
  IN  IF at > Len(data) THEN [pos |-> at, out |-> out, ok |-> TRUE]
      ELSE IF at = Len(data) \/ offset \notin 1..(2 * Len(out)) THEN Broken(data)
      ELSE [pos |-> match[2], out |-> Copy(out, offset, match[1] + MinMatch), ok |-> TRUE]

\* _lz4_block_decompress; every sequence takes a byte or more.  The size of the
\* text is not looked at, so a block that is cut may give a short one.
Decompress(data) ==
  LET after[n \in 0..Len(data)] ==
        IF n = 0 THEN [pos |-> 1, out |-> <<>>, ok |-> TRUE]
        ELSE LET s == after[n - 1] IN IF s.pos > Len(data) THEN s ELSE Sequence(data, s)
      end == after[Len(data)]
  IN  IF end.ok THEN end.out ELSE Absent

\* Bytes as many as the text has are taken for the text itself.
Unpack(bytes, size) == IF Len(bytes) # size THEN Decompress(bytes) ELSE bytes

-----------------------------------------------------------------------------
(***************************************************************************)
(* Frames.  "zones" stands for all that comes with an outline: the         *)
(* restricted zones and the names of the rooms.                            *)
(***************************************************************************)
Cells(r) == (0..(r.w - 1)) \X (0..(r.h - 1))

RoomOn(fl, x, y) == IF <<x, y>> \in DOMAIN fl.rooms THEN fl.rooms[<<x, y>>] ELSE 0

\* The outline of a rectangle: the room of each cell, row by row.
OutlineText(fl, r) ==
  [k \in 1..(r.w * r.h) |-> RoomOn(fl, r.x + ((k - 1) % r.w), r.y + ((k - 1) \div r.w))]

FloorStates == [rooms : Floors, zones : Zones]
OutlineRecords == [rect : Outlines, rooms : Seq(Nat)]
MapRecords ==
  [grid : Grids, raw : Seq(Nat), outline : OutlineRecords \cup {Absent},
   zones : Zones \cup {{}}]

ASSUME AbsentIsNoRecord ==
  Absent \notin Outlines \cup Seq(Nat) \cup OutlineRecords \cup MapRecords

\* What comes of a text that was sent as a block, or as it is, and of which bytes
\* arrive.  It is sure what they stand for unless their number makes one pass
\* for the other.
Arrival(text, block, bytes) ==
  [data |-> Unpack(bytes, Len(text)), empty |-> bytes = <<>>, whole |-> bytes = block,
   sure |-> IF Len(bytes) = Len(text) THEN bytes = text ELSE block # text]

Arrivals ==
  [text \in Pictures \cup {OutlineText(fl, r) : fl \in FloorStates, r \in Outlines} |->
     UNION {{Arrival(text, block, bytes) : bytes \in Prefixes(block)} :
              block \in Encodings(text) \cup {text}}]

NoRooms == [data |-> <<>>, empty |-> TRUE, whole |-> TRUE, sure |-> TRUE]

\* try_extract_map_data: an outline that cannot be decoded takes the zones with
\* it, one that is short is as good as any, and without pixels there is no map.
OutlineIn(f) ==
  IF f.rooms.empty \/ f.rooms.data = Absent THEN Absent
  ELSE [rect |-> f.rect, rooms |-> f.rooms.data]

Extract(f) ==
  IF f.pixels.empty \/ f.pixels.data = Absent THEN Absent
  ELSE [grid |-> f.grid, raw |-> f.pixels.data, outline |-> OutlineIn(f),
        zones |-> IF f.rooms.data = Absent THEN {} ELSE f.zones]

\* What comes without an outline keeps the outline, names and zones there were.
KeepOutline(old, new) ==
  IF old # Absent /\ new.outline = Absent
  THEN [new EXCEPT !.outline = old.outline, !.zones = old.zones]
  ELSE new

\* Where the room of pixel <<px, py>> of the map stands in the room mask; 0 beside
\* the mask.
MaskIndex(m, px, py) ==
  LET o == m.outline.rect
      rx == px - Round((m.grid.x - o.x) * Res, Res)
      ry == py - Round((m.grid.y - o.y) * Res, Res)
  IN  IF <<rx, ry>> \in Cells(o) THEN ry * o.w + rx + 1 ELSE 0

\* render_map_png raises where the mask ends before the pixels of the map do.
Drawable(m) ==
  m.outline # Absent =>
    \A c \in Cells(m.grid) : MaskIndex(m, c[1], c[2]) <= Len(m.outline.rooms)

\* The room under a pixel, for the image and for a tap.
MaskRoom(m, px, py) ==
  LET k == MaskIndex(m, px, py)
  IN  IF k \in 1..Len(m.outline.rooms) THEN m.outline.rooms[k] ELSE 0

\* render_map_png: the room shown in column i, row j of the image; out of the
\* image as much as in it.
Shown(m, i, j) == MaskRoom(m, i, m.grid.h - 1 - j)

\* _to_out and _world_to_out
ToOut(m, px, py) == <<px, m.grid.h - 1 - py>>
WorldToOut(m, wx, wy) ==
  ToOut(m, Round(wx - m.grid.x * Res, Res), Round(wy - m.grid.y * Res, Res))

Clamp(n, hi) == Max({0, Min({n, hi})})

\* MapData.room_id_at_normalized of the point a half columns to the right of the
\* left and b half rows below the top edge of the image.
RoomAtNormalized(m, a, b) ==
  LET g == m.grid
      px == Clamp(Round(Clamp(a, 2 * g.w), 2), g.w - 1)
      py == Clamp(Round(2 * (g.h - 1) - Clamp(b, 2 * g.h), 2), g.h - 1)
  IN  MaskRoom(m, px, py)

\* Fault: the last row counts as the height.
ToCmFromHeight(m, a, b) ==
  <<Round((2 * m.grid.x + a) * Res, 2), Round((2 * m.grid.y + 2 * m.grid.h - b) * Res, 2)>>

\* One corner in normalized_rects_to_quads_cm.
ToCm(m, a, b) ==
  LET g == m.grid
  IN  <<Round((2 * g.x + Clamp(a, 2 * g.w)) * Res, 2),
        Round((2 * g.y + 2 * (g.h - 1) - Clamp(b, 2 * g.h)) * Res, 2)>>

\* _pose_to_pixel
PoseToPixel(m, cm) ==
  LET p == <<Round(cm[1] - m.grid.x * Res, Res), Round(cm[2] - m.grid.y * Res, Res)>>
  IN  IF p \in Cells(m.grid) THEN p ELSE Absent

-----------------------------------------------------------------------------
\* What shows: bytes that came whole, or were decoded though they were cut.
PartShows(part) == ~part.empty /\ (part.whole \/ part.data # Absent)

CutParts(f) == Cardinality({part \in {"pixels", "rooms"} : ~f[part].whole})

\* A map frame of _handle_biz_message.  The robot sends a backup when its map was
\* edited or switched, and a plain frame as it cleans.
HandleFrame ==
  \E g \in Grids, text \in Pictures, r \in Outlines \cup {Absent} :
    \E pixels \in Arrivals[text],
       rooms \in IF r = Absent THEN {NoRooms} ELSE Arrivals[OutlineText(floor, r)] :
      LET f == [grid |-> g, pixels |-> pixels, rect |-> r, rooms |-> rooms,
                zones |-> IF r = Absent THEN {} ELSE floor.zones]
          new == Extract(f)
      IN  /\ cuts + CutParts(f) <= MaxCuts
          /\ cuts' = cuts + CutParts(f)
          /\ mapData' = IF new = Absent THEN mapData ELSE KeepOutline(mapData, new)
          /\ last' = IF PartShows(pixels)
                     THEN [grid |-> g, text |-> text, whole |-> pixels.whole,
                           sure |-> pixels.sure]
                     ELSE last
          /\ outlined' = IF PartShows(pixels) /\ PartShows(rooms)
                         THEN [rect |-> r, rooms |-> floor.rooms, zones |-> floor.zones,
                               whole |-> rooms.whole, sure |-> rooms.sure]
                         ELSE outlined
          /\ UNCHANGED <<floor, robotPixel, pose>>

\* A pose at the zero of the plane is none.
HandlePose ==
  /\ mapData # Absent
  /\ \E c \in DOMAIN floor.rooms :
       LET px == PoseToPixel(mapData, <<c[1] * Res, c[2] * Res>>)
       IN  /\ c # <<0, 0>> /\ px # Absent
           /\ robotPixel' = px
           /\ pose' = [cell |-> c, grid |-> mapData.grid, rooms |-> floor.rooms]
  /\ UNCHANGED <<floor, mapData, last, outlined, cuts>>

\* The robot changes to another of its maps, or the zones are edited in the app.
ChangeFloor ==
  /\ floor' \in FloorStates \ {floor}
  /\ UNCHANGED <<mapData, robotPixel, last, outlined, pose, cuts>>

MapInit ==
  /\ floor \in FloorStates
  /\ mapData = Absent /\ robotPixel = Absent
  /\ last = Absent /\ outlined = Absent /\ pose = Absent
  /\ cuts = 0

MapNext == HandleFrame \/ HandlePose \/ ChangeFloor

MapSpec == MapInit /\ [][MapNext]_mapVars

-----------------------------------------------------------------------------
(***************************************************************************)
(* Properties.                                                             *)
(***************************************************************************)
\* What is had of a text is the text, or its beginning where it came cut.
IsOf(got, text, whole) == got \in Prefixes(text) /\ (whole => got = text)

\* The map shown is the one of the last frame that was not refused: all of it as
\* the robot meant it, whatever its encoder copied, and if its pixels came cut
\* their beginning.  A frame that is refused loses nothing.
PictureIsDecoded ==
  last # Absent =>
    /\ mapData # Absent /\ mapData.grid = last.grid
    /\ last.sure => IsOf(mapData.raw, last.text, last.whole)

\* The outline, the names and the zones shown are those of one backup, the last
\* with an outline that could be decoded; if that came cut it is its beginning.
PartsBelongTogether ==
  outlined # Absent =>
    /\ mapData.outline # Absent /\ mapData.outline.rect = outlined.rect
    /\ mapData.zones = outlined.zones
    /\ outlined.sure =>
         IsOf(mapData.outline.rooms, OutlineText(outlined, outlined.rect), outlined.whole)

MapIsDecoded == PictureIsDecoded /\ PartsBelongTogether

\* A map with an outline whose image can be drawn.
HasOutline == mapData # Absent /\ mapData.outline # Absent /\ Drawable(mapData)

\* Where the grid and the outline start at one cell, each pixel is in the room
\* its cell is in, and the robot's marker in the room the robot was in.
RoomsInPlace ==
  LET g == mapData.grid
      o == mapData.outline.rect
      Same(i, j) == RoomOn(outlined, g.x + i, g.y + (g.h - 1 - j))
  IN  HasOutline /\ outlined.sure /\ g.x = o.x /\ g.y = o.y =>
        /\ \A i \in 0..(Min({g.w, o.w}) - 1), k \in 0..(Min({g.h, o.h}) - 1) :
             Shown(mapData, i, g.h - 1 - k) = Same(i, g.h - 1 - k)
        /\ robotPixel # Absent /\ pose.grid = g /\ robotPixel \in Cells(o)
             /\ pose.rooms = outlined.rooms =>
             LET out == ToOut(mapData, robotPixel[1], robotPixel[2])
             IN  Shown(mapData, out[1], out[2]) = pose.rooms[pose.cell]

\* A tap finds the room drawn under it, or to the right of or below it when it is
\* not on the corner of a pixel ("the exact inverse of render_map_png's room-mask
\* lookup"), but for the edges of the image.
TapsFindRooms ==
  LET g == mapData.grid
  IN  HasOutline =>
        \A i \in 0..(g.w - 2), j \in 0..(g.h - 2), di, dj \in {0, 1} :
          \E ri \in {0, di}, rj \in {0, dj} :
            RoomAtNormalized(mapData, 2 * i + di, 2 * j + dj) = Shown(mapData, i + ri, j + rj)

\* The corner of a zone drawn on the image is half a pixel, at most, from where
\* the image would show its centimetres (normalized_rects_to_quads_cm, "the exact
\* inverse of render_map_png's forward transform").
ZonesFitTheFloor ==
  LET g == mapData.grid
      Near(n, a) == 2 * n - a \in {-1, 0, 1}
  IN  mapData # Absent =>
        \A a \in 0..(2 * g.w), b \in 0..(2 * g.h) :
          LET cm == ToCm(mapData, a, b)
              out == WorldToOut(mapData, cm[1], cm[2])
          IN  Near(out[1], a) /\ Near(out[2], b)

PointsMapBack == RoomsInPlace /\ TapsFindRooms /\ ZonesFitTheFloor

\* A tap in the middle of a pixel finds the room of that pixel.  The code does
\* not keep it: it rounds to the nearest pixel corner, which may be the next
\* pixel's, and no run checks it; TapsFindRooms states what holds.
TapFindsItsRoom ==
  HasOutline =>
    \A c \in Cells(mapData.grid) :
      RoomAtNormalized(mapData, 2 * c[1] + 1, 2 * c[2] + 1) = Shown(mapData, c[1], c[2])

\* Only a picture that came whole is shown.  The code does not keep it: the size
\* of a text is not compared with what its block gave, so a block cut in its
\* literals replaces the good map by a short one.  No run checks it.
PictureIsWhole == last # Absent => last.whole

\* Every map can be drawn.  The code does not keep it: a short outline replaces
\* the good one, and render_map_png raises until another backup comes.  No run
\* checks it.
MapsCanBeDrawn == mapData # Absent => Drawable(mapData)
=============================================================================
