------------------------------- MODULE Layout --------------------------------
(***************************************************************************)
(* Where the emulator shows each LED.  A layout file lists blocks of LEDs; *)
(* LoadLayout places one block after the other in the window.              *)
(*                                                                         *)
(* A block is the record of the YAML keys it has.  The calls of            *)
(* SetPixelLayout it comes down to are a set: no two of them are for the   *)
(* same LED.  The angle of a line is the pair of its cosine and sine, in   *)
(* thousandths.                                                            *)
(***************************************************************************)
EXTENDS Integers, Sequences

CONSTANTS
  NumStrips,          \* num_strips of the file
  NumPixelsPerStrip,  \* num_pixels_per_strip of the file
  Layouts             \* its layouts: [is_sequence, blocks]

NumPixels == NumStrips * NumPixelsPerStrip
Pixel == 0 .. NumPixels - 1

Grids == {"horizontal_rectangle", "vertical_rectangle", "horizontal_zigzag",
          "vertical_zigzag"}
Rows == {"left_to_right", "right_to_left", "top_to_bottom", "bottom_to_top"}

ASSUME LayoutAssumption ==
  /\ NumStrips \in Nat /\ NumPixelsPerStrip \in Nat
  /\ \A l \in Layouts :
       Len(l.blocks) \in Nat /\ DOMAIN l.blocks = 1 .. Len(l.blocks)
  /\ \A l \in Layouts : \A k \in DOMAIN l.blocks :
       LET b == l.blocks[k]
       IN  /\ "pattern" \in DOMAIN b
           /\ \A key \in {"strip", "strip_offset", "x", "y", "pixel_width",
                          "pixel_height", "rows", "columns", "size", "pixel_step"} :
                key \in DOMAIN b => b[key] \in Int
           /\ "angle" \in DOMAIN b => b.angle \in Int \X Int

VARIABLES
  layout,     \* the layout that is loaded
  loaded,     \* how many of its blocks are
  positions,  \* pixel_positions_; a pixel of no width is not seen
  mainPc      \* the main thread: "layout", or "exit", or it shows the window

layoutVars == <<layout, loaded, positions, mainPc>>

-----------------------------------------------------------------------------
(* The layouts of a block: which LED is put where.                           *)

strip_offset(b) == IF "strip_offset" \in DOMAIN b THEN b.strip_offset ELSE 0

LeftToRight(b, led, n, x, y) ==
  {[led |-> led + i, x |-> x + i * b.pixel_width, y |-> y] : i \in 0 .. n - 1}

\* Mutant: the chain of LEDs is counted from 1.
RightToLeftFromOne(b, led, n, x, y) ==
  {[led |-> led + n - i, x |-> x + i * b.pixel_width, y |-> y] : i \in 0 .. n - 1}

RightToLeft(b, led, n, x, y) ==
  {[led |-> led + n - 1 - i, x |-> x + i * b.pixel_width, y |-> y]
     : i \in 0 .. n - 1}

TopToBottom(b, led, n, x, y) ==
  {[led |-> led + i, x |-> x, y |-> y + i * b.pixel_height] : i \in 0 .. n - 1}

BottomToTop(b, led, n, x, y) ==
  {[led |-> led + n - 1 - i, x |-> x, y |-> y + i * b.pixel_height]
     : i \in 0 .. n - 1}

HorizontalRectangle(b) ==
  UNION {LeftToRight(b, strip_offset(b) + row * b.columns, b.columns,
                     b.x, b.y + row * b.pixel_height) : row \in 0 .. b.rows - 1}

VerticalRectangle(b) ==
  UNION {TopToBottom(b, strip_offset(b) + col * b.rows, b.rows,
                     b.x + col * b.pixel_width, b.y) : col \in 0 .. b.columns - 1}

\* Mutant: every row turns back.
HorizontalZigzagTurned(b) ==
  UNION {RightToLeft(b, strip_offset(b) + row * b.columns, b.columns,
                     b.x, b.y + row * b.pixel_height) : row \in 0 .. b.rows - 1}

HorizontalZigzag(b) ==
  UNION {IF row % 2 = 0
         THEN LeftToRight(b, strip_offset(b) + row * b.columns, b.columns,
                          b.x, b.y + row * b.pixel_height)
         ELSE RightToLeft(b, strip_offset(b) + row * b.columns, b.columns,
                          b.x, b.y + row * b.pixel_height)
         : row \in 0 .. b.rows - 1}

\* trunc(n / 1000): the conversion to int is towards zero.
Thousandth(n) == IF n >= 0 THEN n \div 1000 ELSE -((-n) \div 1000)

Line(b) ==
  {[led |-> strip_offset(b) + i,
    x |-> Thousandth(1000 * b.x + b.angle[1] * b.pixel_step * i),
    y |-> Thousandth(1000 * b.y - b.angle[2] * b.pixel_step * i)]
     : i \in 0 .. b.size - 1}

\* "vertical_zigzag" calls the horizontal one.
Calls(b) ==
  IF b.pattern = "horizontal_rectangle" THEN HorizontalRectangle(b)
  ELSE IF b.pattern = "vertical_rectangle" THEN VerticalRectangle(b)
  ELSE IF b.pattern = "horizontal_zigzag" THEN HorizontalZigzag(b)
  ELSE IF b.pattern = "vertical_zigzag" THEN HorizontalZigzag(b)
  ELSE IF b.pattern = "left_to_right"
       THEN LeftToRight(b, strip_offset(b), b.size, b.x, b.y)
  ELSE IF b.pattern = "right_to_left"
       THEN RightToLeft(b, strip_offset(b), b.size, b.x, b.y)
  ELSE IF b.pattern = "top_to_bottom"
       THEN TopToBottom(b, strip_offset(b), b.size, b.x, b.y)
  ELSE IF b.pattern = "bottom_to_top"
       THEN BottomToTop(b, strip_offset(b), b.size, b.x, b.y)
  ELSE Line(b)

\* The keys that have no default: as<int>() throws without them.
RequiredKeys(b) ==
  {"strip", "x", "y", "pixel_width", "pixel_height"}
    \union IF b.pattern \in Grids THEN {"rows", "columns"}
           ELSE IF b.pattern \in Rows THEN {"size"} ELSE {"size", "angle", "pixel_step"}

pixel_index(b, c) == b.strip * NumPixelsPerStrip + c.led

\* Every call of SetPixelLayout succeeds: its index is in the vector, though not
\* necessarily on the strip of the block.
Loadable(b) ==
  /\ b.pattern \in Grids \union Rows \union {"line"}
  /\ RequiredKeys(b) \subseteq DOMAIN b
  /\ \A c \in Calls(b) : pixel_index(b, c) >= 0 /\ pixel_index(b, c) < NumPixels

-----------------------------------------------------------------------------
PixelPosition(b, c) ==
  [x |-> c.x, y |-> c.y, width |-> b.pixel_width, height |-> b.pixel_height]
Nowhere == [x |-> 0, y |-> 0, width |-> 0, height |-> 0]

LayoutInit ==
  /\ layout \in Layouts /\ loaded = 0 /\ mainPc = "layout"
  /\ positions = [p \in Pixel |-> Nowhere]

\* A block that cannot be loaded ends the program; that some of its LEDs have
\* been placed no longer matters.
LoadBlockLayout ==
  /\ mainPc = "layout" /\ layout.is_sequence /\ loaded < Len(layout.blocks)
  /\ LET b == layout.blocks[loaded + 1]
     IN  IF Loadable(b)
         THEN /\ loaded' = loaded + 1
              /\ positions' = [p \in Pixel |->
                   IF \E c \in Calls(b) : pixel_index(b, c) = p
                   THEN PixelPosition(b, CHOOSE c \in Calls(b) : pixel_index(b, c) = p)
                   ELSE positions[p]]
              /\ UNCHANGED mainPc
         ELSE mainPc' = "exit" /\ UNCHANGED <<loaded, positions>>
  /\ UNCHANGED layout

FailLayout ==
  /\ mainPc = "layout" /\ ~layout.is_sequence
  /\ mainPc' = "exit" /\ UNCHANGED <<layout, loaded, positions>>

-----------------------------------------------------------------------------
\* Block k places LED n of its chain, from 0, on this pixel.
Block(k) == layout.blocks[k]
Covers(k, p) == \E c \in Calls(Block(k)) : pixel_index(Block(k), c) = p
LastToCover(k, p) == Covers(k, p) /\ \A j \in k + 1 .. loaded : ~Covers(j, p)
PlaceInChain(k, p) == p - Block(k).strip * NumPixelsPerStrip - strip_offset(Block(k))

\* Column and row of LED n of a block.
Cell(b, n) ==
  IF b.pattern = "horizontal_rectangle" THEN <<n % b.columns, n \div b.columns>>
  ELSE IF b.pattern = "vertical_rectangle" THEN <<n \div b.rows, n % b.rows>>
  ELSE IF b.pattern \in {"horizontal_zigzag", "vertical_zigzag"}
       THEN IF (n \div b.columns) % 2 = 0 THEN <<n % b.columns, n \div b.columns>>
            ELSE <<b.columns - 1 - (n % b.columns), n \div b.columns>>
  ELSE IF b.pattern = "left_to_right" THEN <<n, 0>>
  ELSE IF b.pattern = "right_to_left" THEN <<b.size - 1 - n, 0>>
  ELSE IF b.pattern = "top_to_bottom" THEN <<0, n>> ELSE <<0, b.size - 1 - n>>

\* While the layout is loaded, and so afterwards, each LED stands where the last block that covers
\* it has its place in the chain, and one that none covers is not seen.
\* Nested loops in the code; division and remainder here.
PlacedByLastBlock ==
  mainPc = "layout" =>
    /\ \A p \in Pixel : (\A k \in 1 .. loaded : ~Covers(k, p)) => positions[p] = Nowhere
    /\ \A p \in Pixel, k \in 1 .. loaded :
         LastToCover(k, p) /\ Block(k).pattern \in Grids \union Rows =>
           LET b == Block(k)
               cell == Cell(b, PlaceInChain(k, p))
           IN  positions[p] = [x |-> b.x + cell[1] * b.pixel_width,
                               y |-> b.y + cell[2] * b.pixel_height,
                               width |-> b.pixel_width, height |-> b.pixel_height]

\* The inductive invariant of the proofs: a position comes from the call of the
\* last block that covers its pixel.
PlacedInv ==
  mainPc = "layout" =>
    /\ \A k \in 1 .. loaded : Loadable(Block(k))
    /\ \A p \in Pixel : (\A k \in 1 .. loaded : ~Covers(k, p)) => positions[p] = Nowhere
    /\ \A p \in Pixel, k \in 1 .. loaded : LastToCover(k, p) =>
         \E c \in Calls(Block(k)) : /\ pixel_index(Block(k), c) = p
                                   /\ positions[p] = PixelPosition(Block(k), c)

\* The distance of two numbers is d.
Apart(m, n, d) == m - n = d \/ n - m = d

\* A zigzag is what a chain of LEDs folded into a grid looks like: LEDs next to
\* each other in the chain are next to each other in the window, also where the
\* chain turns.
ZigzagsAreConnected ==
  mainPc = "layout" =>
    \A k \in 1 .. loaded, p \in Pixel :
      (/\ Block(k).pattern = "horizontal_zigzag"
       /\ LastToCover(k, p) /\ LastToCover(k, p + 1)) =>
        LET q == positions[p]  r == positions[p + 1]
        IN  \/ q.y = r.y /\ Apart(q.x, r.x, Block(k).pixel_width)
            \/ q.x = r.x /\ Apart(q.y, r.y, Block(k).pixel_height)
=============================================================================
