----------------------------- MODULE MCEmulator ------------------------------
(***************************************************************************)
(* Instances of Emulator for TLC.                                          *)
(***************************************************************************)
EXTENDS Emulator, TLC

\* LEDs of 2 by 3 window pixels.
At(strip, offset, x, y) ==
  [strip |-> strip, strip_offset |-> offset, x |-> x, y |-> y,
   pixel_width |-> 2, pixel_height |-> 3]
Grid(pattern, rows, columns, strip, offset) ==
  [pattern |-> pattern, rows |-> rows, columns |-> columns]
    @@ At(strip, offset, 10 * strip, 5)
Row(pattern, size, strip, offset) ==
  [pattern |-> pattern, size |-> size] @@ At(strip, offset, 7, 20)
LineOf(size, angle) ==
  [pattern |-> "line", size |-> size, angle |-> angle, pixel_step |-> 2]
    @@ At(0, 0, 1, 1)
Without(b, key) == [k \in DOMAIN b \ {key} |-> b[k]]

Loads(blocks) == [is_sequence |-> TRUE, blocks |-> blocks]
Zigzag == Grid("horizontal_zigzag", 2, 2, 0, 0)

\* Two strips of three LEDs: blocks that fill both strips, go beyond their strip,
\* cover LEDs of an earlier block, or rise or fall at an angle.
SomeBlocks ==
  { Grid(pattern, size[1], size[2], strip, -3 * strip) :
      pattern \in Grids, size \in {<<3, 2>>, <<2, 3>>, <<1, 4>>}, strip \in {0, 1} }
  \union { Row(pattern, 3, strip, 0) : pattern \in Rows, strip \in {0, 1} }
  \union { LineOf(4, <<866, -500>>), LineOf(3, <<0, 1000>>) }

\* Indexes before, after and far from the LEDs there are, keys and patterns there
\* are not.
BadBlocks ==
  { Row(pattern, 3, place[1], place[2]) :
      pattern \in {"left_to_right", "right_to_left"},
      place \in {<<-1, -1>>, <<-1, 1>>, <<1, 1>>, <<2, -1>>} }
  \union { Without(Zigzag, key) : key \in RequiredKeys(Zigzag) }
  \union { Row("spiral", 3, 0, 0), Row("bottom_to_top", 3, 0, -1) }

\* Any two blocks, of which the second may hide part of the first, and a bad one;
\* one layout is complete, with strip_offset left to its default.
AllLayouts ==
  { Loads(<<b, c, Row("spiral", 3, 0, 0)>>) : b \in SomeBlocks, c \in SomeBlocks }
  \union { Loads(<<Zigzag, b, Zigzag>>) : b \in BadBlocks }
  \union { [is_sequence |-> FALSE, blocks |-> << >>],
           Loads(<<Zigzag, Without(Row("right_to_left", 3, 1, 0), "strip_offset")>>) }
=============================================================================
