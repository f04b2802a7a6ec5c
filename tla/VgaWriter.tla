----------------------------- MODULE VgaWriter -----------------------------
(***************************************************************************)
(* The text writer of the screen (vga_buffer.rs): its cursor, in pixels,   *)
(* and the glyphs on the screen.  _print runs with interrupts masked and   *)
(* draws under the DISPLAY guard, which no task keeps over an await, so a  *)
(* call is one step and its try_lock succeeds.  Arithmetic is that of the  *)
(* development build, where usize subtraction below zero panics.           *)
(***************************************************************************)
EXTENDS Naturals

CONSTANT Infos  \* FrameBufferInfo: records [width, height, stride]

\* The screen has room for a glyph, and its lines are not shorter than it.
ASSUME InfosAssumption ==
  /\ Infos \subseteq [width : Nat, height : Nat, stride : Nat]
  /\ \A i \in Infos : i.width >= 9 /\ i.height >= 15 /\ i.stride >= i.width

VARIABLES
  info,          \* one of Infos
  x_pos, y_pos,  \* the cursor
  glyphs,        \* the positions [x, y] where a glyph is drawn
  panicked       \* a subtraction has overflowed

writerVars == <<info, x_pos, y_pos, glyphs, panicked>>

Positions == [x : Nat, y : Nat]

WriterTypeOK == /\ info \in Infos
                /\ x_pos \in Nat /\ y_pos \in Nat
                /\ glyphs \subseteq Positions
                /\ panicked \in BOOLEAN

\* Text printed during boot ends with a line feed, in whichever line.
WriterInit == /\ info \in Infos
              /\ x_pos = 0
              /\ y_pos \in {15 * n : n \in 0 .. info.height \div 15}
              /\ glyphs = {[x |-> 0, y |-> 15 * n] : n \in {m \in 0 .. info.height \div 15 :
                             15 * m < y_pos /\ (m = 0 \/ 15 * m + 15 < info.height)}}
              /\ panicked = FALSE
-----------------------------------------------------------------------------
NewLine == /\ y_pos' = y_pos + 15
           /\ x_pos' = 0
           /\ UNCHANGED <<info, glyphs, panicked>>

\* The cursor write_byte draws at: at the start of the next line if this one is
\* full, and at the top of a cleared screen if there is no line left.
Wrapped == [x |-> IF x_pos + 9 >= info.width THEN 0 ELSE x_pos,
            y |-> IF x_pos + 9 >= info.width THEN y_pos + 15 ELSE y_pos]

Clears(p) == p.y + 15 >= info.height

\* write_byte of a printable character.
WriteByte ==
  LET p == IF Clears(Wrapped) THEN [x |-> 0, y |-> 0] ELSE Wrapped
  IN  /\ glyphs' = (IF Clears(Wrapped) THEN {} ELSE glyphs) \cup {p}
      /\ x_pos' = p.x + 9 /\ y_pos' = p.y
      /\ UNCHANGED <<info, panicked>>

\* write_byte of 0xfe, for bytes that are not printable: as a str it is not UTF-8,
\* and the drawing may come out as a glyph or not at all.
WriteUnprintable ==
  \/ WriteByte
  \/ LET p == IF Clears(Wrapped) THEN [x |-> 0, y |-> 0] ELSE Wrapped
     IN  /\ glyphs' = IF Clears(Wrapped) THEN {} ELSE glyphs
         /\ x_pos' = p.x + 9 /\ y_pos' = p.y
         /\ UNCHANGED <<info, panicked>>

\* Mutation: at the start of a line the cursor moves without erasing.
BackspaceNoErase ==
  IF x_pos = 0 /\ y_pos < 15
    THEN panicked' = TRUE /\ UNCHANGED <<info, x_pos, y_pos, glyphs>>
    ELSE /\ y_pos' = IF x_pos = 0 THEN y_pos - 15 ELSE y_pos
         /\ x_pos' = (IF x_pos = 0 THEN (info.stride \div 9) * 9 ELSE x_pos) - 9
         /\ glyphs' = IF x_pos = 0 THEN glyphs ELSE glyphs \ {[x |-> x_pos', y |-> y_pos']}
         /\ UNCHANGED <<info, panicked>>

Backspace ==
  IF x_pos = 0 /\ y_pos < 15
    THEN panicked' = TRUE /\ UNCHANGED <<info, x_pos, y_pos, glyphs>>
    ELSE /\ y_pos' = IF x_pos = 0 THEN y_pos - 15 ELSE y_pos
         /\ x_pos' = (IF x_pos = 0 THEN (info.stride \div 9) * 9 ELSE x_pos) - 9
         /\ glyphs' = glyphs \ {[x |-> x_pos', y |-> y_pos']}
         /\ UNCHANGED <<info, panicked>>

Characters == {"printable", "line_feed", "backspace", "unprintable"}

\* _print of one character through write_string.
PrintChar(c) == /\ ~panicked
                /\ \/ c = "printable" /\ WriteByte
                   \/ c = "line_feed" /\ NewLine
                   \/ c = "backspace" /\ Backspace
                   \/ c = "unprintable" /\ WriteUnprintable

WriterNext == \E c \in Characters : PrintChar(c)
WriterSpec == WriterInit /\ [][WriterNext]_writerVars
-----------------------------------------------------------------------------
(* Properties *)

GlyphsOnScreen ==
  \A g \in glyphs : g.x + 9 <= info.width /\ g.y + 15 <= info.height

TextBeforeCursor ==
  \A g \in glyphs : g.y < y_pos \/ (g.y = y_pos /\ g.x < x_pos)

\* Whatever was typed and erased, no glyph is cut off by the edge of the screen, and
\* none is drawn over another one: all text lies before the cursor, through wraps,
\* clears and backspaces across line ends.
TextKept == WriterTypeOK /\ GlyphsOnScreen /\ TextBeforeCursor
=============================================================================
