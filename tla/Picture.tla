------------------------------- MODULE Picture -------------------------------
(***************************************************************************)
(* What a double-buffered display promises: a drawing gives one shade to   *)
(* the points of a rectangle that lie on the screen, and changes nothing   *)
(* else; the picture becomes visible, whole, when a frame is shown.        *)
(***************************************************************************)
EXTENDS Integers

CONSTANT Shades    \* what a point can show

VARIABLES screen,  \* the points of the screen, <<column, row>>
          drawn,   \* the hidden picture
          shown    \* the visible one

\* What is visible at first is none of the display's doing.
PInit == /\ drawn \in [screen -> Shades]
         /\ DOMAIN shown = screen

Rectangle(a, b) == {p \in screen : /\ a[1] <= p[1] /\ p[1] <= b[1]
                                   /\ a[2] <= p[2] /\ p[2] <= b[2]}

Draw(area, s) == /\ drawn' = [p \in screen |-> IF p \in area THEN s ELSE drawn[p]]
                 /\ UNCHANGED <<screen, shown>>

Show == /\ shown' = drawn
        /\ UNCHANGED <<screen, drawn>>

PNext == \/ Show
         \/ \E a, b \in screen, s \in Shades : Draw(Rectangle(a, b), s)

PSpec == PInit /\ [][PNext]_<<screen, drawn, shown>>
=============================================================================
