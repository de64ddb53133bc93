--------------------------- MODULE MCScreenCrossing ---------------------------
\* ScreenCrossing with small monitors: one, two of different heights side by side, and
\* one to the left of the primary, where coordinates are negative.
EXTENDS ScreenCrossing

Screen(x0, y0, width, height) == [x |-> x0, y |-> y0, w |-> width, h |-> height]

MCDesktops ==
  { {Screen(0, 0, 9, 7)},
    {Screen(0, 0, 9, 7), Screen(9, 0, 7, 10)},
    {Screen(0, 0, 9, 7), Screen(-8, 1, 8, 8)} }

=============================================================================
