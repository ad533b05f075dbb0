----------------------------- MODULE MCSegments -----------------------------
EXTENDS Segments
SmallNumbers == 0 .. 9
SmallSteps == 1 .. 4
=============================================================================
