-------------------------- MODULE MCFrameAllocator --------------------------
(***************************************************************************)
(* Memory maps with usable and reserved regions in every order the walk of *)
(* the map tells apart: the heap ends inside a region, exactly at its end, *)
(* spans two regions, or does not fit.                                     *)
(***************************************************************************)
EXTENDS FrameAllocator

Region(a, b, u) == [start |-> a, end |-> b, usable |-> u]

MCMemoryMaps == {
  <<Region(0, 1, FALSE), Region(1, 7, TRUE), Region(8, 11, FALSE), Region(11, 12, TRUE)>>,
  <<Region(0, 2, TRUE), Region(2, 4, FALSE), Region(4, 7, FALSE), Region(7, 8, TRUE)>>,
  <<Region(0, 1, TRUE), Region(1, 2, FALSE), Region(2, 5, TRUE), Region(5, 6, FALSE)>>,
  <<Region(0, 1, FALSE), Region(1, 2, TRUE)>> }
=============================================================================
