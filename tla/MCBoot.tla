------------------------------- MODULE MCBoot -------------------------------
(***************************************************************************)
(* Memory maps with usable and reserved regions in every order the walk of *)
(* the map tells apart: the heap ends inside a region, exactly at its end, *)
(* spans two regions, or does not fit; and a map with room for two tables  *)
(* only. The window has five pages, and tables of four pages, so that it   *)
(* lies in two of them and the device pages need tables of their own. The  *)
(* firmware leaves no line of the 8259 pair masked, the cascade, the       *)
(* clock's, or all but the first two.                                      *)
(***************************************************************************)
EXTENDS Boot

Region(a, b, u) == [start |-> a, end |-> b, usable |-> u]

MCMemoryMaps == {
  <<Region(0, 1, FALSE), Region(1, 11, TRUE), Region(12, 15, FALSE), Region(15, 16, TRUE)>>,
  <<Region(0, 4, TRUE), Region(4, 7, FALSE), Region(8, 11, FALSE), Region(11, 12, TRUE)>>,
  <<Region(0, 2, TRUE), Region(2, 3, FALSE), Region(3, 8, TRUE), Region(8, 9, FALSE)>>,
  <<Region(0, 1, FALSE), Region(1, 4, TRUE)>>,
  <<Region(0, 4, TRUE), Region(4, 6, FALSE)>> }

\* Regions that begin on a frame or inside one, end on one, or span several.
MCRegions == {[phys |-> 40960, size |-> 36], [phys |-> 41000, size |-> 4095],
              [phys |-> 45056, size |-> 4096], [phys |-> 49152, size |-> 9000]}

Override(s, g, p, t) == [isa_source |-> s, gsi |-> g, polarity |-> p, trigger |-> t]

\* The usual overrides, ones on the devices' own lines, ones that move a device,
\* and two I/O APICs in pages of their own or in one.
MCMadts == {
  [io_apics |-> <<8192>>,
   overrides |-> <<Override(0, 2, "bus", "bus"), Override(9, 9, "high", "level")>>],
  [io_apics |-> <<8192, 12288>>,
   overrides |-> <<Override(1, 1, "low", "edge"), Override(8, 8, "high", "edge")>>],
  [io_apics |-> <<8192, 9216>>, overrides |-> <<>>],
  [io_apics |-> <<8192>>,
   overrides |-> <<Override(1, 3, "low", "level"), Override(5, 8, "low", "level")>>] }

MCFirmwareMasks == {{}, {2}, {8}, {2, 3, 5, 8, 9}}
=============================================================================
