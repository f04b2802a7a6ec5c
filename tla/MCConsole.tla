------------------------------ MODULE MCConsole ------------------------------
(* Console with two sleepers and screens of a few pixels. *)
EXTENDS Console

Info(w, h, stride, bpp, format) ==
  [width |-> w, height |-> h, stride |-> stride, bytes_per_pixel |-> bpp,
   pixel_format |-> format]

\* Rows with and without padding, every format, and formats fill_solid refuses.
MCInfos == {Info(2, 2, 3, 4, "Rgb"), Info(2, 2, 2, 4, "Bgr"), Info(2, 2, 4, 1, "U8"),
            Info(2, 2, 3, 3, "Bgr"), Info(1, 1, 1, 4, "Unknown")}

\* The bootloader's text, in the padding too.
MCBootScreens ==
  [i \in MCInfos |->
     {[k \in 0 .. i.stride * i.height * i.bytes_per_pixel - 1 |-> 7 + (k % 2)]}]

\* Three different channels, and black.
MCColors == {<<0, 0, 0>>, <<9, 6, 3>>}

\* Points left of, on, and right of the screen.
MCCoordinates == -1 .. 3
=============================================================================
