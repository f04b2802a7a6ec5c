------------------------------- MODULE Display -------------------------------
(***************************************************************************)
(* The display driver (framebuffer.rs), byte by byte: drawings go to the   *)
(* back buffer, whose rows are as wide as the screen; draw_frame copies    *)
(* them into the framebuffer, whose rows are stride pixels apart. Copies   *)
(* through raw pointers write wherever their arithmetic leads: a buffer is *)
(* a function, and a write outside it would enlarge its domain.            *)
(***************************************************************************)
EXTENDS Integers, FiniteSetsExt

CONSTANTS Infos,       \* the FrameBufferInfo of the machines considered
          Colors,      \* <<red, green, blue>>, black included
          Coordinates, \* of points on and around the screen
          UsizeRange,  \* bound: a negative i32 becomes that much larger as usize
          BootScreens  \* for each FrameBufferInfo, what the bootloader may leave shown

PixelFormats == {"Rgb", "Bgr", "U8", "Unknown"}

ASSUME DisplayAssumption ==
  /\ Infos \subseteq [width : Nat \ {0}, height : Nat \ {0}, stride : Nat,
                      bytes_per_pixel : 1 .. 4, pixel_format : PixelFormats]
  /\ \A i \in Infos : i.width <= i.stride
                      /\ (i.pixel_format \in {"Rgb", "Bgr"} => i.bytes_per_pixel >= 3)
  /\ Colors \subseteq Nat \X Nat \X Nat /\ <<0, 0, 0>> \in Colors
  /\ Coordinates \subseteq Int
  /\ UsizeRange \in Nat \ {0}
  /\ \A i \in Infos : BootScreens[i] \subseteq
                       [0 .. i.stride * i.height * i.bytes_per_pixel - 1 -> Nat]
  /\ \A i \in Infos, x \in Coordinates :
       i.width < UsizeRange + x /\ i.height < UsizeRange + x /\ x < UsizeRange

VARIABLES info,         \* the machine's FrameBufferInfo
          backbuffer, framebuffer,
          unsupported,  \* a drawing has panicked on the pixel format
          bootscreen    \* history: the framebuffer as the kernel found it

displayVars == <<info, bootscreen, backbuffer, framebuffer, unsupported>>

Width == info.width
Height == info.height
Bpp == info.bytes_per_pixel
BackLen == Width * Height * Bpp
FrameLen == info.stride * Height * Bpp

\* Display::new: the back buffer is zeroed, the framebuffer keeps what it shows.
DisplayInit == /\ info \in Infos
               /\ backbuffer = [i \in 0 .. BackLen - 1 |-> 0]
               /\ framebuffer \in BootScreens[info]
               /\ bootscreen = framebuffer
               /\ unsupported = FALSE

\* The bytes of a colour in the order of the format.
Gray(c) == c[1] \div 3 + c[2] \div 3 + c[3] \div 3
ColorBytes(c) ==
  IF info.pixel_format = "Rgb" THEN <<c[1], c[2], c[3], 0>>
  ELSE IF info.pixel_format = "Bgr" THEN <<c[3], c[2], c[1], 0>>
  ELSE <<Gray(c)>>

\* fill_solid and clear: todo!() and the assertions on bytes_per_pixel.
Fillable == \/ info.pixel_format \in {"Rgb", "Bgr"} /\ Bpp = 4
            \/ info.pixel_format = "U8" /\ Bpp = 1

\* The offset of a pixel in the back buffer.
ByteOffset(x, y) == (y * Width + x) * Bpp

\* The n bytes from a pixel on.
Row(x, y, n) == ByteOffset(x, y) .. ByteOffset(x, y) + n - 1

Unsupported == unsupported' = TRUE /\ UNCHANGED <<info, bootscreen, backbuffer, framebuffer>>
-----------------------------------------------------------------------------
(* Drawing *)

AsUsize(x) == x % UsizeRange

\* draw_pixel on a point of the screen. A point outside changes nothing.
DrawPixel(x, y, c) ==
  LET ux == AsUsize(x)
      uy == AsUsize(y)
      n  == IF info.pixel_format = "U8" THEN 1 ELSE 3
  IN  /\ ux < Width /\ uy < Height
      /\ IF info.pixel_format = "Unknown" THEN Unsupported
         ELSE /\ backbuffer' = [i \in DOMAIN backbuffer \cup Row(ux, uy, n) |->
                                  IF i \in Row(ux, uy, n)
                                  THEN ColorBytes(c)[i - ByteOffset(ux, uy) + 1]
                                  ELSE backbuffer[i]]
              /\ UNCHANGED <<info, bootscreen, framebuffer, unsupported>>

\* The row copies of fill_solid and clear: n pixels from column x, in each row.
FillRows(x, rows, n, c) ==
  LET hit(i) == {y \in rows : i \in Row(x, y, n * Bpp)}
      wide   == ColorBytes(c)
  IN  /\ backbuffer' =
           [i \in DOMAIN backbuffer \cup UNION {Row(x, y, n * Bpp) : y \in rows} |->
              IF hit(i) = {} THEN backbuffer[i]
              ELSE wide[((i - ByteOffset(x, Max(hit(i)))) % Bpp) + 1]]
      /\ UNCHANGED <<info, bootscreen, framebuffer, unsupported>>

\* Mutation: the area is not cut off at the right edge.
ClipNotRight(a, n, limit) == {v \in a .. a + n - 1 : 0 <= v}

\* The columns or rows of an area of the screen: those of size n from a on that
\* lie below limit.
Clip(a, n, limit) == {v \in a .. a + n - 1 : 0 <= v /\ v < limit}

\* From the first to the last of a range.
Breadth(range) == Max(range) - Min(range) + 1

\* fill_solid of an area that meets the screen.
FillSolid(area, c) ==
  LET columns == Clip(area.x, area.width, Width)
      rows    == Clip(area.y, area.height, Height)
  IN  /\ columns # {} /\ rows # {}
      /\ IF Fillable THEN FillRows(Min(columns), rows, Breadth(columns), c)
         ELSE Unsupported

Clear(c) == IF Fillable THEN FillRows(0, 0 .. Height - 1, Width, c) ELSE Unsupported
-----------------------------------------------------------------------------
\* Mutation: the whole back buffer is copied at once.
DrawFrameAtOnce ==
  /\ framebuffer' = [i \in DOMAIN framebuffer |->
                       IF i \in DOMAIN backbuffer THEN backbuffer[i] ELSE framebuffer[i]]
  /\ UNCHANGED <<info, bootscreen, backbuffer, unsupported>>

\* draw_frame: row by row, from rows of width to rows of stride pixels.
DrawFrame ==
  LET start(y) == y * info.stride * Bpp
      hit(i)   == {y \in 0 .. Height - 1 : i \in start(y) .. start(y) + Width * Bpp - 1}
      covered  == UNION {start(y) .. start(y) + Width * Bpp - 1 : y \in 0 .. Height - 1}
  IN  /\ framebuffer' = [i \in DOMAIN framebuffer \cup covered |->
                           IF hit(i) = {} THEN framebuffer[i]
                           ELSE LET y == Max(hit(i))
                                IN  backbuffer[ByteOffset(0, y) + (i - start(y))]]
      /\ UNCHANGED <<info, bootscreen, backbuffer, unsupported>>
-----------------------------------------------------------------------------
(* The display by itself, with every drawing. *)

Areas == [x : Coordinates, y : Coordinates, width : {0, 1, 2}, height : {0, 1, 2}]

DrawSomething == \E c \in Colors : \/ \E x, y \in Coordinates : DrawPixel(x, y, c)
                                   \/ \E area \in Areas : FillSolid(area, c)
                                   \/ Clear(c)
-----------------------------------------------------------------------------
(* Properties *)

\* No write leaves its buffer, and none reaches the framebuffer's padding, which
\* keeps what the bootloader left there.
BuffersKept ==
  /\ DOMAIN backbuffer = 0 .. BackLen - 1
  /\ DOMAIN framebuffer = 0 .. FrameLen - 1
  /\ \A y \in 0 .. Height - 1, i \in Width * Bpp .. info.stride * Bpp - 1 :
       LET pad == y * info.stride * Bpp + i IN framebuffer[pad] = bootscreen[pad]

\* The colour a point shows in a buffer whose rows are w pixels apart.
Seen(buffer, w, p) ==
  LET o == (p[2] * w + p[1]) * Bpp
  IN  IF info.pixel_format = "Rgb" THEN <<buffer[o], buffer[o + 1], buffer[o + 2]>>
      ELSE IF info.pixel_format = "Bgr" THEN <<buffer[o + 2], buffer[o + 1], buffer[o]>>
      ELSE <<buffer[o]>>

Screen == (0 .. Width - 1) \X (0 .. Height - 1)
Drawn == [p \in Screen |-> Seen(backbuffer, Width, p)]
Shown == [p \in Screen |-> Seen(framebuffer, info.stride, p)]
P == INSTANCE Picture
       WITH Shades <- Colors \cup {<<Gray(c)>> : c \in Colors},
            screen <- Screen, drawn <- Drawn, shown <- Shown

\* The bytes of both buffers implement a picture: a drawing changes the points of
\* its rectangle on the screen to its colour, in the machine's pixel format, and a
\* frame shows the picture that was drawn ("Double Buffered frame buffer support").
ImplementsPicture == P!PSpec
=============================================================================
