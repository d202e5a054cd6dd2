----------------------------- MODULE PixelFormat -----------------------------
(***************************************************************************)
(* Pixels on the wire, internal/rfb/pixel.go: a colour of the screen is    *)
(* scaled to what the viewer's format can hold, packed into a word and     *)
(* written byte by byte.  A word, and a byte, is the set of its one bits.  *)
(***************************************************************************)
EXTENDS Naturals, Sequences

Channel == {"red", "green", "blue"}

\* The formats viewers ask for: the built-in one's, which is also the default
\* of the server, and some that VNC programs behind -forward use.
RGB(r, g, b) == [red |-> r, green |-> g, blue |-> b]
FormatOf(name) ==
    CASE name = "builtin" ->
           [bits |-> 32, big |-> FALSE, max |-> RGB(255, 255, 255), shift |-> RGB(16, 8, 0)]
      [] name = "rgb565big" ->
           [bits |-> 16, big |-> TRUE, max |-> RGB(31, 63, 31), shift |-> RGB(11, 5, 0)]
      [] name = "bgr233" ->
           [bits |-> 8, big |-> FALSE, max |-> RGB(7, 7, 3), shift |-> RGB(0, 3, 6)]

Bits(n) == {i \in 0..15 : (n \div 2^i) % 2 = 1}
Number(bits) == CHOOSE n \in 0..2^16 - 1 : Bits(n) = bits
ShiftLeft(bits, n) == {i + n : i \in bits} \cap 0..31
ByteAt(word, k) == {i \in 0..7 : i + 8 * k \in word}

bytesPerPixel(pf) == pf.bits \div 8

\* Mutant of encode: the last byte first, whatever the format says.
encodeLittle(pf, colour) ==
    LET word == UNION {ShiftLeft(Bits((colour[c] * pf.max[c]) \div 255), pf.shift[c]) :
                          c \in Channel}
    IN [k \in 1..bytesPerPixel(pf) |-> ByteAt(word, k - 1)]

\* encodeRectInto, for one pixel.
encode(pf, colour) ==
    LET word == UNION {ShiftLeft(Bits((colour[c] * pf.max[c]) \div 255), pf.shift[c]) :
                          c \in Channel}
        n == bytesPerPixel(pf)
    IN [k \in 1..n |-> ByteAt(word, IF pf.big THEN n - k ELSE k - 1)]

\* What RFB has a viewer make of a pixel: the word, and of it the channel.
Value(pf, pixel, c) ==
    LET n == Len(pixel)
        place(k) == IF pf.big THEN n - k ELSE k - 1
        word == UNION {ShiftLeft(pixel[k], 8 * place(k)) : k \in 1..n}
    IN Number({i \in Bits(pf.max[c]) : i + pf.shift[c] \in word})

\* A colour comes back scaled down to the maximum of each channel, rounded down.
SameColour(pf, pixel, colour) ==
    \A c \in Channel :
       LET v == Value(pf, pixel, c) IN
       v * 255 <= colour[c] * pf.max[c] /\ colour[c] * pf.max[c] < (v + 1) * 255

\* decodeRaw of the built-in client takes the bytes as blue, green, red.
decodeRaw(pixel) ==
    [red |-> Number(pixel[3]), green |-> Number(pixel[2]), blue |-> Number(pixel[1])]
=============================================================================
