----------------------------- MODULE MCWebWorker -----------------------------
(* A small instance of WebWorker.                                          *)
EXTENDS WebWorker

CONSTANTS i1, l1, p1, k1

(* The native sizes of logo, thumb and poster.                             *)
Logo == [w |-> 800, h |-> 800]
Thumb == [w |-> 1280, h |-> 720]
Poster == [w |-> 800, h |-> 1200]
NativeSizes == {Logo, Thumb, Poster}

(* Widths at every boundary, and, of each native size, a width at which    *)
(* int(h * (w / W)) in doubles is one less than the exact quotient.        *)
SomeWidths == {1, 2, 29, 82, 112, 113, 799, 800, 1281, None}
FallingShort == {<<Logo, 29>>, <<Logo, 113>>, <<Thumb, 112>>, <<Poster, 82>>}
=============================================================================
