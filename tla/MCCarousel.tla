----------------------------- MODULE MCCarousel -----------------------------
\* Carousel for TLC: a collection view that is turned, and one that only becomes
\* lower (below a call in progress); items smaller, as large and larger than it.
EXTENDS Carousel

Size(w, h)   == [width |-> w, height |-> h]
BoundsSizeMC == {Size(3, 5), Size(3, 4), Size(5, 3)}
ItemSizeMC   == {Size(1, 2), Size(3, 2), Size(4, 3)}
=============================================================================
