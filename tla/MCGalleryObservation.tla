------------------------ MODULE MCGalleryObservation ------------------------
EXTENDS GalleryObservation

CONSTANTS c, d, g, h, a, b, info, p, o

MCHome == [x \in {c, d, g, h} |-> IF x = g THEN c ELSE IF x = h THEN d ELSE Root]
MCCalled == [x \in {c, d, g, h} |-> IF x \in {d, g} THEN b ELSE a]
MCRank == [f \in {info, p, o} |-> CASE f = info -> 1 [] f = o -> 2 [] f = p -> 3]
MCPublished == {<<a, a>>}
=============================================================================
