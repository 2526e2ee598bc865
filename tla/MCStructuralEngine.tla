------------------------- MODULE MCStructuralEngine -------------------------
(* StructuralEngine with a few documents for each tool, whose values agree, *)
(* differ, are missing, zero or out of range.                               *)
EXTENDS StructuralEngine

CONSTANT absent, wild

MCEvidence ==
    {[category |-> c, extension |-> "same", client |-> "none"] :
        c \in Categories \cup {"other"}}
    \cup {[category |-> "image", extension |-> "different", client |-> "same"],
          [category |-> "other", extension |-> "none", client |-> "different"]}

Blank == NoDocument

\* ExifTool knows nothing of streams and durations.
Picture(width, height, time) ==
    [Blank EXCEPT !.width = width, !.height = height, !.time = time]
Exif1 == [Picture(4, 3, 1) EXCEPT !.software = 1]
ExifDocuments ==
    {Blank, Exif1, Picture(absent, absent, 2), Picture(0, 0, absent), Picture(4, 2, 1),
     Picture(wild, 3, absent)}

Probe(width, height, duration, streams) ==
    [Blank EXCEPT !.width = width, !.height = height, !.duration = duration,
                  !.codec = 1, !.size = 9, !.streams = streams, !.time = 1]
FfprobeDocuments ==
    {Probe(4, 3, 7, 2),
     [Probe(5, 0, 0, 1) EXCEPT !.time = 2, !.size = 8],
     [Probe(absent, absent, absent, 0) EXCEPT !.codec = absent, !.time = absent],
     Probe(0, 3, wild, 2)}

Track(duration, track, codec, streams, time) ==
    [Blank EXCEPT !.duration = duration, !.track = track, !.codec = codec,
                  !.streams = streams, !.time = time]
MediaInfoDocuments ==
    {Track(7, 7, 1, 2, 1), Track(8, 0, absent, 2, absent), Track(9, 8, 1, 1, 2),
     Track(4, absent, 2, absent, 1), Track(absent, wild, 1, 0, absent)}

MCDocuments == [exiftool |-> ExifDocuments, ffprobe |-> FfprobeDocuments,
                mediainfo |-> MediaInfoDocuments]
=============================================================================
