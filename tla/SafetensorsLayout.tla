-------------------------- MODULE SafetensorsLayout --------------------------
(***************************************************************************)
(* inspect_safetensors: read the header of a checkpoint and decide whether *)
(* its tensors account for every byte of the data behind it, without       *)
(* reading that data.  The size comes from stat and the header from a      *)
(* later open, so the two may be of different files.  The loops over the   *)
(* records and over the sorted byte ranges take one step for each turn.    *)
(*                                                                         *)
(* A content is one byte string, told by what the code reads of it: its    *)
(* size, the header length in its first eight bytes, and the pairs of the  *)
(* JSON text in the header, in the order of the file.                      *)
(***************************************************************************)
EXTENDS Integers, Sequences

CONSTANTS
    Contents,        \* the byte strings of this instance
    Missing,         \* what a path without a readable file holds
    MaxHeaderBytes   \* MAX_SAFETENSORS_HEADER_BYTES

PrefixBytes == 8

(***************************************************************************)
(* A pair of the header.  valid says that the value has the expected JSON  *)
(* types (an object with a string, a list of naturals and two integers);   *)
(* width is the size of one element, zero for a dtype that is not known.   *)
(***************************************************************************)
Entry == [name: STRING, valid: BOOLEAN, width: Nat, shape: Seq(Nat),
          start: Int, end: Int]
Content == [size: Nat, length: Nat, json: {"object", "other", "malformed"},
            entries: Seq(Entry)]

ASSUME LayoutAssumption ==
    /\ Contents \subseteq Content
    /\ Missing \notin Contents
    /\ MaxHeaderBytes \in Nat

VARIABLES
    stage,      \* the next step of resolve and of inspect_safetensors
    size,       \* file_size, from stat
    opened,     \* the content whose header was read
    index,      \* the record the loop has reached
    placed,     \* the tensors whose ranges the second loop has passed
    expected    \* expected_start

inspection == <<size, opened, index, placed, expected>>

-----------------------------------------------------------------------------
(* What the code computes from a header                                     *)

IsMetadata(e) == e.name = "__metadata__"
Tensors(c) == {i \in 1..Len(c.entries) : ~IsMetadata(c.entries[i])}

\* element_count after each dimension
Elements(shape) ==
    LET count[n \in 0..Len(shape)] == IF n = 0 THEN 1 ELSE count[n - 1] * shape[n]
    IN  count

BytesOf(e) == Elements(e.shape)[Len(e.shape)] * e.width

\* the product is compared after each dimension, so a later zero rescues nothing
ShapeTooLarge(e, data) ==
    \E n \in 1..Len(e.shape) : Elements(e.shape)[n] * e.width > data

\* the pairs that unique_object refuses
Repeated(c) == \E i, j \in 1..Len(c.entries) : i # j /\ c.entries[i].name = c.entries[j].name

HeaderRefused(c, fileSize) ==
    \/ c.size < PrefixBytes
    \/ c.length \notin 1..MaxHeaderBytes
    \/ c.length % 8 # 0
    \/ PrefixBytes + c.length > fileSize
    \/ c.json # "object"
    \/ Repeated(c)

RecordRefused(e, data) ==
    \/ ~e.valid
    \/ /\ ~IsMetadata(e)
       /\ \/ e.name = ""
          \/ e.start < 0 \/ e.start > e.end \/ e.end > data
          \/ e.width = 0
          \/ ShapeTooLarge(e, data)
          \/ e.end - e.start # BytesOf(e)

\* data_bytes
DataBytes == size - PrefixBytes - opened.length

Remaining == Tensors(opened) \ placed

\* Mutant of Precedes: the ranges are sorted by where they start alone, the last
\* of the header first.
PrecedesByStart(i, j) ==
    \/ opened.entries[i].start < opened.entries[j].start
    \/ opened.entries[i].start = opened.entries[j].start /\ i >= j

\* the order of sorted(byte_ranges)
Precedes(i, j) ==
    \/ opened.entries[i].start < opened.entries[j].start
    \/ /\ opened.entries[i].start = opened.entries[j].start
       /\ opened.entries[i].end <= opened.entries[j].end

-----------------------------------------------------------------------------
(* The steps; c is what the path of the checkpoint leads to at that moment  *)

InspectRefuses == stage' = "refused" /\ UNCHANGED inspection

StatFile(c) ==
    /\ stage = "stat"
    /\ \/ c = Missing /\ InspectRefuses
       \/ /\ c # Missing
          /\ stage' = "open" /\ size' = c.size
          /\ UNCHANGED <<opened, index, placed, expected>>

\* prefix, header bytes and json.loads, under one open file
OpenFile(c) ==
    /\ stage = "open"
    /\ \/ c = Missing /\ InspectRefuses
       \/ /\ c # Missing /\ HeaderRefused(c, size)
          /\ stage' = "refused" /\ opened' = c
          /\ UNCHANGED <<size, index, placed, expected>>
       \/ /\ c # Missing /\ ~HeaderRefused(c, size)
          /\ stage' = "records" /\ opened' = c /\ index' = 1
          /\ UNCHANGED <<size, placed, expected>>

\* one turn of the loop over header.items()
ReadRecord ==
    /\ stage = "records"
    /\ index <= Len(opened.entries)
    /\ \/ RecordRefused(opened.entries[index], DataBytes) /\ InspectRefuses
       \/ /\ ~RecordRefused(opened.entries[index], DataBytes)
          /\ index' = index + 1
          /\ UNCHANGED <<stage, size, opened, placed, expected>>

RecordsEnd ==
    /\ stage = "records"
    /\ index > Len(opened.entries)
    /\ \/ Tensors(opened) = {} /\ InspectRefuses
       \/ /\ Tensors(opened) # {}
          /\ stage' = "ranges" /\ placed' = {} /\ expected' = 0
          /\ UNCHANGED <<size, opened, index>>

\* Mutant of PlaceRange: only an overlap is refused, a gap is not.
PlaceRangeAfterGap ==
    /\ stage = "ranges"
    /\ \E i \in Remaining :
        /\ \A j \in Remaining : Precedes(i, j)
        /\ \/ opened.entries[i].start < expected /\ InspectRefuses
           \/ /\ opened.entries[i].start >= expected
              /\ placed' = placed \cup {i} /\ expected' = opened.entries[i].end
              /\ UNCHANGED <<stage, size, opened, index>>

\* one turn of the loop over sorted(byte_ranges)
PlaceRange ==
    /\ stage = "ranges"
    /\ \E i \in Remaining :
        /\ \A j \in Remaining : Precedes(i, j)
        /\ \/ opened.entries[i].start # expected /\ InspectRefuses
           \/ /\ opened.entries[i].start = expected
              /\ placed' = placed \cup {i} /\ expected' = opened.entries[i].end
              /\ UNCHANGED <<stage, size, opened, index>>

RangesEnd ==
    /\ stage = "ranges"
    /\ Remaining = {}
    /\ stage' = IF expected = DataBytes THEN "accepted" ELSE "refused"
    /\ UNCHANGED inspection

-----------------------------------------------------------------------------
(* What a sound file is, stated without the loops                           *)

Holds(e, b) == e.start <= b /\ b < e.end

\* Every byte of the data belongs to exactly one tensor, no empty tensor lies
\* inside another one, and each tensor has the bytes that its shape asks for.
LaidOut(c, data) ==
    /\ Tensors(c) # {}
    /\ \A i \in Tensors(c) :
        LET e == c.entries[i] IN
        /\ e.name # "" /\ e.width > 0
        /\ 0 <= e.start /\ e.start <= e.end /\ e.end <= data
        /\ e.end - e.start = BytesOf(e)
    /\ \A b \in 0..(data - 1) :
        /\ \E i \in Tensors(c) : Holds(c.entries[i], b)
        /\ \A i, j \in Tensors(c) : Holds(c.entries[i], b) /\ Holds(c.entries[j], b) => i = j
    /\ \A i, j \in Tensors(c) :
        LET e == c.entries[i]  f == c.entries[j] IN
        ~(e.start = e.end /\ f.start < e.start /\ e.start < f.end)

Sound(c) ==
    /\ c.length \in 1..MaxHeaderBytes /\ c.length % 8 = 0
    /\ PrefixBytes + c.length <= c.size
    /\ c.json = "object"
    /\ ~Repeated(c)
    /\ \A i \in 1..Len(c.entries) : c.entries[i].valid
    /\ LaidOut(c, c.size - PrefixBytes - c.length)

\* The one kind of sound file that the code refuses: it has an empty tensor of which a
\* part of the shape, before the dimension that is zero, asks for more than the data,
\* such as [3, 0] in a file with no data.
LateZero(c) ==
    \E i \in Tensors(c) :
        /\ BytesOf(c.entries[i]) = 0
        /\ ShapeTooLarge(c.entries[i], c.size - PrefixBytes - c.length)
=============================================================================
