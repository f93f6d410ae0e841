---------------------------- MODULE MCGetObject ----------------------------
(* Requests for the runs of GetObject: files of up to three and a half parts. *)
EXTENDS GetObject

CONSTANT MaxSize

Whole == [size : 0 .. MaxSize, offset : {0}, max : {MaxSize + 1}]

\* Less than what is left of the file is asked for.
Inside == {r \in [size : 0 .. MaxSize, offset : 0 .. MaxSize, max : 1 .. MaxSize] :
             r.offset + r.max < r.size}

\* Everything from an offset to the end of the file.
ToTheEnd == {r \in [size : 1 .. MaxSize, offset : 1 .. MaxSize, max : {MaxSize + 1}] :
               r.offset < r.size}

WholeOrInside == Whole \cup Inside
=============================================================================
