------------------------------- MODULE Brigade -------------------------------
(***************************************************************************)
(* Bucket brigades as the parsers of libapreq2 use them.  The data of a    *)
(* brigade is a sequence of buckets, each a non-empty sequence of bytes;   *)
(* whether an EOS bucket follows is kept beside it.  A spool brigade       *)
(* (src/libapreq2/library/util.c) keeps its first bytes on the heap and,   *)
(* once they reach a limit, everything in a temporary file of which its    *)
(* last bucket is a window.                                                *)
(***************************************************************************)
EXTENDS ApreqUtil

Content(bb) == FlattenSeq(bb)
NonEmpty(bb) == SelectSeq(bb, LAMBDA b : b # <<>>)

(* The first n bytes of a brigade and the rest, in buckets: what           *)
(* apr_bucket_split and apr_brigade_partition do.                          *)
RECURSIVE TakeBytes(_, _)
TakeBytes(bb, n) ==
  IF n <= 0 \/ bb = <<>> THEN <<>>
  ELSE IF Len(bb[1]) <= n THEN <<bb[1]>> \o TakeBytes(Tail(bb), n - Len(bb[1]))
  ELSE <<SubSeq(bb[1], 1, n)>>
RECURSIVE DropBytes(_, _)
DropBytes(bb, n) ==
  IF n <= 0 \/ bb = <<>> THEN bb
  ELSE IF Len(bb[1]) <= n THEN DropBytes(Tail(bb), n - Len(bb[1]))
  ELSE <<From(bb[1], n + 1)>> \o Tail(bb)
SplitAt(bb, n) == TakeBytes(bb, n) \o DropBytes(bb, n)

(***************************************************************************)
(* Spool brigades.  start and length are those of the spool bucket, room   *)
(* the number of bytes the temporary directory still takes (NoTempDir when *)
(* no file can be made in it).                                             *)
(***************************************************************************)
NoTempDir == -1
EmptySpool == [heap |-> <<>>, spooled |-> FALSE, file |-> <<>>, start |-> 0,
               length |-> 0, eos |-> FALSE]
SpoolContent(b) == b.heap \o SubSeq(b.file, b.start + 1, b.start + b.length)
SpoolLen(b) == Len(b.heap) + b.length

(* apreq_brigade_fwrite at an offset: as much as there is room for.        *)
apreq_brigade_fwrite(file, at, data, room) ==
  LET w == SubSeq(data, 1, Min({Len(data), room}))
  IN [ok   |-> Len(data) <= room,
      file |-> SubSeq(file, 1, at) \o w \o From(file, at + Len(w) + 1),
      room |-> room - Len(w)]

(* Mutant: the bytes on the heap are not copied to the new file.           *)
SpoolsTheRest(b, room) ==
  IF room = NoTempDir THEN [ok |-> FALSE, b |-> b, room |-> room]
  ELSE [ok |-> TRUE, room |-> room, b |-> [b EXCEPT !.spooled = TRUE]]
(* The brigade with a spool bucket at its end: a file made by              *)
(* apreq_file_mktemp holds a copy of the heap bytes, and the bucket an     *)
(* empty window behind them.                                               *)
MakeSpool(b, room) ==
  LET w == apreq_brigade_fwrite(<<>>, 0, b.heap, room)
  IN IF b.spooled THEN [ok |-> TRUE, b |-> b, room |-> room]
     ELSE IF room = NoTempDir THEN [ok |-> FALSE, b |-> b, room |-> room]
     ELSE IF ~w.ok THEN [ok |-> FALSE, b |-> b, room |-> w.room]
     ELSE [ok |-> TRUE, room |-> w.room,
           b |-> [b EXCEPT !.spooled = TRUE, !.file = w.file, !.start = Len(b.heap)]]

(* apreq_brigade_concat(limit, out, in): [rv, out, room].                  *)
SpoolWritten(b, w, n, eos) ==
  IF w.ok THEN [rv |-> APR_SUCCESS, room |-> w.room,
                out |-> [b EXCEPT !.file = w.file, !.length = @ + n, !.eos = eos]]
  ELSE [rv |-> APREQ_ERROR_GENERAL, out |-> [b EXCEPT !.file = w.file], room |-> w.room]
Spooled(s, data, eos) ==
  IF ~s.ok THEN [rv |-> APREQ_ERROR_GENERAL, out |-> s.b, room |-> s.room]
  ELSE SpoolWritten(s.b, apreq_brigade_fwrite(s.b.file, s.b.start + s.b.length, data, s.room),
                    Len(data), eos)
apreq_brigade_concat(limit, out, in, eos, room) ==
  LET data == Content(in)
  IN IF out.eos THEN [rv |-> APR_EOF, out |-> out, room |-> room]
     ELSE IF SpoolLen(out) + Len(data) < limit
     THEN [rv |-> APR_SUCCESS, room |-> room,
           out |-> [out EXCEPT !.heap = @ \o data, !.eos = eos]]
     ELSE Spooled(MakeSpool(out, room), data, eos)

(* apreq_brigade_spoolfile: the temporary file, when the last bucket is    *)
(* the spool bucket.                                                       *)
apreq_brigade_spoolfile(b) == IF b.spooled /\ ~b.eos THEN b.file ELSE <<>>
=============================================================================
