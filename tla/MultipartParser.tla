--------------------------- MODULE MultipartParser ---------------------------
(***************************************************************************)
(* The parser of multipart bodies (src/libapreq2/library/                  *)
(* parser_multipart.c).  It searches the buckets for the boundary, runs    *)
(* the header parser on the head of each part and collects a parameter or  *)
(* an upload from its body; a part that is itself multipart/mixed goes to  *)
(* an inner parser of the same kind.  Bytes above 255 stand for whole      *)
(* words: header names and values, whose attributes AttrOf gives (they are *)
(* what apreq_header_attribute finds in them, <<>> when it finds nothing). *)
(***************************************************************************)
EXTENDS HeaderParser

CONSTANTS AttrOf,        \* header value -> its attributes
          BrigadeLimit   \* parser->brigade_limit

DISPOSITION == <<301>>
TYPE == <<302>>
ID == <<303>>
NoAttr == [name |-> <<>>, filename |-> <<>>, boundary |-> <<>>, mixed |-> FALSE]
Attributes(v) == IF v \in DOMAIN AttrOf THEN AttrOf[v] ELSE NoAttr

(* apr_table_get: <<>> or <<the first value of the header>>.               *)
Header(info, name) ==
  LET S == {i \in DOMAIN info : info[i].name = name}
  IN IF S = {} THEN <<>> ELSE <<info[Min(S)].value>>

(***************************************************************************)
(* The boundary                                                            *)
(***************************************************************************)
(* brigade_start_string: the brigade starts with a string, does not, or is *)
(* too short to tell (also when the string is all there is).               *)
brigade_start_string(bb, eos, str) ==
  LET d == Content(bb)
      n == Min({Len(d), Len(str)})
  IN IF SubSeq(d, 1, n) # SubSeq(str, 1, n) THEN APREQ_ERROR_GENERAL
     ELSE IF n = Len(str) /\ (Len(bb) > Len(TakeBytes(bb, n)) \/ eos) THEN APR_SUCCESS
     ELSE IF eos THEN APR_EOF ELSE APR_INCOMPLETE

(* split_on_bdry: the bucket k is compared with what the buckets before it *)
(* leave of the boundary (off bytes have matched).  On a mismatch they all *)
(* go to out and the bucket is looked at again by itself.                  *)
RECURSIVE SplitFrom(_, _, _, _, _, _)
SplitFrom(out, in, eos, bdry, k, off) ==
  LET buf  == in[k]
      left == Len(bdry) - off
      n    == Min({Len(buf), left})
      idx  == apreq_index(buf, bdry, FALSE)
  IN IF k > Len(in)
     THEN [st |-> IF eos THEN APR_EOF ELSE APR_INCOMPLETE, out |-> out, in |-> in]
     ELSE IF SubSeq(bdry, off + 1, off + n) = SubSeq(buf, 1, n)
     THEN IF Len(buf) >= left
          THEN [st |-> APR_SUCCESS, out |-> out,
                in |-> NonEmpty(<<From(buf, left + 1)>> \o From(in, k + 1))]
          ELSE SplitFrom(out, in, eos, bdry, k + 1, off + Len(buf))
     ELSE IF off > 0
     THEN SplitFrom(out \o SubSeq(in, 1, k - 1), From(in, k), eos, bdry, 1, 0)
     ELSE IF idx = 0 THEN SplitFrom(Append(out, buf), Tail(in), eos, bdry, 1, 0)
     ELSE SplitFrom(Append(out, SubSeq(buf, 1, idx - 1)),
                    <<From(buf, idx)>> \o Tail(in), eos, bdry, 1, 0)
(* Mutant: what matched of the boundary at the end of the buckets is taken *)
(* for data.                                                               *)
ForgetsPartialMatch(out, in, eos, bdry) ==
  LET s == SplitFrom(out, in, eos, bdry, 1, 0)
  IN IF s.st = APR_SUCCESS THEN s ELSE [s EXCEPT !.out = @ \o s.in, !.in = <<>>]
split_on_bdry(out, in, eos, bdry) == SplitFrom(out, in, eos, bdry, 1, 0)

(***************************************************************************)
(* The parser.  form: this context belongs to the outer parser, which has  *)
(* an inner one; name: <<>> (NULL) or <<the parameter's name>>; upload:    *)
(* <<>> or <<the upload being read>>; inner: <<>> or <<the context of the  *)
(* multipart/mixed part>>.                                                 *)
(***************************************************************************)
create_multipart_context(boundary, form, name) ==
  [st |-> "MFD_INIT", bdry |-> <<CR, LF, DASH, DASH>> \o boundary, in |-> <<>>, bb |-> <<>>,
   info |-> <<>>, hdr |-> HdrInit, form |-> form, name |-> name, upload |-> <<>>, inner |-> <<>>]

MakeParam(name, data, up) ==
  [name |-> name, data |-> data, charset |-> ASCII, up |-> up, upload |-> EmptySpool]

(* What a run of the parser hands back: context, table, status, the bytes  *)
(* returned to the caller's brigade, room in the temporary directory.      *)
Result(ctx, t, rv, rest, room) ==
  [ctx |-> ctx, t |-> t, rv |-> rv, rest |-> rest, room |-> room]
(* The status of a pass that goes to mfd_parse_brigade for another one.    *)
AGAIN == -2

(* MFD_POST_HEADER: what the part is, from its headers.                    *)
PostHeader(ctx) ==
  LET cd == Header(ctx.info, DISPOSITION)
      at == Attributes(cd[1])
      ct == Header(ctx.info, TYPE)
      mt == Attributes(ct[1])
      id == Header(ctx.info, ID)
      upload(name, file) == [ctx EXCEPT !.st = "MFD_UPLOAD", !.upload = <<MakeParam(name, file, TRUE)>>]
      bad == [ctx EXCEPT !.st = "MFD_ERROR"]
  IN IF cd = <<>>
     THEN IF id = <<>> THEN bad ELSE upload(id[1], <<>>)
     ELSE IF ~ctx.form
     THEN IF at.filename = <<>> THEN [ctx EXCEPT !.st = "MFD_PARAM"]
          ELSE IF ctx.name = <<>> THEN [ctx EXCEPT !.st = "CRASHED"]
          ELSE upload(ctx.name[1], at.filename[1])
     ELSE IF at.name = <<>> THEN bad
     ELSE IF at.filename # <<>> THEN upload(at.name[1], at.filename[1])
     ELSE IF ct # <<>> /\ mt.mixed
     THEN IF mt.boundary = <<>> THEN bad
          ELSE [ctx EXCEPT !.st = "MFD_MIXED",
                           !.inner = <<create_multipart_context(mt.boundary[1], FALSE, at.name)>>]
     ELSE [ctx EXCEPT !.st = "MFD_PARAM", !.name = at.name]

(* hook: what the hooks of the parser do to an upload (parser.c):          *)
(* apreq_hook_disable_uploads refuses it, apreq_hook_discard_brigade       *)
(* throws its bytes away.  (Its cleanup of the brigade also frees the      *)
(* parser's own EOS bucket, ctx->eos, which the next upload would be given *)
(* again: not modelled, a body with this hook has one upload here.)        *)
HookRefuses(hook) == hook = "disable_uploads"
HookKeeps(hook, bb) == IF hook = "discard_brigade" THEN <<>> ELSE bb

(***************************************************************************)
(* One pass of the switch for each status of the context: x is the Result  *)
(* so far.                                                                 *)
(***************************************************************************)
Preamble(x, s) ==
  IF s.st # APR_SUCCESS
  THEN [x EXCEPT !.ctx.in = s.in, !.ctx.bb = s.out, !.rv = s.st]
  ELSE [x EXCEPT !.ctx.st = "MFD_NEXTLINE", !.ctx.in = s.in, !.ctx.bb = <<>>,
                 !.rest = @ \o s.out]
MfdInit(x, eos) == Preamble(x, split_on_bdry(x.ctx.bb, x.ctx.in, eos, From(x.ctx.bdry, 3)))

(* The rest of the boundary's line: anything on it ends the body.          *)
RestOfLine(x, s) ==
  IF s.st # APR_SUCCESS
  THEN [x EXCEPT !.ctx.in = s.in, !.ctx.bb = s.out, !.rv = s.st]
  ELSE IF s.out # <<>>
  THEN [x EXCEPT !.ctx.st = "MFD_COMPLETE", !.ctx.in = <<>>, !.ctx.bb = s.out,
                 !.rest = @ \o s.in, !.rv = APR_SUCCESS]
  ELSE [x EXCEPT !.ctx.st = "MFD_HEADER", !.ctx.in = s.in, !.ctx.info = <<>>,
                 !.ctx.hdr = HdrInit]
MfdNextline(x, eos) == RestOfLine(x, split_on_bdry(x.ctx.bb, x.ctx.in, eos, <<CR, LF>>))

WithHead(x, h) ==
  LET st == IF h.rv = APR_SUCCESS THEN "MFD_POST_HEADER"
            ELSE IF h.rv = APR_INCOMPLETE THEN "MFD_HEADER" ELSE "MFD_ERROR"
  IN [x EXCEPT !.ctx = [@ EXCEPT !.st = st, !.hdr = h.ctx, !.info = h.t, !.in = h.rest],
               !.rv = IF h.rv = APR_SUCCESS THEN AGAIN ELSE h.rv]
MfdHeader(x, eos) == WithHead(x, apreq_parse_headers(x.ctx.hdr, x.ctx.in, eos, x.ctx.info))

WithPart(x, post) ==
  [x EXCEPT !.ctx = post,
            !.rv = IF post.st = "MFD_ERROR" THEN APREQ_ERROR_GENERAL
                   ELSE IF post.st = "CRASHED" THEN ABORTED ELSE AGAIN]
(* Mutant: a part without a body is not recognized.                        *)
IgnoresMissingBody(x, eos) == WithPart(x, PostHeader(x.ctx))
(* A boundary right after the head gets the CR LF it is searched with.     *)
MfdPostHeader(x, eos) ==
  LET front == brigade_start_string(x.ctx.in, eos, From(x.ctx.bdry, 3))
  IN IF front = APR_INCOMPLETE THEN [x EXCEPT !.rv = APR_INCOMPLETE]
     ELSE WithPart(x, PostHeader([x.ctx EXCEPT
            !.in = IF front = APR_SUCCESS THEN <<<<CR, LF>>>> \o @ ELSE @]))

WithValue(x, s) ==
  LET c == [x.ctx EXCEPT !.in = s.in, !.bb = s.out]
  IN IF s.st = APR_INCOMPLETE THEN [x EXCEPT !.ctx = c, !.rv = s.st]
     ELSE IF s.st # APR_SUCCESS
     THEN [x EXCEPT !.ctx = [c EXCEPT !.st = "MFD_ERROR"], !.rv = s.st]
     ELSE IF c.name = <<>>
     THEN [x EXCEPT !.ctx = [c EXCEPT !.st = "CRASHED"], !.rv = ABORTED]
     ELSE [x EXCEPT !.ctx = [c EXCEPT !.st = "MFD_NEXTLINE", !.name = <<>>, !.bb = <<>>],
                    !.t = Append(@, MakeParam(c.name[1], Content(s.out), FALSE))]

MfdParam(x, eos) == WithValue(x, split_on_bdry(x.ctx.bb, x.ctx.in, eos, x.ctx.bdry))

(* The bytes of an upload go through the hooks into its spool brigade as   *)
(* they come.                                                              *)
Kept(x, s, k) ==
  LET file == [x.ctx.upload[1] EXCEPT !.upload = k.out]
      went == [x EXCEPT !.ctx = [@ EXCEPT !.in = s.in, !.bb = <<>>, !.upload = <<file>>],
                        !.t = IF s.st = APR_SUCCESS THEN Append(@, file) ELSE @,
                        !.room = k.room]
  IN IF k.rv # APR_SUCCESS THEN [went EXCEPT !.rv = k.rv]
     ELSE IF s.st = APR_INCOMPLETE THEN [went EXCEPT !.rv = APR_INCOMPLETE]
     ELSE [went EXCEPT !.ctx.st = "MFD_NEXTLINE"]
WithBytes(x, s, hook) ==
  LET bad(rv) == [x EXCEPT !.ctx.st = "MFD_ERROR", !.rv = rv]
  IN IF s.st \notin {APR_SUCCESS, APR_INCOMPLETE} THEN bad(s.st)
     ELSE IF HookRefuses(hook) THEN bad(APREQ_ERROR_GENERAL)
     ELSE Kept(x, s, apreq_brigade_concat(BrigadeLimit, x.ctx.upload[1].upload,
                                          HookKeeps(hook, s.out), FALSE, x.room))
MfdUpload(x, eos, hook) == WithBytes(x, split_on_bdry(x.ctx.bb, x.ctx.in, eos, x.ctx.bdry), hook)

(* mix: the run of the inner parser on what this one has read.             *)
MfdMixed(x, mix) ==
  LET c == [x.ctx EXCEPT !.in = IF mix.rv = APR_INCOMPLETE THEN <<>> ELSE mix.rest,
                         !.inner = <<mix.ctx>>,
                         !.st = IF mix.rv = APR_SUCCESS THEN "MFD_INIT"
                                ELSE IF mix.rv = APR_INCOMPLETE THEN @ ELSE "MFD_ERROR"]
  IN [x EXCEPT !.ctx = c, !.t = mix.t, !.room = mix.room,
               !.rv = IF mix.rv = APR_SUCCESS THEN AGAIN ELSE mix.rv]

(* mfd_parse_brigade: passes until one returns.                            *)
RECURSIVE Mfd(_, _, _)
MfdPass(x, eos, hook) ==
  LET c == x.ctx
  IN CASE c.st = "MFD_INIT"        -> MfdInit(x, eos)
       [] c.st = "MFD_NEXTLINE"    -> MfdNextline(x, eos)
       [] c.st = "MFD_HEADER"      -> MfdHeader(x, eos)
       [] c.st = "MFD_POST_HEADER" -> MfdPostHeader(x, eos)
       [] c.st = "MFD_PARAM"       -> MfdParam(x, eos)
       [] c.st = "MFD_UPLOAD"      -> MfdUpload(x, eos, hook)
       [] c.st = "MFD_MIXED"       ->
            MfdMixed(x, Mfd(Result([c.inner[1] EXCEPT !.in = @ \o c.in], x.t, AGAIN, <<>>, x.room),
                            eos, hook))
Mfd(x, eos, hook) == IF x.rv # AGAIN THEN x ELSE Mfd(MfdPass(x, eos, hook), eos, hook)

(* apreq_parse_multipart.                                                  *)
apreq_parse_multipart(ctx, bb, eos, hook, t, room) ==
  CASE ctx.st = "MFD_ERROR" -> Result(ctx, t, APREQ_ERROR_GENERAL, bb, room)
    [] ctx.st = "MFD_COMPLETE" -> Result(ctx, t, APR_SUCCESS, bb, room)
    [] OTHER -> Mfd(Result([ctx EXCEPT !.in = @ \o bb], t, AGAIN, <<>>, room), eos, hook)
=============================================================================
