---------------------------- MODULE HeaderParser ----------------------------
(***************************************************************************)
(* The parser of MIME header blocks (src/libapreq2/library/                *)
(* parser_header.c).  It counts the bytes of name, gap and value of a      *)
(* line, splits the buckets where the three meet, and lets                 *)
(* split_header_line consume whole buckets against the three counts under  *)
(* assertions: a failed assertion ends the process (ABORTED).              *)
(***************************************************************************)
EXTENDS Brigade

ABORTED == -1
HdrInit == [st |-> "HDR_NAME", bb |-> <<>>]

(* One pass over the bytes of a line.  i is the next byte, value the first *)
(* byte of the value (0: none seen); the states are the code's, LINE the   *)
(* point where a line is known to have ended before byte i.                *)
LineStart == [i |-> 1, st |-> "HDR_NAME", nlen |-> 0, glen |-> 0, vlen |-> 0, value |-> 0]
HdrByte(x, c) ==
  LET blank == c \in {SP, TAB}
      to(st, dn, dg, dv) ==
        [x EXCEPT !.i = @ + 1, !.st = st, !.nlen = @ + dn, !.glen = @ + dg, !.vlen = @ + dv]
  IN CASE x.st = "HDR_NAME" ->
            IF c = LF THEN to("HDR_COMPLETE", 0, 0, 0)
            ELSE IF c = COLON THEN to("HDR_GAP", 0, 1, 0)
            ELSE to("HDR_NAME", 1, 0, 0)
       [] x.st = "HDR_GAP" ->
            IF blank THEN to("HDR_GAP", 0, 1, 0)
            ELSE IF c = LF THEN to("HDR_NEWLINE", 0, 0, 0)
            ELSE [to("HDR_VALUE", 0, 0, 1) EXCEPT !.value = x.i]
       [] x.st = "HDR_VALUE" ->
            to(IF c = LF THEN "HDR_NEWLINE" ELSE "HDR_VALUE", 0, 0, 1)
       [] x.st = "HDR_NEWLINE" ->
            IF blank THEN to("HDR_CONTINUE", 0, 0, 2) ELSE [x EXCEPT !.st = "LINE"]
       [] x.st = "HDR_CONTINUE" ->
            IF blank THEN to("HDR_CONTINUE", 0, 0, 1)
            ELSE IF c = LF THEN to("HDR_NEWLINE", 0, 0, 0)
            ELSE to("HDR_VALUE", 0, 0, 1)

RECURSIVE ScanLine(_, _)
ScanLine(d, x) ==
  IF x.st \in {"HDR_COMPLETE", "LINE"} \/ x.i > Len(d) THEN x
  ELSE ScanLine(d, HdrByte(x, d[x.i]))

(* Whole buckets from the k-th on that make up n bytes: the first one      *)
(* behind them, or 0 when one is larger than what is left of n.            *)
RECURSIVE Consume(_, _, _)
Consume(bb, k, n) ==
  IF n = 0 THEN k
  ELSE IF k > Len(bb) \/ k = 0 THEN 0
  ELSE IF Len(bb[k]) > n THEN 0
  ELSE Consume(bb, k + 1, n - Len(bb[k]))

split_header_line(bb, nlen, glen, vlen) ==
  LET g   == Consume(bb, 1, nlen)
      v   == Consume(bb, g, glen)
      e   == Consume(bb, v, vlen)
      val == Content(SubSeq(bb, v, e - 1))
      n   == Len(val)
      cut == IF n > 1 /\ val[n - 1] = CR THEN n - 2 ELSE n - 1
  IN IF nlen = 0 THEN [st |-> APR_EBADARG]
     ELSE IF g = 0 \/ v = 0 \/ vlen = 0 \/ e = 0 THEN [st |-> ABORTED]
     ELSE IF val[n] # LF THEN [st |-> ABORTED]
     ELSE [st |-> APR_SUCCESS, rest |-> From(bb, e),
           header |-> [name |-> Content(SubSeq(bb, 1, g - 1)), value |-> SubSeq(val, 1, cut)]]

(* The lines of the brigade, until the one that ends the block.            *)
RECURSIVE HdrLines(_, _, _)
AddHeader(l, bb, eos, t) ==
  IF l.st = APR_SUCCESS THEN HdrLines(l.rest, eos, Append(t, l.header))
  ELSE [st |-> "HDR_ERROR", t |-> t, bb |-> bb, rv |-> l.st, rest |-> <<>>]
HdrLine(x, bb, eos, t) ==
  LET b1 == SplitAt(SplitAt(bb, x.nlen), x.i - 1)
  IN CASE x.st = "HDR_COMPLETE" ->
            [st |-> x.st, t |-> t, bb |-> <<>>, rv |-> APR_SUCCESS, rest |-> DropBytes(bb, x.i - 1)]
       [] x.st = "LINE" ->
            AddHeader(split_header_line(IF x.value = 0 THEN b1 ELSE SplitAt(b1, x.value - 1),
                                        x.nlen, x.glen, x.vlen), bb, eos, t)
       [] OTHER ->
            IF eos THEN [st |-> "HDR_COMPLETE", t |-> t, bb |-> <<>>, rv |-> APR_SUCCESS, rest |-> bb]
            ELSE [st |-> x.st, t |-> t, bb |-> bb, rv |-> APR_INCOMPLETE, rest |-> <<>>]
HdrLines(bb, eos, t) == HdrLine(ScanLine(Content(bb), LineStart), bb, eos, t)

(* apreq_parse_headers: [ctx, t, rv, rest], rest being what the call gives *)
(* back in the caller's brigade.                                           *)
ParsedHeaders(x) ==
  [ctx |-> [st |-> x.st, bb |-> x.bb], t |-> x.t, rv |-> x.rv, rest |-> x.rest]
apreq_parse_headers(ctx, bb, eos, t) ==
  CASE ctx.st = "HDR_ERROR" ->
         [ctx |-> ctx, t |-> t, rv |-> APREQ_ERROR_GENERAL, rest |-> bb]
    [] ctx.st = "HDR_COMPLETE" -> [ctx |-> ctx, t |-> t, rv |-> APR_SUCCESS, rest |-> bb]
    [] OTHER -> ParsedHeaders(HdrLines(ctx.bb \o bb, eos, t))
=============================================================================
