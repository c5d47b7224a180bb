------------------------------ MODULE FormBody ------------------------------
(***************************************************************************)
(* A request body on its way through one of the parsers of libapreq2.  The *)
(* network cuts it where it likes: every call of the parser gets a brigade *)
(* of one or two buckets, the end of the body (EOS) comes with the last    *)
(* bytes or after them, and the caller calls again for as long as the      *)
(* parser answers APR_INCOMPLETE (the loops of apache2_body, cgi_body and  *)
(* custom_body).  Parser functions that are not multipart or urlencoded    *)
(* are in parser.c and modelled here.                                      *)
(***************************************************************************)
EXTENDS UrlencodedParser, MultipartParser

CONSTANTS Jobs,      \* the bodies: [kind, body, hook, room, form]
          Boundary,  \* boundary of the Content-Type header
          MaxCuts    \* bound on the cuts of one body

VARIABLES job,    \* what is parsed: a member of Jobs
          pos,    \* bytes of the body delivered
          cuts,   \* cuts made so far
          eos,    \* EOS has been delivered
          parser, \* parser->ctx
          t,      \* the table of parameters
          room,   \* bytes the temporary directory still takes
          rv      \* status of the last call
vars == <<job, pos, cuts, eos, parser, t, room, rv>>

(***************************************************************************)
(* parser.c: the generic parser and its hooks                              *)
(***************************************************************************)
GenInit == [st |-> "GEN_INCOMPLETE", upload |-> EmptySpool, fed |-> <<>>, xml |-> "XML_INCOMPLETE"]

(* apr_xml_parser_feed and _done, external: zero is in no document, and an *)
(* empty one is no document.                                               *)
XmlFeedOk(d) == 0 \notin Range(d)
XmlDoneOk(d) == d # <<>>

(* The hook of the generic parser: status, what it leaves of the brigade,  *)
(* and the XML parser's state.                                             *)
GenHook(ctx, hook, bb, end) ==
  LET d  == Content(bb)
      ok == XmlFeedOk(d) /\ (end => XmlDoneOk(ctx.fed \o d))
  IN CASE hook = "disable_uploads" -> [st |-> APREQ_ERROR_GENERAL, bb |-> bb, end |-> end, xml |-> ctx.xml]
       [] hook = "discard_brigade" -> [st |-> APR_SUCCESS, bb |-> <<>>, end |-> FALSE, xml |-> ctx.xml]
       [] hook = "xml" ->
            [st |-> IF ok THEN APR_SUCCESS ELSE APREQ_ERROR_GENERAL, bb |-> bb, end |-> end,
             xml |-> IF ~ok THEN "XML_ERROR" ELSE IF end THEN "XML_COMPLETE" ELSE ctx.xml]
       [] OTHER -> [st |-> APR_SUCCESS, bb |-> bb, end |-> end, xml |-> ctx.xml]

GenSpooled(ctx, c, xml, bb, end, tab) ==
  IF c.rv # APR_SUCCESS
  THEN Result([ctx EXCEPT !.st = "GEN_ERROR", !.xml = xml, !.upload = c.out],
              tab, c.rv, <<>>, c.room)
  ELSE Result([st |-> IF end THEN "GEN_COMPLETE" ELSE ctx.st, upload |-> c.out,
               fed |-> ctx.fed \o Content(bb), xml |-> xml],
              tab, IF end THEN APR_SUCCESS ELSE APR_INCOMPLETE, <<>>, c.room)
GenHooked(ctx, h, bb, end, tab, space) ==
  IF h.st # APR_SUCCESS
  THEN Result([ctx EXCEPT !.st = "GEN_ERROR", !.xml = h.xml], tab, h.st, <<>>, space)
  ELSE GenSpooled(ctx, apreq_brigade_concat(BrigadeLimit, ctx.upload, h.bb, h.end, space),
                  h.xml, bb, end, tab)
apreq_parse_generic(ctx, bb, end, hook, tab, space) ==
  CASE ctx.st = "GEN_ERROR" -> Result(ctx, tab, APREQ_ERROR_GENERAL, <<>>, space)
    [] ctx.st = "GEN_COMPLETE" -> Result(ctx, tab, APR_SUCCESS, <<>>, space)
    [] OTHER -> GenHooked(ctx, GenHook(ctx, hook, bb, end), bb, end, tab, space)

(* apreq_parser_run: the function the Content-Type chose.                  *)
NewParser(j) ==
  CASE j.kind = "urlencoded" -> UrlInit
    [] j.kind = "multipart"  -> create_multipart_context(Boundary, TRUE, <<>>)
    [] j.kind = "generic"    -> GenInit
FromUrlencoded(x, space) == Result(x.ctx, x.t, x.rv, <<>>, space)
apreq_parser_run(j, ctx, bb, end, tab, space) ==
  CASE j.kind = "urlencoded" -> FromUrlencoded(apreq_parse_urlencoded(ctx, bb, end, tab), space)
    [] j.kind = "multipart" -> apreq_parse_multipart(ctx, bb, end, j.hook, tab, space)
    [] j.kind = "generic"   -> apreq_parse_generic(ctx, bb, end, j.hook, tab, space)

(***************************************************************************)
(* Behaviour                                                               *)
(***************************************************************************)
Init ==
  /\ job \in Jobs
  /\ pos = 0 /\ cuts = 0 /\ eos = FALSE
  /\ parser = NewParser(job)
  /\ t = <<>>
  /\ room = job.room
  /\ rv = APR_INCOMPLETE

(* One call of the parser with the given buckets.                          *)
Returned(x) == parser' = x.ctx /\ t' = x.t /\ rv' = x.rv /\ room' = x.room
Call(bb, end) ==
  /\ Returned(apreq_parser_run(job, parser, bb, end, t, room))
  /\ eos' = end
  /\ UNCHANGED job

(* n bytes arrive as one bucket, m more (if any) as a second one; without  *)
(* a cut left, the whole rest arrives.                                     *)
Arrive(n, m, end) ==
  LET left == Len(job.body) - pos
      made == (IF m = 0 THEN 0 ELSE 1) + (IF n + m = left THEN 0 ELSE 1)
  IN /\ rv = APR_INCOMPLETE /\ ~eos /\ left > 0
     /\ n + m <= left
     /\ cuts + made <= MaxCuts
     /\ end => n + m = left
     /\ pos' = pos + n + m
     /\ cuts' = cuts + made
     /\ Call(NonEmpty(<<SubSeq(job.body, pos + 1, pos + n),
                        SubSeq(job.body, pos + n + 1, pos + n + m)>>), end)

(* The end of the body arrives by itself.                                  *)
ArriveEnd ==
  /\ rv = APR_INCOMPLETE /\ ~eos /\ pos = Len(job.body)
  /\ Call(<<>>, TRUE)
  /\ UNCHANGED <<pos, cuts>>

(* Nothing is left to read, and the parser still says APR_INCOMPLETE.      *)
CallAgain ==
  /\ rv = APR_INCOMPLETE /\ eos
  /\ Call(<<>>, TRUE)
  /\ UNCHANGED <<pos, cuts>>

Next ==
  \/ \E n \in 1 .. Len(job.body), m \in 0 .. Len(job.body), end \in BOOLEAN : Arrive(n, m, end)
  \/ ArriveEnd
  \/ CallAgain
Spec == Init /\ [][Next]_vars

(***************************************************************************)
(* Properties                                                              *)
(***************************************************************************)
Finished == rv # APR_INCOMPLETE

(* What a caller sees of a table: names, values, bytes of uploads.         *)
Seen(tab) == [i \in DOMAIN tab |->
  [name |-> tab[i].name, data |-> tab[i].data, up |-> tab[i].up,
   bytes |-> SpoolContent(tab[i].upload), charset |-> tab[i].charset]]

(* The outcome of the same body in one piece, called again if need be.     *)
RECURSIVE Whole(_, _, _)
Whole(j, x, n) ==
  IF x.rv # APR_INCOMPLETE \/ n = 0 THEN x
  ELSE Whole(j, apreq_parser_run(j, x.ctx, <<>>, TRUE, x.t, x.room), n - 1)
WholeOutcome(j) ==
  Whole(j, apreq_parser_run(j, NewParser(j), NonEmpty(<<j.body>>), TRUE, <<>>, j.room), 2)
SameAs(x) == rv = x.rv /\ (job.room >= Len(job.body) => Seen(t) = Seen(x.t))

(* The cuts of the network do not show: a body gives the same status and,  *)
(* unless the temporary directory fails, the same parameters however it    *)
(* arrives, whatever buckets a delimiter, an escape, a header or a file's  *)
(* bytes fall into.                                                        *)
ChunkingIrrelevant ==
  Finished => SameAs(WholeOutcome(job))

(* Parsing undoes what a browser does: a body made from a form gives the   *)
(* form's parameters, in their order, with the names, file names and bytes *)
(* that were put in, those of multipart/mixed parts included; it fails     *)
(* only where a hook or the temporary directory refuses.                   *)
FormRecovered ==
  (Finished /\ job.form # <<>>) =>
     IF rv = APR_SUCCESS
     THEN /\ Seen(t) = job.form[1]
          /\ Seen(apreq_uploads(t)) = SelectSeq(job.form[1], LAMBDA p : p.up)
     ELSE rv = APREQ_ERROR_GENERAL /\ (job.hook = "disable_uploads" \/ job.room < Len(job.body))

(* mod_R gives R the name of the spool file of an upload (tmp_name): the   *)
(* file holds all of the upload, and every upload that reaches the limit   *)
(* has one.                                                                *)
SpoolFileWhole ==
  rv \in {APR_SUCCESS, APR_INCOMPLETE} =>
    \A p \in Range(t) :
      IF p.upload.spooled THEN apreq_brigade_spoolfile(p.upload) = SpoolContent(p.upload)
      ELSE SpoolLen(p.upload) < BrigadeLimit

(* The assertions of split_header_line hold.  The code does not have this: *)
(* a continued header fails one.  (ABORTED is also what a measured NULL    *)
(* name ends in, which the bodies of the runs do not have.)                *)
NeverAborts == rv # ABORTED

(* Every body is decided: a parser that still says APR_INCOMPLETE when the *)
(* body is over does not say so a second time, so the loops of the callers *)
(* end.                                                                    *)
EndDecides ==
  (eos /\ ~Finished) => apreq_parser_run(job, parser, <<>>, TRUE, t, room).rv # APR_INCOMPLETE
=============================================================================
