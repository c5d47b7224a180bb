----------------------------- MODULE MCFormBody -----------------------------
(***************************************************************************)
(* Bodies for FormBody: multipart bodies made from small forms whose data  *)
(* is built from the pieces a boundary is made of, urlencoded bodies made  *)
(* from words of escapes, and raw bodies for the generic parser.           *)
(***************************************************************************)
EXTENDS FormBody

CRLF == <<CR, LF>>
DASHES == <<DASH, DASH>>
Outer == <<98>>
Inner == <<99>>
NAME == <<110>>
FILE == <<102>>
OTHERBYTE == <<120>>

(* Header values and what apreq_header_attribute finds in them.            *)
FieldValue == 310   \* form-data; name="n"
FileValue  == 311   \* form-data; name="n"; filename="f"
MixedFile  == 312   \* file; filename="f"
MixedValue == 313   \* multipart/mixed; boundary=c
MCAttrOf ==
  (<<FieldValue>> :> [NoAttr EXCEPT !.name = <<NAME>>]) @@
  (<<FileValue>>  :> [NoAttr EXCEPT !.name = <<NAME>>, !.filename = <<FILE>>]) @@
  (<<MixedFile>>  :> [NoAttr EXCEPT !.filename = <<FILE>>]) @@
  (<<MixedValue>> :> [NoAttr EXCEPT !.boundary = <<Inner>>, !.mixed = TRUE])

(* RFC 2388: how a browser writes a form.                                  *)
Line(h, v) == h \o <<COLON, SP, v>> \o CRLF
Piece(bdry, head, data) == DASHES \o bdry \o CRLF \o head \o CRLF \o data \o CRLF
Close(bdry) == DASHES \o bdry \o DASHES \o CRLF
Field(d)  == Piece(Outer, Line(DISPOSITION, FieldValue), d)
File(d)   == Piece(Outer, Line(DISPOSITION, FileValue), d)
Files(ds) == Piece(Outer, Line(DISPOSITION, FieldValue) \o Line(TYPE, MixedValue),
               FlattenSeq([i \in DOMAIN ds |-> Piece(Inner, Line(DISPOSITION, MixedFile), ds[i])])
                 \o Close(Inner))
NoBody(v) == DASHES \o Outer \o CRLF \o Line(DISPOSITION, v) \o CRLF
AParam(d) == [name |-> NAME, data |-> d, up |-> FALSE, bytes |-> <<>>, charset |-> ASCII]
AFile(d)  == [name |-> NAME, data |-> FILE, up |-> TRUE, bytes |-> d, charset |-> ASCII]

Form(body, params, hook, space) ==
  [kind |-> "multipart", body |-> body \o Close(Outer), hook |-> hook, room |-> space, form |-> <<params>>]

Pieces == {CRLF, <<CR>>, DASHES, Outer, OTHERBYTE}
Data == {d \in {FlattenSeq(s) : s \in UNION {[1 .. k -> Pieces] : k \in 0 .. 2}} :
           apreq_index(CRLF \o d, CRLF \o DASHES \o Outer, TRUE) = 0}
Few == {<<>>, OTHERBYTE, CRLF \o DASHES, DASHES \o <<CR>>}
Refusals == {"disable_uploads", "discard_brigade"}
MultipartJobs ==
  {Form(Field(d), <<AParam(d)>>, "none", 99) : d \in Data}
  \cup {Form(File(d), <<AFile(d)>>, "none", 99) : d \in Few}
  \cup {Form(File(d), <<AFile(d)>>, "none", space) : d \in Few, space \in {NoTempDir, 3}}
  \cup {Form(File(CRLF), <<AFile(<<>>)>>, h, 99) : h \in Refusals}
  \cup {Form(Field(<<>>) \o File(d), <<AParam(<<>>), AFile(d)>>, "none", 99) : d \in Few}
  \cup {Form(Files(<<<<>>, CRLF \o DASHES>>) \o Field(<<>>),
              <<AFile(<<>>), AFile(CRLF \o DASHES), AParam(<<>>)>>, "none", 99)}
  \cup {Form(NoBody(FieldValue) \o NoBody(FileValue), <<AParam(<<>>), AFile(<<>>)>>, "none", 99)}

(* Urlencoded bodies: forms whose values the encoder writes, and words of  *)
(* whole, broken and missing escapes.                                      *)
E_ACUTE == <<195, 169>>
Values == {<<>>, <<65>>, <<SP>>, <<PCT>>, <<AMP, EQUALS>>, E_ACUTE}
Pair(v, cs) == [name |-> NAME, data |-> v, up |-> FALSE, bytes |-> <<>>, charset |-> cs]
CharsetOf(v) == IF v = E_ACUTE THEN UTF8 ELSE ASCII
Encoded(vs) ==
  LET ps == [i \in DOMAIN vs |-> Pair(vs[i], CharsetOf(vs[i]))]
      word(i) == (IF i = 1 THEN <<>> ELSE <<AMP>>) \o apreq_param_encode(ps[i])
  IN [kind |-> "urlencoded", body |-> FlattenSeq([i \in DOMAIN vs |-> word(i)]),
      hook |-> "none", room |-> 99, form |-> <<ps>>]
Escapes == {<<EQUALS>>, <<AMP>>, <<PCT>>, <<PCT, 52>>, <<PCT, 52, 49>>,
            <<PCT, 67, 51>>, <<PCT, 65, 57>>, <<PLUS>>}
Raw(kind, hook, space, body) ==
  [kind |-> kind, body |-> body, hook |-> hook, room |-> space, form |-> <<>>]
UrlJobs ==
  {Encoded(<<v, w>>) : v, w \in Values}
  \cup {Raw("urlencoded", "none", 99, NAME \o <<EQUALS>> \o FlattenSeq(s)) :
          s \in UNION {[1 .. k -> Escapes] : k \in 0 .. 2}}
  \cup {Raw("urlencoded", "none", 99, FlattenSeq(s) \o <<EQUALS>> \o NAME) : s \in [1 .. 2 -> Escapes]}
GenericJobs ==
  {Raw("generic", h, space, d) : h \in {"none", "xml"} \cup Refusals,
     space \in {NoTempDir, 1, 99}, d \in {<<>>, <<1, 2>>, <<1, 2, 3, 4>>, <<1, 0>>}}
AllJobs == MultipartJobs \cup UrlJobs \cup GenericJobs

(* A header that is continued on a second line.                            *)
FoldedJobs ==
  {Raw("multipart", "none", 99, DASHES \o Outer \o CRLF \o Line(DISPOSITION, FieldValue)
                                  \o <<SP, FieldValue>> \o CRLF \o CRLF \o Close(Outer))}
=============================================================================
