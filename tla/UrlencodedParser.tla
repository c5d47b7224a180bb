-------------------------- MODULE UrlencodedParser --------------------------
(***************************************************************************)
(* The parser of application/x-www-form-urlencoded bodies                  *)
(* (src/libapreq2/library/parser_urlencoded.c) and of query strings        *)
(* (param.c).  Each call gets the buckets that have arrived; the context   *)
(* keeps the buckets of the word that is not complete.                     *)
(***************************************************************************)
EXTENDS Brigade

Param(name, data, charset) ==
  [name |-> name, data |-> data, charset |-> charset, up |-> FALSE, upload |-> EmptySpool]

(* The character set of a parameter, from those of its value and name.     *)
ParamCharset(value, name) ==
  CASE name = UTF8   -> IF value = ASCII THEN UTF8 ELSE value
    [] name = ASCII  -> value
    [] name = LATIN1 -> IF value # CP1252 THEN LATIN1 ELSE value
    [] name = CP1252 -> CP1252

(* A parameter from a decoded name and value.                              *)
DecodedParam(n, v) ==
  IF v.st > APR_SUCCESS + UTF8 THEN [st |-> v.st]
  ELSE IF n.st > APR_SUCCESS + UTF8 THEN [st |-> n.st]
  ELSE [st |-> APR_SUCCESS, param |-> Param(n.out, v.out, ParamCharset(v.st, n.st))]

(* split_urlword on the buckets of the name and of the value.              *)
split_urlword(name, value) ==
  IF Content(name) = <<>> THEN [st |-> APR_EBADARG]
  ELSE DecodedParam(apreq_decodev(name), apreq_decodev(value))

UrlInit == [st |-> "URL_NAME", bb |-> <<>>]

(* The words of the brigade, one after the other: a word is a name up to   *)
(* the first '=', then a value up to '&', ';' or the end of the body.  A   *)
(* body that ends inside a name ends without that word.                    *)
RECURSIVE UrlWords(_, _, _)
AddWord(w, amp, bb, eos, t) ==
  IF w.st # APR_SUCCESS THEN [st |-> "URL_ERROR", t |-> t, bb |-> bb, rv |-> w.st]
  ELSE IF amp = 0
  THEN [st |-> "URL_COMPLETE", t |-> Append(t, w.param), bb |-> <<>>, rv |-> APR_SUCCESS]
  ELSE UrlWords(DropBytes(bb, amp), eos, Append(t, w.param))
UrlWords(bb, eos, t) ==
  LET d    == Content(bb)
      eq   == Find(d, 1, {EQUALS})
      amp  == IF eq = 0 THEN 0 ELSE Find(d, eq + 1, {AMP, SEMI})
      stop == IF amp = 0 THEN Len(d) + 1 ELSE amp
  IN IF eq = 0
     THEN [st |-> "URL_NAME", t |-> t, bb |-> IF eos THEN <<>> ELSE bb,
           rv |-> IF eos THEN APR_SUCCESS ELSE APR_INCOMPLETE]
     ELSE IF amp = 0 /\ ~eos
     THEN [st |-> "URL_VALUE", t |-> t, bb |-> bb, rv |-> APR_INCOMPLETE]
     ELSE AddWord(split_urlword(TakeBytes(bb, eq - 1),
                                TakeBytes(DropBytes(bb, eq), stop - eq - 1)),
                  amp, bb, eos, t)

Parsed(x) == [ctx |-> [st |-> x.st, bb |-> x.bb], t |-> x.t, rv |-> x.rv]
(* Mutant: the context's error is not looked at.                           *)
TriesAgain(ctx, bb, eos, t) == Parsed(UrlWords(ctx.bb \o bb, eos, t))
(* apreq_parse_urlencoded: [ctx, t, rv].                                   *)
apreq_parse_urlencoded(ctx, bb, eos, t) ==
  CASE ctx.st = "URL_ERROR"    -> [ctx |-> ctx, t |-> t, rv |-> APREQ_ERROR_GENERAL]
    [] ctx.st = "URL_COMPLETE" -> [ctx |-> ctx, t |-> t, rv |-> APR_SUCCESS]
    [] OTHER -> Parsed(UrlWords(ctx.bb \o bb, eos, t))

(***************************************************************************)
(* param.c                                                                 *)
(***************************************************************************)
apreq_param_decode(name, value) ==
  IF name = <<>> THEN [st |-> APR_EBADARG]
  ELSE DecodedParam(apreq_decode(name, FALSE), apreq_decode(value, FALSE))

apreq_param_encode(p) == apreq_encode(p.name) \o <<EQUALS>> \o apreq_encode(p.data)

(* apreq_parse_query_string: a word is a name, or a name, '=' and a value; *)
(* an '=' at the start of a word belongs to its name.                      *)
RECURSIVE QueryWords(_, _)
AddQueryWord(w, amp, qs, t) ==
  IF w.st # APR_SUCCESS THEN [st |-> w.st, t |-> t]
  ELSE IF amp = 0 THEN [st |-> APR_SUCCESS, t |-> Append(t, w.param)]
  ELSE QueryWords(From(qs, amp + 1), Append(t, w.param))
QueryWords(qs, t) ==
  LET amp  == Find(qs, 1, {AMP, SEMI})
      stop == IF amp = 0 THEN Len(qs) + 1 ELSE amp
      eq   == Least({j \in 2 .. stop - 1 : qs[j] = EQUALS}, stop)
  IN IF stop > 1
     THEN AddQueryWord(apreq_param_decode(SubSeq(qs, 1, eq - 1), SubSeq(qs, eq + 1, stop - 1)),
                       amp, qs, t)
     ELSE IF amp = 0 THEN [st |-> APR_SUCCESS, t |-> t]
     ELSE QueryWords(From(qs, amp + 1), t)
apreq_parse_query_string(qs) == QueryWords(qs, <<>>)

(* The values of a name, in order, and their join.                         *)
apreq_params_as_array(t, key) == SelectSeq(t, LAMBDA p : SameNoCase(p.name, key))
apreq_params_as_string(t, key, mode) ==
  LET arr == apreq_params_as_array(t, key)
  IN apreq_join(<<COMMA, SP>>, [i \in DOMAIN arr |-> arr[i].data], mode)
apreq_uploads(t) == SelectSeq(t, LAMBDA p : p.up)
=============================================================================
