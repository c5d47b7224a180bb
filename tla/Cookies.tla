------------------------------- MODULE Cookies -------------------------------
(***************************************************************************)
(* src/libapreq2/library/cookie.c: the Cookie header read into a jar, and  *)
(* a cookie written for Set-Cookie.  Strings are sequences of bytes as in  *)
(* ApreqUtil; a number above 255 stands for a whole word that the code     *)
(* compares as a whole: an attribute's name, or a date.                    *)
(***************************************************************************)
EXTENDS ApreqUtil

RFC == 1
NETSCAPE == 0
W_VERSION == 322
W_EXPIRES == 323
W_MAXAGE == 324
W_DOMAIN == 325
W_PORT == 326
W_PATH == 327
W_COMMENT == 328
W_COMMENTURL == 329
W_SECURE == 330
W_NOW == 331
W_OFF == 332
W_DATE == 333     \* any date or number of seconds

(* Optional strings are <<>> (NULL) or <<the string>>.                     *)
apreq_cookie_make(name, value) ==
  [name |-> name, value |-> value, version |-> NETSCAPE, max_age |-> -1, secure |-> FALSE,
   path |-> <<>>, domain |-> <<>>, port |-> <<>>, comment |-> <<>>, commentURL |-> <<>>]

(* max_age of a time: -1 is a session cookie, 0 now, 1 some other age.     *)
apreq_cookie_expires(c, time) ==
  [c EXCEPT !.max_age = IF time = <<W_NOW>> THEN 0 ELSE 1]

(* An attribute of a cookie: [st, c].  A name of one letter is refused.    *)
apreq_cookie_attr(c, attr, val) ==
  LET a == IF attr[1] \in {DASH, DOLLAR} THEN Tail(attr) ELSE attr
      digit == Find(val, 1, Digit)
      set(f) == [st |-> APR_SUCCESS, c |-> f]
  IN CASE attr = <<>> \/ attr \in {<<b>> : b \in 0 .. 255} -> [st |-> APR_EBADARG, c |-> c]
       [] a = <<W_VERSION>> ->
            IF digit = 0 THEN [st |-> APREQ_ERROR_BADSEQ, c |-> c]
            ELSE set([c EXCEPT !.version = val[digit] - 48])
       [] a \in {<<W_EXPIRES>>, <<W_MAXAGE>>} -> set(apreq_cookie_expires(c, val))
       [] a = <<W_DOMAIN>>     -> set([c EXCEPT !.domain = <<val>>])
       [] a = <<W_PORT>>       -> set([c EXCEPT !.port = <<val>>])
       [] a = <<W_PATH>>       -> set([c EXCEPT !.path = <<val>>])
       [] a = <<W_COMMENTURL>> -> set([c EXCEPT !.commentURL = <<val>>])
       [] a = <<W_COMMENT>>    -> set([c EXCEPT !.comment = <<val>>])
       [] a = <<W_SECURE>>     -> set([c EXCEPT !.secure = val # <<>> /\ val[1] \notin {48, W_OFF}])
       [] OTHER -> [st |-> APR_ENOTIMPL, c |-> c]

(***************************************************************************)
(* Reading                                                                 *)
(***************************************************************************)
(* The quote that closes a string, from position i on: 0 when none does.   *)
RECURSIVE CloseQuote(_, _)
CloseQuote(s, i) ==
  IF i > Len(s) THEN 0
  ELSE IF s[i] = DQUOTE THEN i
  ELSE CloseQuote(s, IF s[i] = BSLASH /\ i < Len(s) THEN i + 2 ELSE i + 1)
RECURSIVE Unescape(_)
Unescape(s) ==
  IF s = <<>> THEN <<>>
  ELSE IF s[1] = BSLASH /\ Len(s) > 1 THEN <<s[2]>> \o Unescape(From(s, 3))
  ELSE <<s[1]>> \o Unescape(Tail(s))

(* The first position from i on outside a set of bytes.                    *)
SkipOver(s, i, set) == Least({j \in i .. Len(s) : s[j] \notin set}, Len(s) + 1)

(* get_pair: [st, name, value, rest].  The name is the last word before    *)
(* the '='.                                                                *)
get_pair(data, unquote) ==
  LET hdr  == From(data, SkipOver(data, 1, Space \cup {EQUALS}))
      key  == Find(hdr, 1, {EQUALS})
      last == Max({1} \cup {j \in 1 .. key - 1 : hdr[j] \notin Space})
      fst  == Max({0} \cup {j \in 1 .. last : hdr[j] \in Space}) + 1
      val  == SkipOver(hdr, key + 1, Space)
      q    == CloseQuote(hdr, val + 1)
      raw  == SubSeq(hdr, val + 1, q - 1)
      stop == Least({j \in val .. Len(hdr) : hdr[j] \in {SEMI, COMMA, SP, TAB, CR, LF}},
                    Len(hdr) + 1)
      pair(v, rest) == [st |-> APR_SUCCESS, name |-> SubSeq(hdr, fst, last), value |-> v, rest |-> rest]
  IN IF key = 0 THEN [st |-> APREQ_ERROR_NOTOKEN]
     ELSE IF val <= Len(hdr) /\ hdr[val] = DQUOTE
     THEN IF q = 0 THEN [st |-> APREQ_ERROR_BADSEQ]
          ELSE pair(IF unquote THEN Unescape(raw) ELSE SubSeq(hdr, val, q), From(hdr, q + 1))
     ELSE pair(SubSeq(hdr, val, stop - 1), From(hdr, stop))

(* apreq_parse_cookie_header: [st, jar].  A header may hold several, with  *)
(* commas between them; c is <<>> or <<the cookie whose attributes may     *)
(* follow>>.                                                               *)
RECURSIVE CookiesOf(_, _, _, _)
ParseCookies(hdr, jar) ==
  LET s == SkipOver(hdr, 1, Space)
      e == Find(hdr, s, {COMMA, SEMI})
  IN IF s > Len(hdr) \/ hdr[s] # DOLLAR THEN CookiesOf(From(hdr, s), jar, <<>>, NETSCAPE)
     ELSE IF e = 0 THEN [st |-> APR_SUCCESS, jar |-> jar]
     ELSE CookiesOf(From(hdr, IF hdr[e] = SEMI THEN e + 1 ELSE e), jar, <<>>, RFC)
AddAttribute(a, set, jar, version) ==
  IF a.st # APR_SUCCESS THEN [st |-> a.st, jar |-> jar]
  ELSE IF set.st \notin {APR_SUCCESS, APR_ENOTIMPL} THEN [st |-> set.st, jar |-> jar]
  ELSE CookiesOf(a.rest, jar, <<set.c>>, version)
ReadAttribute(a, jar, c, version) ==
  AddAttribute(a, apreq_cookie_attr(c, a.name, a.value), jar, version)
ReadCookie(p, jar, version) ==
  IF p.st # APR_SUCCESS THEN [st |-> p.st, jar |-> jar]
  ELSE CookiesOf(p.rest, jar,
                 <<[apreq_cookie_make(p.name, p.value) EXCEPT !.version = version]>>, version)
CookiesOf(hdr, jar, c, version) ==
  LET h == From(hdr, SkipOver(hdr, 1, Space \cup {SEMI}))
      full == jar \o c
  IN IF h = <<>> THEN [st |-> APR_SUCCESS, jar |-> full]
     ELSE IF h[1] = COMMA THEN ParseCookies(Tail(h), full)
     ELSE IF h[1] = DOLLAR
     THEN IF c = <<>> THEN [st |-> APREQ_ERROR_BADCHAR, jar |-> jar]
          ELSE IF version = NETSCAPE THEN [st |-> APREQ_ERROR_MISMATCH, jar |-> jar]
          ELSE ReadAttribute(get_pair(Tail(h), TRUE), jar, c[1], version)
     ELSE ReadCookie(get_pair(h, FALSE), full, version)
apreq_parse_cookie_header(hdr) == ParseCookies(hdr, <<>>)

(***************************************************************************)
(* Writing: apreq_cookie_serialize and apreq_cookie_as_string              *)
(***************************************************************************)
Attribute(word, value) == <<SEMI, SP, word, EQUALS>> \o value
NsAttr(word, v) == IF v = <<>> THEN <<>> ELSE Attribute(word, v[1])
RfcAttr(word, v) ==
  IF v = <<>> THEN <<>>
  ELSE Attribute(word, IF v[1] # <<>> /\ v[1][1] = DQUOTE THEN v[1]
                       ELSE <<DQUOTE>> \o v[1] \o <<DQUOTE>>)
Secure(c) == IF c.secure THEN <<SEMI, SP, W_SECURE>> ELSE <<>>
apreq_cookie_serialize(c) ==
  c.name \o <<EQUALS>> \o c.value \o
  IF c.version = NETSCAPE
  THEN NsAttr(W_PATH, c.path) \o NsAttr(W_DOMAIN, c.domain)
       \o (IF c.max_age # -1 THEN Attribute(W_EXPIRES, <<W_DATE>>) ELSE <<>>) \o Secure(c)
  ELSE Attribute(W_VERSION, <<48 + c.version>>)
       \o RfcAttr(W_PATH, c.path) \o RfcAttr(W_DOMAIN, c.domain) \o RfcAttr(W_PORT, c.port)
       \o RfcAttr(W_COMMENT, c.comment) \o RfcAttr(W_COMMENTURL, c.commentURL)
       \o (IF c.max_age # -1 THEN Attribute(W_MAXAGE, <<W_DATE>>) ELSE <<>>) \o Secure(c)
=============================================================================
