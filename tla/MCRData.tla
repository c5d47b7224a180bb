------------------------------- MODULE MCRData -------------------------------
(***************************************************************************)
(* Programs for RData: a query string of up to three parameters parsed     *)
(* twice, two cookies set and read in the next request, a header or cookie *)
(* set in each of two requests, a vector coded and decoded, two objects    *)
(* sent.                                                                   *)
(***************************************************************************)
EXTENDS RData

a == <<97>>
ab == <<97, 98>>
Array(k) == k \o <<91, 93>>
Names == {a, ab, Array(a), Array(ab)}
Tricky == {<<DQUOTE>>, <<BSLASH>>, <<BSLASH, DQUOTE>>, <<DQUOTE, 97, DQUOTE>>, <<DQUOTE, BSLASH, DQUOTE>>,
           <<97, SP, 98>>, <<AMP, EQUALS, PCT>>, <<195, 169>>, <<0>>, <<97, 0, BSLASH, 48>>, <<DQUOTE, 0, DQUOTE>>}
Request(args, form, calls) == [args |-> args, form |-> form, calls |-> calls]
NoQuery(calls) == Request(NULL, NULL, calls)
ParseGet == [op |-> "parseGet"]
Query(ps) ==
  Request(<<FlattenSeq([i \in DOMAIN ps |->
              (IF i = 1 THEN <<>> ELSE <<AMP>>) \o apreq_param_encode([name |-> ps[i][1], data |-> ps[i][2]])])>>,
          <<ps>>, <<ParseGet, ParseGet>>)
Queries ==
  {<<Query(ps)>> : ps \in [1 .. 3 -> Names \X {<<>>, <<49>>}]}
  \cup {<<Query(<<<<n, v>>, <<n, w>>>>)>> : n \in {a, Array(a)}, v, w \in Tricky}
  \cup {<<Request(<<q>>, NULL, <<ParseGet, ParseGet>>)>> :
          q \in {<<>>, <<97>>, <<EQUALS, 97>>, <<97, AMP, AMP, 98, EQUALS, 49>>,
                 <<97, EQUALS, PCT, 52, AMP, 98>>, <<97, EQUALS, 49, SEMI, 98, EQUALS, PCT>>}}

Cookie(n, v) == apreq_cookie_make(n, v)
(* No value holds a ';', at which the client itself ends it.  RFC cookies  *)
(* are quoted where they need it, as their syntax demands.                 *)
Quoted == {<<>>, <<118>>, <<118, EQUALS, 119>>, <<DQUOTE, 118, SP, 119, DQUOTE>>,
           <<DQUOTE, 118, COMMA, BSLASH, DQUOTE, EQUALS, DQUOTE>>}
Plain == Quoted \cup {<<118, SP, 119>>, <<118, COMMA, SP, 119>>}
SetIt(c) == [op |-> "setCookie", cookie |-> c, lib |-> FALSE]
LibSets(c) == [op |-> "setCookie", cookie |-> c, lib |-> TRUE]
Full(c) == [c EXCEPT !.path = <<<<47>>>>, !.domain = <<<<100>>>>, !.max_age = 1, !.secure = TRUE]
Rfc(c) == [Full(c) EXCEPT !.version = RFC]
SetCalls ==
  {SetIt(Cookie(n, v)) : n \in {a, ab}, v \in Plain}
  \cup {SetIt(Full(Cookie(a, v))) : v \in Plain}
  \cup {LibSets(Full(Cookie(ab, v))) : v \in Plain}
  \cup {LibSets(Rfc(Cookie(n, v))) : n \in {a, ab}, v \in Quoted}
SetHeaders == {[op |-> "setHeader", key |-> k, value |-> v] :
                 k \in {"Cache-Control", "Set-Cookie"}, v \in {NULL, <<a \o <<EQUALS>> \o ab>>}}
ReadCookies == <<[op |-> "parseCookies"], [op |-> "parseCookies"]>>
CookiePrograms ==
  {<<NoQuery(<<c, d>>), NoQuery(ReadCookies)>> : c, d \in SetCalls}
  \cup {<<NoQuery(<<c, h, d>>), NoQuery(ReadCookies)>> : c, d \in {SetIt(Cookie(a, <<118>>)), LibSets(Rfc(Cookie(ab, <<119>>)))}, h \in SetHeaders}
  \cup {<<NoQuery(<<c>>), NoQuery(<<d>> \o ReadCookies), NoQuery(ReadCookies)>> :
          c, d \in {SetIt(Cookie(a, <<118>>)), LibSets(Rfc(Cookie(a, <<119>>)))} \cup SetHeaders}

Coding(enc, text) == [op |-> "urlEnDecode", enc |-> enc, text |-> text]
Coded(text) == <<NoQuery(<<Coding(TRUE, text), Coding(FALSE, text)>>)>>
Decoded(text) == <<NoQuery(<<Coding(FALSE, text), Coding(TRUE, text)>>)>>
UrlPrograms ==
  {Coded(<<s>>) : s \in {<<>>, <<97>>, <<SP>>, <<PCT, 52, 49>>, <<PLUS, EQUALS, AMP>>, <<10, 127>>}}
  \cup {Coded(<<s, t>>) : s, t \in {<<>>, a, <<SP, PCT>>}}
  \cup {Decoded(<<s, t>>) : s, t \in {<<>>, a}}
AccentPrograms == {Coded(<<<<195, 169>>>>)}

Send(type, x, size, swap) == [op |-> "sendBin", type |-> type, object |-> x, size |-> size, swap |-> swap]
Real == <<1, 2, 3, 4, 5, 6, 7, 8>>
Sends2 ==
  {Send("INT", <<-2, 300>>, s, w) : s \in {NA, 1, 2, 8, 3}, w \in BOOLEAN}
  \cup {Send("INT", <<2147483647, -2147483647, 70000, -129>>, s, w) : s \in {1, 2, 4, 8}, w \in BOOLEAN}
  \cup {Send("REAL", <<Real>>, s, TRUE) : s \in {NA, 4, 16, 2}}
  \cup {Send("CPLX", <<Real \o Real>>, s, TRUE) : s \in {NA, 8}}
  \cup {Send("RAW", <<7, 0, 9>>, s, TRUE) : s \in {NA, 2}}
  \cup {Send("STR", <<ab, <<>>, a>>, NA, FALSE), Send("INT", <<>>, NA, FALSE)}
BinPrograms == {<<NoQuery(<<x, y>>)>> : x, y \in Sends2}
MCPrograms == Queries \cup CookiePrograms \cup UrlPrograms \cup BinPrograms
=============================================================================
