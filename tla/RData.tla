-------------------------------- MODULE RData --------------------------------
(***************************************************************************)
(* What R code and mod_R exchange through .Call during a request           *)
(* (src/mod_R.c): GET and COOKIES as R lists, response headers and         *)
(* cookies, URL coding of character vectors, sendBin; with the client that *)
(* keeps the cookies and sends them back.  Handlers are programs: for each *)
(* request the calls that its handler makes.                               *)
(***************************************************************************)
EXTENDS UrlencodedParser, Cookies

CONSTANT Programs   \* sequences of requests: [args, form, calls]

VARIABLES prog,         \* the requests and their handlers
          rq, pc,       \* the request and the next call of its handler
          argsTable,    \* MR_Request.argsTable: <<>> (NULL) or <<table>>
          cookiesTable, \* MR_Request.cookiesTable
          headers_out,  \* r->headers_out
          get, cookies, \* what parseGet and parseCookies returned last
          str,          \* the character vector that is coded: [text, now, error]
          out,          \* MR_BBout
          sent,         \* the sendBin calls of the request
          jar           \* the client's cookies
vars == <<prog, rq, pc, argsTable, cookiesTable, headers_out, get, cookies, str, out, sent, jar>>

NULL == <<>>
Nil == <<>>         \* R_NilValue as a list or as a vector

(***************************************************************************)
(* Tables as R lists: elements [name, value], value a character vector     *)
(***************************************************************************)
TableCallback(list, n, v) ==
  Append(list, [name |-> n, value |-> IF v = <<>> THEN Nil ELSE <<v>>])

(* a[] is the key a, and an element that has the key takes the value.      *)
IsArray(n) == Len(n) > 2 /\ SubSeq(n, Len(n) - 1, Len(n)) = <<91, 93>>
KeyOf(n) == IF IsArray(n) THEN SubSeq(n, 1, Len(n) - 2) ELSE n
(* Mutant: the key is compared as a prefix.                                *)
ComparesPrefix(list, n, v) ==
  LET key == KeyOf(n)
      S == {i \in DOMAIN list : IsPrefix(key, list[i].name)}
  IN IF IsArray(n) /\ S # {} THEN [list EXCEPT ![Min(S)].value = Append(@, v)]
     ELSE TableCallback(list, key, v)
ParamsCallback(list, n, v) ==
  LET S == {i \in DOMAIN list : list[i].name = KeyOf(n)}
  IN IF IsArray(n) /\ S # {} THEN [list EXCEPT ![Min(S)].value = Append(@, v)]
     ELSE TableCallback(list, KeyOf(n), v)

(* The table hands out C strings, which a NUL in decoded data ends.        *)
CString(s) == SubSeq(s, 1, Least({j \in DOMAIN s : s[j] = 0}, Len(s) + 1) - 1)

(* The callback is named: "params" for ParamsCallback, "table" for the     *)
(* other.                                                                  *)
AprTableToList(t, callback) ==
  LET Element(list, p) ==
        IF callback = "params" THEN ParamsCallback(list, CString(p.name), CString(p.data))
        ELSE TableCallback(list, CString(p.name), CString(p.data))
  IN IF t = NULL THEN Nil ELSE FoldLeft(Element, <<>>, t[1])

(***************************************************************************)
(* Headers                                                                 *)
(***************************************************************************)
apr_table_unset(t, key) == SelectSeq(t, LAMBDA h : h.key # key)
apr_table_set(t, key, v) == Append(apr_table_unset(t, key), [key |-> key, value |-> v])
apr_table_add(t, key, v) == Append(t, [key |-> key, value |-> v])
HasKey(t, key) == \E i \in DOMAIN t : t[i].key = key

(* The value of Set-Cookie that RApache_setCookie puts together.           *)
RCookie(c) ==
  c.name \o <<EQUALS>> \o c.value
  \o (IF c.max_age = -1 THEN <<>> ELSE <<SEMI, W_EXPIRES, EQUALS, W_DATE>>)
  \o (IF c.path = NULL THEN <<>> ELSE <<SEMI, W_PATH, EQUALS>> \o c.path[1])
  \o (IF c.domain = NULL THEN <<>> ELSE <<SEMI, W_DOMAIN, EQUALS>> \o c.domain[1])
  \o (IF c.secure THEN <<SEMI, W_SECURE>> ELSE <<>>)

(***************************************************************************)
(* URL coding: <<>> is R_NilValue, which no character vector can hold      *)
(***************************************************************************)
(* apreq_encode returns the number of bytes written, and none counts as a  *)
(* failure.                                                                *)
encode(s) == IF apreq_encode(s) = <<>> THEN NULL ELSE <<apreq_encode(s)>>
(* R_alloc gives no buffer for no bytes.  (It is a byte short for the      *)
(* terminator of a string without escapes; what is overwritten is not      *)
(* modelled.)                                                              *)
decode(s) ==
  LET x == apreq_decode(s, FALSE)
  IN IF s # <<>> /\ x.st = APR_SUCCESS THEN <<CString(x.out)>> ELSE NULL

(***************************************************************************)
(* sendBin                                                                 *)
(***************************************************************************)
NA == -1
DefaultSize(type) == CASE type = "INT" -> 4 [] type = "REAL" -> 8 [] type = "CPLX" -> 16 [] OTHER -> 1
KnownSizes(type) ==
  CASE type = "INT" -> {1, 2, 4, 8} [] type = "REAL" -> {4, 8, 16} [] type = "CPLX" -> {16} [] OTHER -> {1}

(* Mutant: only the outermost pair of bytes is exchanged.                  *)
SwapsOuter(bytes) ==
  [i \in DOMAIN bytes |-> IF i = 1 THEN bytes[Len(bytes)]
                          ELSE IF i = Len(bytes) THEN bytes[1] ELSE bytes[i]]
swapb(bytes) == Reverse(bytes)

(* The bytes of an element, least significant first: an integer cut or     *)
(* extended to the size, a real converted by the compiler (external), the  *)
(* bytes of a complex or raw value.                                        *)
IntByte(v, i) == IF i < 4 THEN (v \div (256 ^ i)) % 256 ELSE IF v < 0 THEN 255 ELSE 0
RealBytes(x, size) == IF size = 4 THEN From(x, 5) ELSE IF size = 8 THEN x ELSE x \o x
ElementBytes(type, x, size) ==
  CASE type = "INT"  -> [i \in 1 .. size |-> IntByte(x, i - 1)]
    [] type = "REAL" -> RealBytes(x, size)
    [] type = "CPLX" -> x
    [] type = "RAW"  -> <<x>>
Swapped(type, bytes, swap) ==
  IF ~swap THEN bytes
  ELSE IF type = "CPLX" THEN swapb(SubSeq(bytes, 1, 8)) \o swapb(From(bytes, 9))
  ELSE swapb(bytes)
(* What a call writes: [ok, bytes]; an unknown size is an R error.         *)
BinBytes(type, x, asked, swap) ==
  LET size == IF asked = NA THEN DefaultSize(type) ELSE asked
  IN IF x = <<>> THEN [ok |-> TRUE, bytes |-> <<>>]
     ELSE IF type = "STR" THEN [ok |-> TRUE, bytes |-> FlattenSeq(x)]
     ELSE IF size \notin KnownSizes(type) THEN [ok |-> FALSE, bytes |-> <<>>]
     ELSE [ok |-> TRUE, bytes |-> FlattenSeq([i \in DOMAIN x |->
                                    Swapped(type, ElementBytes(type, x[i], size), swap)])]

(***************************************************************************)
(* The client                                                              *)
(***************************************************************************)
(* The cookie in a Set-Cookie header: name and value in front of the first *)
(* ';', then attributes, by their words.                                   *)
Attr(h, word) ==
  LET k == Find(h, 1, {word})
      e == Find(h, k, {SEMI})
      v == SubSeq(h, k + 2, IF e = 0 THEN Len(h) ELSE e - 1)
  IN IF k = 0 THEN NULL
     ELSE <<IF v # <<>> /\ v[1] = DQUOTE THEN SubSeq(v, 2, Len(v) - 1) ELSE v>>
Received(h) ==
  LET eq == Find(h, 1, {EQUALS})
      e  == Find(h, 1, {SEMI})
  IN [apreq_cookie_make(SubSeq(h, 1, eq - 1), SubSeq(h, eq + 1, IF e = 0 THEN Len(h) ELSE e - 1))
        EXCEPT !.path = Attr(h, W_PATH), !.domain = Attr(h, W_DOMAIN), !.port = Attr(h, W_PORT),
               !.version = IF Attr(h, W_VERSION) = NULL THEN NETSCAPE ELSE RFC]
(* A jar keeps one cookie of a name, where the first of that name was.     *)
Keep(cs, c) ==
  IF \E i \in DOMAIN cs : cs[i].name = c.name
  THEN [i \in DOMAIN cs |-> IF cs[i].name = c.name THEN c ELSE cs[i]]
  ELSE Append(cs, c)

(* The Cookie header: the cookies of RFC 2109 under a $Version with their  *)
(* attributes, then (a second header, which Apache joins with a comma) the *)
(* others.                                                                 *)
Ours(cs, v) == SelectSeq(cs, LAMBDA c : c.version = v)
Sends(c) ==
  <<SEMI, SP>> \o c.name \o <<EQUALS>> \o c.value
  \o (IF c.version = NETSCAPE \/ c.path = NULL THEN <<>> ELSE <<SEMI, SP, DOLLAR>> \o Tail(Tail(RfcAttr(W_PATH, c.path))))
  \o (IF c.version = NETSCAPE \/ c.domain = NULL THEN <<>> ELSE <<SEMI, SP, DOLLAR>> \o Tail(Tail(RfcAttr(W_DOMAIN, c.domain))))
CookieHeader(cs) ==
  LET part(v) == FlattenSeq([i \in DOMAIN Ours(cs, v) |-> Sends(Ours(cs, v)[i])])
      rfc == IF Ours(cs, RFC) = <<>> THEN <<>> ELSE <<DOLLAR, W_VERSION, EQUALS, 49>> \o part(RFC)
      ns  == From(part(NETSCAPE), 3)
  IN IF cs = <<>> THEN NULL
     ELSE <<IF rfc = <<>> THEN ns ELSE IF ns = <<>> THEN rfc ELSE rfc \o <<COMMA, SP>> \o ns>>

(***************************************************************************)
(* Behaviour                                                               *)
(***************************************************************************)
Idle == pc = 0
r == prog[rq]
Call == r.calls[pc]
Calling(op) == ~Idle /\ pc <= Len(r.calls) /\ Call.op = op

Init ==
  /\ prog \in Programs
  /\ rq = 1 /\ pc = 0
  /\ argsTable = NULL /\ cookiesTable = NULL
  /\ headers_out = <<>> /\ get = Nil /\ cookies = Nil
  /\ str = [text |-> Nil, now |-> Nil, error |-> FALSE]
  /\ out = <<>> /\ sent = <<>>
  /\ jar = <<>>

(* SetUpRequest.                                                           *)
Begin ==
  /\ Idle /\ rq <= Len(prog)
  /\ pc' = 1
  /\ UNCHANGED <<prog, rq, argsTable, cookiesTable, headers_out, get, cookies, str, out, sent, jar>>

RApache_parseGet ==
  /\ Calling("parseGet")
  /\ argsTable' = IF argsTable # NULL \/ r.args = NULL THEN argsTable
                  ELSE <<apreq_parse_query_string(r.args[1]).t>>
  /\ get' = AprTableToList(argsTable', "params")
  /\ pc' = pc + 1
  /\ UNCHANGED <<prog, rq, cookiesTable, headers_out, cookies, str, out, sent, jar>>

AsTable(cs) == [i \in DOMAIN cs |-> [name |-> cs[i].name, data |-> cs[i].value, cookie |-> cs[i]]]
RApache_parseCookies ==
  /\ Calling("parseCookies")
  /\ cookiesTable' = IF cookiesTable # NULL \/ CookieHeader(jar) = NULL THEN cookiesTable
                     ELSE <<AsTable(apreq_parse_cookie_header(CookieHeader(jar)[1]).jar)>>
  /\ cookies' = AprTableToList(cookiesTable', "table")
  /\ pc' = pc + 1
  /\ UNCHANGED <<prog, rq, argsTable, headers_out, get, str, out, sent, jar>>

RApache_setHeader ==
  /\ Calling("setHeader")
  /\ headers_out' = IF Call.value = NULL THEN apr_table_unset(headers_out, Call.key)
                    ELSE apr_table_set(headers_out, Call.key, Call.value[1])
  /\ pc' = pc + 1
  /\ UNCHANGED <<prog, rq, argsTable, cookiesTable, get, cookies, str, out, sent, jar>>

(* lib: the cookie is written by apreq_cookie_as_string instead.           *)
RApache_setCookie ==
  /\ Calling("setCookie")
  /\ LET c == Call.cookie
         t == IF HasKey(headers_out, "Cache-Control") THEN headers_out
              ELSE apr_table_set(headers_out, "Cache-Control", <<>>)
     IN headers_out' = apr_table_add(t, "Set-Cookie",
                         IF Call.lib THEN apreq_cookie_serialize(c) ELSE RCookie(c))
  /\ pc' = pc + 1
  /\ UNCHANGED <<prog, rq, argsTable, cookiesTable, get, cookies, str, out, sent, jar>>

(* A vector is coded, and its result coded again by a later call; an       *)
(* element that cannot be coded is an R error, which ends the handler.     *)
RApache_urlEnDecode ==
  /\ Calling("urlEnDecode")
  /\ LET from == IF str.now = Nil THEN Call.text ELSE str.now
         new  == [i \in DOMAIN from |-> IF Call.enc THEN encode(from[i]) ELSE decode(from[i])]
         bad  == \E i \in DOMAIN new : new[i] = NULL
     IN /\ str' = [text |-> Call.text, now |-> IF bad THEN str.now ELSE [i \in DOMAIN new |-> new[i][1]],
                   error |-> bad]
        /\ pc' = IF bad THEN Len(r.calls) + 1 ELSE pc + 1
  /\ UNCHANGED <<prog, rq, argsTable, cookiesTable, headers_out, get, cookies, out, sent, jar>>

RApache_sendBin ==
  /\ Calling("sendBin")
  /\ LET b == BinBytes(Call.type, Call.object, Call.size, Call.swap)
     IN /\ out' = out \o b.bytes
        /\ sent' = IF b.ok THEN Append(sent, Call) ELSE sent
        /\ pc' = IF b.ok THEN pc + 1 ELSE Len(r.calls) + 1
  /\ UNCHANGED <<prog, rq, argsTable, cookiesTable, headers_out, get, cookies, str, jar>>

(* TearDownRequest forgets the request, and the response reaches the       *)
(* client.                                                                 *)
End ==
  /\ ~Idle /\ pc > Len(r.calls)
  /\ LET set == SelectSeq(headers_out, LAMBDA h : h.key = "Set-Cookie")
     IN jar' = FoldLeft(LAMBDA cs, h : Keep(cs, Received(h.value)), jar, set)
  /\ rq' = rq + 1 /\ pc' = 0
  /\ argsTable' = NULL /\ cookiesTable' = NULL
  /\ headers_out' = <<>> /\ get' = Nil /\ cookies' = Nil /\ out' = <<>> /\ sent' = <<>>
  /\ str' = [text |-> Nil, now |-> Nil, error |-> FALSE]
  /\ UNCHANGED prog

Next ==
  \/ Begin \/ End
  \/ RApache_parseGet \/ RApache_parseCookies
  \/ RApache_setHeader \/ RApache_setCookie
  \/ RApache_urlEnDecode \/ RApache_sendBin
Spec == Init /\ [][Next]_vars

(***************************************************************************)
(* Properties                                                              *)
(***************************************************************************)
(* GET holds the query string's parameters: each value, up to a NUL in it, *)
(* that is not empty is under its key as often as the client sent it, and  *)
(* a key that is only used as an array is one element with the values in   *)
(* order.                                                                  *)
GetComplete ==
  argsTable # NULL =>
    LET T == argsTable[1]
        at(k) == {i \in DOMAIN get : get[i].name = k}
        occurs(k, v) == UNION {{<<i, j>> : j \in {j \in DOMAIN get[i].value : get[i].value[j] = v}} : i \in at(k)}
        params(k) == SelectSeq(T, LAMBDA p : KeyOf(p.name) = k)
        values(k) == [i \in DOMAIN params(k) |-> CString(params(k)[i].data)]
    IN /\ r.form # NULL => [i \in DOMAIN T |-> <<T[i].name, T[i].data>>] = r.form[1]
       /\ \A p \in Range(T) :
            LET k == KeyOf(p.name)
                v == CString(p.data)
            IN /\ v # <<>> =>
                    Cardinality(occurs(k, v)) =
                    Cardinality({i \in DOMAIN T : KeyOf(T[i].name) = k /\ CString(T[i].data) = v})
               /\ (\A i \in DOMAIN T : KeyOf(T[i].name) = k => IsArray(T[i].name)) =>
                    /\ Cardinality(at(k)) = 1
                    /\ get[Min(at(k))].value =
                         IF values(k)[1] = <<>> THEN Tail(values(k)) ELSE values(k)

(* The cookies that the calls of a handler leave in its response: every    *)
(* setCookie adds one, a setHeader of Set-Cookie puts its own in place of  *)
(* all the earlier ones (with NULL: of none).                              *)
Resets(c) == c.op = "setHeader" /\ c.key = "Set-Cookie"
SetBy(calls) ==
  LET last == Max({0} \cup {i \in DOMAIN calls : Resets(calls[i])})
      first == IF last = 0 \/ calls[last].value = NULL THEN <<>> ELSE <<Received(calls[last].value[1])>>
      later == SelectSeq(From(calls, last + 1), LAMBDA c : c.op = "setCookie")
  IN first \o [i \in DOMAIN later |-> later[i].cookie]
Before(n) ==
  FoldLeft(LAMBDA cs, q : FoldLeft(Keep, cs, SetBy(q.calls)), <<>>, SubSeq(prog, 1, n - 1))
(* setCookie quotes nothing and the reader ends a bare value at a space or *)
(* a comma; a value that R has put in quotes comes whole, quotes included. *)
ComesBack(v) ==
  IF v # <<>> /\ v[1] = DQUOTE THEN v
  ELSE SubSeq(v, 1, Least({j \in DOMAIN v : v[j] \in {SP, COMMA}}, Len(v) + 1) - 1)


(* Quoting loses nothing but a NUL: a value that apreq_quote_once has      *)
(* quoted stays as it is when quoted again, the cookie reader's unquoting  *)
(* gives the value back with a digit 0 for every NUL (apreq_quote writes   *)
(* it as backslash and 0), and apreq_header_attribute finds all that is    *)
(* between the quotes, however many quotes and backslashes there are.      *)
QuotingRecovered ==
  argsTable # NULL =>
    \A p \in Range(argsTable[1]) :
      LET q == apreq_quote_once(p.data)
          word == <<120, EQUALS>>
          whole == apreq_params_as_string(argsTable[1], p.name, "QUOTE")
      IN p.data # <<>> =>
           /\ is_quoted(q) /\ apreq_quote_once(q) = q
           /\ \/ is_quoted(p.data)
              \/ get_pair(word \o q, TRUE).value = [i \in DOMAIN p.data |-> IF p.data[i] = 0 THEN 48 ELSE p.data[i]]
           /\ apreq_header_attribute(<<97, SEMI, SP>> \o word \o q, <<120>>) =
                [st |-> APR_SUCCESS, val |-> SubSeq(q, 2, Len(q) - 1)]
           /\ whole.ok /\ apreq_index(whole.out, q, TRUE) # 0

(* urlDecode undoes urlEncode, element by element of a vector in which no  *)
(* string is empty: one that is makes either call an R error.              *)
UrlRoundTrip ==
  (~Idle /\ pc > Len(r.calls) /\ str.text # Nil) =>
    IF <<>> \in Range(str.text) THEN str.error ELSE ~str.error /\ str.now = str.text

(* The client reads back what was sent: sendBin puts no byte more or less  *)
(* into the response, in the byte order asked for, and integers that fit   *)
(* the size keep their value.                                              *)
ReadInt(b) ==
  LET n == Len(b)
      top == IF b[n] > 127 THEN b[n] - 256 ELSE b[n]
  IN CASE n = 1 -> top
       [] n = 2 -> b[1] + 256 * top
       [] OTHER -> b[1] + 256 * b[2] + 65536 * b[3] + 16777216 * (IF b[4] > 127 THEN b[4] - 256 ELSE b[4])
Fits(v, size) == CASE size = 1 -> v \in -128 .. 127 [] size = 2 -> v \in -32768 .. 32767 [] OTHER -> TRUE
RECURSIVE ReadsBack(_, _)
ReadsBack(bytes, calls) ==
  IF calls = <<>> THEN bytes = <<>>
  ELSE LET c == calls[1]
           size == IF c.size = NA THEN DefaultSize(c.type) ELSE c.size
           n == IF c.type = "STR" THEN Len(FlattenSeq(c.object)) ELSE size * Len(c.object)
           elt(i) == LET e == SubSeq(bytes, size * (i - 1) + 1, size * i) IN IF c.swap THEN Reverse(e) ELSE e
       IN /\ Len(bytes) >= n
          /\ c.type = "STR" => SubSeq(bytes, 1, n) = FlattenSeq(c.object)
          /\ c.type = "RAW" => SubSeq(bytes, 1, n) = c.object
          /\ c.type = "INT" => \A i \in DOMAIN c.object : Fits(c.object[i], size) => ReadInt(elt(i)) = c.object[i]
          /\ ReadsBack(From(bytes, n + 1), Tail(calls))
BinaryReadBack == ~Idle => ReadsBack(out, sent)
=============================================================================
