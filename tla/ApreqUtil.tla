------------------------------ MODULE ApreqUtil ------------------------------
(***************************************************************************)
(* The string functions of src/libapreq2/library/util.c as operators on    *)
(* sequences of bytes: URL decoding with its guess of the character set,   *)
(* URL encoding, quoting, joining, substring search and the lookup of a    *)
(* header attribute.  A C string is the sequence of its bytes without the  *)
(* terminator; a byte is a number, so that the arithmetic on hex digits    *)
(* and UTF-8 patterns is the code's own.                                   *)
(***************************************************************************)
EXTENDS Integers, Sequences, SequencesExt, FiniteSetsExt

(* Status codes: APR's own, then those of include/apreq_error.h.           *)
APR_SUCCESS    == 0
APR_EBADARG    == 22
APR_EINIT      == 20022
APR_INCOMPLETE == 70008
APR_EOF        == 70014
APR_ENOTIMPL   == 70023
APREQ_ERROR_GENERAL  == 120000
APREQ_ERROR_BADCHAR  == APREQ_ERROR_GENERAL + 11
APREQ_ERROR_BADSEQ   == APREQ_ERROR_GENERAL + 12
APREQ_ERROR_NOTOKEN  == APREQ_ERROR_GENERAL + 21
APREQ_ERROR_NOATTR   == APREQ_ERROR_GENERAL + 22
APREQ_ERROR_MISMATCH == APREQ_ERROR_GENERAL + 30

(* enum apreq_charset_t: the decoders add it to their status.              *)
ASCII  == 0
LATIN1 == 1
CP1252 == 2
UTF8   == 8

(* The bytes the code names.                                               *)
TAB == 9
LF == 10
CR == 13
SP == 32
DQUOTE == 34
DOLLAR == 36
PCT == 37
AMP == 38
PLUS == 43
COMMA == 44
DASH == 45
COLON == 58
SEMI == 59
EQUALS == 61
BSLASH == 92
Space == {TAB, LF, 11, 12, CR, SP}
Digit == 48 .. 57
Alnum == Digit \cup (65 .. 90) \cup (97 .. 122)
XDigit == Digit \cup (65 .. 70) \cup (97 .. 102)
ToLower(c) == IF c \in 65 .. 90 THEN c + 32 ELSE c

(* A byte the decoder leaves as it found it in the destination buffer.     *)
Unwritten == 256

From(s, i) == SubSeq(s, i, Len(s))
Least(S, default) == IF S = {} THEN default ELSE Min(S)
(* The first position from i on that holds one of the bytes in set.        *)
Find(s, i, set) == Least({j \in i .. Len(s) : s[j] \in set}, 0)

(***************************************************************************)
(* Decoding                                                                *)
(***************************************************************************)
HexVal(c) == IF c \in Digit THEN c - 48 ELSE ToLower(c) - 87
hex2_to_char(s, i) == 16 * HexVal(s[i]) + HexVal(s[i + 1])
hex4_to_bmp(s, i) == 256 * hex2_to_char(s, i) + hex2_to_char(s, i + 2)

BmpToUtf8(c) ==
  IF c < 128 THEN <<c>>
  ELSE IF c < 2048 THEN <<192 + c \div 64, 128 + (c % 64)>>
  ELSE <<224 + c \div 4096, 128 + ((c \div 64) % 64), 128 + (c % 64)>>

is_89AB(c) == c \in {56, 57, 65, 66, 97, 98}
(* The n escapes from position i on are all UTF-8 continuation bytes.      *)
is_enc8(s, i, n) ==
  \A k \in 0 .. n - 1 : /\ s[i + 3 * k] = PCT
                        /\ is_89AB(s[i + 3 * k + 1])
                        /\ s[i + 3 * k + 2] \in XDigit
fragment_charset(s, i) ==
  LET flen == Len(s) - i + 1
  IN IF /\ is_enc8(s, i, flen \div 3)
        /\ flen % 3 = 2 => is_89AB(s[Len(s)]) /\ s[Len(s) - 1] = PCT
        /\ flen % 3 = 1 => s[Len(s)] = PCT
     THEN UTF8 ELSE LATIN1

(* The number of continuation bytes a lead byte announces.                 *)
Continuations(c) ==
  CASE c < 224 -> 1 [] c < 240 -> 2 [] c < 248 -> 3 [] c < 252 -> 4 [] OTHER -> 5

Took(bytes, next, cs) == [st |-> APR_SUCCESS, out |-> bytes, next |-> next, cs |-> cs]
Stopped(st, cs) == [st |-> st, out |-> <<>>, next |-> 0, cs |-> cs]

(* An escape of the byte c that ends before j: what is written and the     *)
(* character set guessed.                                                  *)
EscapedByte(c, s, j, cs) ==
  LET k == Continuations(c)
  IN CASE c < 128 \/ cs = CP1252 -> Took(<<c>>, j, cs)
       [] c \in 128 .. 159 /\ cs # CP1252 -> Took(<<c>>, j, CP1252)
       [] c \in 160 .. 191 /\ cs # CP1252 -> Took(<<c>>, j, LATIN1)
       [] c > 191 /\ cs = LATIN1 -> Took(<<c>>, j, cs)
       [] c > 253 /\ cs \in {ASCII, UTF8} -> Took(<<Unwritten>>, j, UTF8)
       [] OTHER ->
            IF j + 3 * k - 1 > Len(s)
            THEN IF fragment_charset(s, j) = UTF8 THEN Stopped(APR_INCOMPLETE, UTF8)
                 ELSE Took(<<c>>, j, LATIN1)
            ELSE IF is_enc8(s, j, k)
            THEN Took(<<c>> \o [m \in 1 .. k |-> hex2_to_char(s, j + 3 * m - 2)],
                      j + 3 * k, UTF8)
            ELSE Took(<<c>>, j, LATIN1)

HexEscape(s, i, cs) == EscapedByte(hex2_to_char(s, i + 1), s, i + 3, cs)

(* An escape %uXXXX at i.                                                  *)
BmpEscape(s, i, cs) ==
  IF cs \in {ASCII, UTF8} THEN Took(BmpToUtf8(hex4_to_bmp(s, i + 2)), i + 6, UTF8)
  ELSE Stopped(APREQ_ERROR_BADSEQ, cs)

(* A percent sign that starts no complete escape.                          *)
BrokenEscape(s, i, cs) ==
  Stopped(IF \/ i + 5 <= Len(s)
             \/ i + 2 <= Len(s) /\ s[i + 2] \notin XDigit
             \/ i + 1 <= Len(s) /\ s[i + 1] \notin XDigit \cup {85, 117}
          THEN APREQ_ERROR_BADSEQ ELSE APR_INCOMPLETE, cs)

DecodeStep(s, i, cs) ==
  IF s[i] = PLUS THEN Took(<<SP>>, i + 1, cs)
  ELSE IF s[i] # PCT THEN Took(<<s[i]>>, i + 1, cs)
  ELSE IF i + 2 <= Len(s) /\ {s[i + 1], s[i + 2]} \subseteq XDigit
  THEN HexEscape(s, i, cs)
  ELSE IF i + 5 <= Len(s) /\ s[i + 1] \in {85, 117}
          /\ {s[k] : k \in i + 2 .. i + 5} \subseteq XDigit
  THEN BmpEscape(s, i, cs)
  ELSE BrokenEscape(s, i, cs)

(* url_decode: the status, what was decoded, the character set, and the    *)
(* source bytes not consumed.                                              *)
RECURSIVE DecodeFrom(_, _, _, _)
DecodeOn(x, s, i, out) ==
  IF x.st = APR_SUCCESS THEN DecodeFrom(s, x.next, out \o x.out, x.cs)
  ELSE [st |-> x.st, out |-> out, cs |-> x.cs, rest |-> From(s, i)]
DecodeFrom(s, i, out, cs) ==
  IF i > Len(s) THEN [st |-> APR_SUCCESS, out |-> out, cs |-> cs, rest |-> <<>>]
  ELSE DecodeOn(DecodeStep(s, i, cs), s, i, out)
url_decode(s, cs) == DecodeFrom(s, 1, <<>>, cs)

(* apreq_decode in place looks for a zero byte before the first escape;    *)
(* its status is url_decode's plus the character set.                      *)
WithCharset(x) == [st |-> x.st + x.cs, out |-> x.out]
apreq_decode(s, inplace) ==
  LET plain == Least({j \in DOMAIN s : s[j] \in {PCT, PLUS}}, Len(s) + 1) - 1
      nul   == Find(SubSeq(s, 1, plain), 1, {0})
  IN IF inplace /\ nul # 0
     THEN [st |-> APREQ_ERROR_BADCHAR, out |-> SubSeq(s, 1, nul - 1)]
     ELSE WithCharset(url_decode(s, ASCII))

(* apreq_decodev: a sequence of buffers; what one buffer leaves incomplete *)
(* is put in front of the next.                                            *)
RECURSIVE DecodeVec(_, _, _, _, _)
NextBuffer(x, v, n, out) ==
  CASE x.st = APR_SUCCESS -> DecodeVec(v, n + 1, <<>>, out \o x.out, x.cs)
    [] x.st = APR_INCOMPLETE ->
         IF n = Len(v) THEN [st |-> APR_INCOMPLETE + x.cs, out |-> out \o x.out]
         ELSE DecodeVec(v, n + 1, x.rest, out \o x.out, x.cs)
    [] OTHER -> [st |-> x.st, out |-> out \o x.out]
DecodeVec(v, n, carry, out, cs) ==
  IF n > Len(v) THEN [st |-> APR_SUCCESS + cs, out |-> out]
  ELSE NextBuffer(url_decode(carry \o v[n], cs), v, n, out)
apreq_decodev(v) == DecodeVec(v, 1, <<>>, <<>>, ASCII)

(***************************************************************************)
(* Encoding, quoting, joining, searching                                   *)
(***************************************************************************)
HexDigit(n) == IF n < 10 THEN 48 + n ELSE 55 + n
(* Mutant: a plus sign is left alone.                                      *)
KeepsPlus(c) ==
  IF c \in Alnum \cup {PLUS} THEN <<c>> ELSE <<PCT, HexDigit(c \div 16), HexDigit(c % 16)>>
EncodeByte(c) ==
  IF c \in Alnum \cup {DASH, 46, 95, 126} THEN <<c>>
  ELSE IF c = SP THEN <<PLUS>>
  ELSE <<PCT, HexDigit(c \div 16), HexDigit(c % 16)>>
apreq_encode(s) == FlattenSeq([i \in DOMAIN s |-> EncodeByte(s[i])])

(* A backslash at i escapes the next byte when an even number precede it.  *)
RECURSIVE Backslashed(_, _)
Backslashed(s, i) == i > 2 /\ s[i - 1] = BSLASH /\ ~Backslashed(s, i - 1)
is_quoted(s) ==
  /\ Len(s) > 1
  /\ s[1] = DQUOTE /\ s[Len(s)] = DQUOTE
  /\ \A i \in 2 .. Len(s) - 1 :
       s[i] # 0 /\ (s[i] = DQUOTE => Backslashed(s, i))
  /\ ~Backslashed(s, Len(s))

(* Mutant: a backslash is not escaped.                                     *)
EscapesQuotesOnly(c) == IF c = DQUOTE THEN <<BSLASH, c>> ELSE <<c>>
QuoteByte(c) == CASE c = 0 -> <<BSLASH, 48>>
                  [] c \in {BSLASH, DQUOTE} -> <<BSLASH, c>>
                  [] OTHER -> <<c>>
apreq_quote(s) ==
  IF s = <<>> THEN <<>>
  ELSE <<DQUOTE>> \o FlattenSeq([i \in DOMAIN s |-> QuoteByte(s[i])]) \o <<DQUOTE>>
apreq_quote_once(s) == IF is_quoted(s) THEN s ELSE apreq_quote(s)

(* apreq_join: [ok, out]; decoding any element to a status other than      *)
(* APR_SUCCESS, a character set beyond ASCII included, gives NULL.         *)
IfAscii(x) == [ok |-> x.st = APR_SUCCESS, out |-> x.out]
JoinOne(s, mode) ==
  CASE mode = "AS_IS"  -> [ok |-> TRUE, out |-> s]
    [] mode = "ENCODE" -> [ok |-> TRUE, out |-> apreq_encode(s)]
    [] mode = "QUOTE"  -> [ok |-> TRUE, out |-> apreq_quote_once(s)]
    [] mode = "DECODE" -> IfAscii(apreq_decode(s, FALSE))
apreq_join(sep, arr, mode) ==
  LET one == [i \in DOMAIN arr |-> JoinOne(arr[i], mode)]
  IN IF \A i \in DOMAIN arr : one[i].ok
     THEN [ok |-> TRUE,
           out |-> FlattenSeq([i \in DOMAIN arr |->
                                 (IF i = 1 THEN <<>> ELSE sep) \o one[i].out])]
     ELSE [ok |-> FALSE, out |-> <<>>]

(* apreq_index: the first position (0 when there is none) from which hay   *)
(* agrees with ndl up to the end of the shorter; a full match also needs   *)
(* room for all of ndl, and gives up at the first partial one.             *)
AgreesAt(hay, i, ndl) ==
  LET n == Min({Len(ndl), Len(hay) - i + 1})
  IN SubSeq(hay, i, i + n - 1) = SubSeq(ndl, 1, n)
apreq_index(hay, ndl, full) ==
  LET i == Least({j \in DOMAIN hay : AgreesAt(hay, j, ndl)}, 0)
  IN IF full /\ i # 0 /\ Len(hay) - i + 1 < Len(ndl) THEN 0 ELSE i

(***************************************************************************)
(* Header attributes                                                       *)
(***************************************************************************)
is_2616_token(c) ==
  /\ c \notin {SP, SEMI, COMMA, DQUOTE, TAB, 63, EQUALS, 64, COLON, BSLASH,
               47, 40, 41, 60, 62, 123, 125, 91, 93}
  /\ c > 31 /\ c # 127

SameNoCase(a, b) == Len(a) = Len(b) /\ \A i \in DOMAIN a : ToLower(a[i]) = ToLower(b[i])

(* The end of a quoted value that starts at v: its closing quote, or 0.    *)
RECURSIVE EndQuote(_, _)
EndQuote(s, v) ==
  CASE v > Len(s) -> 0
    [] v <= Len(s) /\ s[v] = DQUOTE -> v
    [] v <= Len(s) /\ s[v] = BSLASH -> EndQuote(s, IF v < Len(s) THEN v + 2 ELSE v + 1)
    [] OTHER -> EndQuote(s, v + 1)

SkipSpace(s, i) == Least({j \in i .. Len(s) : s[j] \notin Space}, Len(s) + 1)

(* apreq_header_attribute from position h on: a name is the Len(name)      *)
(* bytes before an '=' and the space in front of it, and counts when no    *)
(* token character precedes it.  (Bytes before the header are no match.)   *)
RECURSIVE BackOver(_, _, _)
BackOver(s, i, floor) == IF s[i] \in Space /\ i > floor THEN BackOver(s, i - 1, floor) ELSE i

RECURSIVE AttributeFrom(_, _, _)
AttributeFrom(s, h, name) ==
  LET eq     == Find(s, h, {EQUALS})
      key    == BackOver(s, eq - 1, h + Len(name)) - Len(name) + 1
      v      == SkipSpace(s, eq + 1)
      quoted == v <= Len(s) /\ s[v] = DQUOTE
      val    == IF quoted THEN v + 1 ELSE v
      end    == IF quoted THEN EndQuote(s, val)
                ELSE Least({j \in v .. Len(s) : s[j] \in {SP, SEMI, COMMA, TAB, CR, LF}},
                           Len(s) + 1)
  IN IF eq = 0 THEN [st |-> APREQ_ERROR_NOATTR, val |-> <<>>]
     ELSE IF end = 0 THEN [st |-> APREQ_ERROR_BADSEQ, val |-> <<>>]
     ELSE IF /\ key > 0
             /\ SameNoCase(SubSeq(s, key, key + Len(name) - 1), name)
             /\ key = h \/ key = 1 \/ ~is_2616_token(s[key - 1])
     THEN [st |-> APR_SUCCESS, val |-> SubSeq(s, val, end - 1)]
     ELSE AttributeFrom(s, end, name)
apreq_header_attribute(s, name) ==
  LET h == Least({j \in DOMAIN s : s[j] # EQUALS}, Len(s) + 1)
  IN AttributeFrom(s, h, name)
=============================================================================
