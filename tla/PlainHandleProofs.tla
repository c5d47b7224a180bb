-------------------------- MODULE PlainHandleProofs -------------------------
(***************************************************************************)
(* The properties of PlainHandle, for any bodies, hooks, limits and        *)
(* requests.                                                               *)
(***************************************************************************)
EXTENDS PlainHandle, BodyLemmas, FiniteSetTheorems

-----------------------------------------------------------------------------
(* The parts of the actions.                                               *)

\* init_body: a parser that takes over what waits for it, or a refusal.
HooksOf(p) == IF p = None THEN <<>> ELSE p.hook
Refused == {BADHEADER, OVERLIMIT, NOPARSER, NOHEADER}
LEMMA InitBodyEffect ==
  ASSUME TypeOK, init_body
  PROVE  /\ body_status' \in {APR_INCOMPLETE} \cup Refused
         /\ UNCHANGED <<in, body, bytes_read, shown, found>>
         /\ parser' \in Parser \cup {None} /\ hook_queue' \in Seq(Hooks)
         /\ body_status' = APR_INCOMPLETE \/ parser # None => parser' # None
         /\ hook_queue' \o HooksOf(parser') = hook_queue \o HooksOf(parser)
         /\ parser' # None => \/ parser'.mixhook = <<>>
                              \/ parser # None /\ parser'.mixhook = parser.mixhook
<1>. USE NullAssumption, NullParam
<1>1. /\ body_status' = Refusal /\ init_parser /\ UNCHANGED <<in, body, bytes_read, shown, found>>
      /\ Refusal \in {APR_INCOMPLETE} \cup Refused
  BY DEF init_body, Refusal, Refused
<1>2. CASE Refusal # APR_INCOMPLETE
  <2>1. parser' = parser /\ hook_queue' = hook_queue
    BY <1>1, <1>2 DEF init_parser
  <2>. QED  BY <1>1, <1>2, <2>1 DEF TypeOK
<1>3. CASE Refusal = APR_INCOMPLETE /\ parser = None
  <2>1. hook_queue' = <<>> /\ parser' = apreq_parser_make(brigade_limit, temp_dir, hook_queue)
    BY <1>1, <1>3 DEF init_parser
  <2>2. hook_queue \in Seq(AnyHook) /\ <<>> \in Seq(AnyHook) /\ <<>> \in Seq(Hooks)
    BY DEF TypeOK, AnyHook
  <2>3. parser' \in Parser /\ parser'.hook = hook_queue /\ parser'.mixhook = <<>>
    BY <2>1, <2>2 DEF TypeOK, Parser, Parsers, apreq_parser_make
  <2>4. <<>> \o hook_queue = hook_queue /\ hook_queue \o <<>> = hook_queue
    BY <2>2
  <2>. QED  BY <1>1, <1>3, <2>1, <2>2, <2>3, <2>4 DEF HooksOf
<1>4. CASE Refusal = APR_INCOMPLETE /\ parser # None
  <2>. DEFINE p == [parser EXCEPT !.brigade_limit = Min2(@, brigade_limit),
                                 !.temp_dir = IF temp_dir # None THEN temp_dir ELSE @]
  <2>1. hook_queue' = <<>> /\ parser' = [p EXCEPT !.hook = hook_queue \o @]
    BY <1>1, <1>4 DEF init_parser, apreq_parser_add_hook
  <2>2. parser \in Parser /\ hook_queue \in Seq(AnyHook) /\ parser.hook \in Seq(AnyHook)
    BY <1>4 DEF TypeOK, Parser, Parsers, AnyHook
  <2>3. hook_queue \o parser.hook \in Seq(AnyHook)
    BY <2>2, ConcatProperties
  <2>4. Min2(parser.brigade_limit, brigade_limit) \in Bytes
        /\ (IF temp_dir # None THEN temp_dir ELSE parser.temp_dir) \in Dirs \cup {None}
    BY <2>2 DEF TypeOK, Parser, Parsers, Min2
  <2>5. p \in Parser /\ p.hook = parser.hook /\ p.mixhook = parser.mixhook
    BY <2>2, <2>4 DEF Parser, Parsers
  <2>. HIDE DEF p
  <2>6. parser' \in Parser /\ parser'.hook = hook_queue \o parser.hook /\ parser'.mixhook = parser.mixhook
    BY <2>1, <2>3, <2>5 DEF Parser, Parsers
  <2>7. <<>> \o (hook_queue \o parser.hook) = hook_queue \o parser.hook /\ <<>> \in Seq(Hooks)
    BY <2>3
  <2>. QED  BY <1>1, <1>4, <2>1, <2>6, <2>7 DEF HooksOf
<1>. QED  BY <1>2, <1>3, <1>4

\* A read that does not reach the parser, and one that does.
Untouched == UNCHANGED <<parser, body, shown, found>> /\ body_status' \in {OVERLIMIT, "EIO"}
Parses(key, es) ==
  /\ parser' \in Parser /\ body_status' \in {GENERAL, APR_SUCCESS, APR_INCOMPLETE}
  /\ body' = body \o es /\ shown' \in Seq(Block)
  /\ found' = IF apreq_hook_find_param(es, key) # None THEN apreq_hook_find_param(es, key) ELSE found
  /\ \A i \in 1..Len(es) : es[i].by = Range(IF es[i].mixed THEN parser'.mixhook ELSE parser.hook)
  /\ parser'.hook = parser.hook /\ parser'.brigade_limit = parser.brigade_limit
  /\ parser'.temp_dir = parser.temp_dir
  /\ parser'.mixhook = parser.mixhook \/ (~parser.run /\ parser'.mixhook = parser.hook)
  /\ body_status' = APR_INCOMPLETE => parser'.run

\* The blocks that are read are the first of those that are left.
LEMMA PortionType ==
  ASSUME TypeOK
  PROVE  /\ Portion(ReadBlock) \in Seq(Block)
         /\ Len(Portion(ReadBlock)) \in 0..Len(in.data)
         /\ SubSeq(in.data, Len(Portion(ReadBlock)) + 1, Len(in.data)) \in Seq(Block)
         /\ Len(SubSeq(in.data, Len(Portion(ReadBlock)) + 1, Len(in.data)))
              = Len(in.data) - Len(Portion(ReadBlock))
<1>1. in.data \in Seq(Block) /\ Len(in.data) \in Nat
  BY DEF TypeOK
<1>2. PICK d \in Seq(Block) : d = in.data
  BY <1>1
<1>3. CASE Whole(ReadBlock)
  <2>1. ReadBlock \in Nat /\ ReadBlock <= Len(d)
    BY <1>1, <1>2, <1>3, Blocks DEF Whole
  <2>2. Portion(ReadBlock) = SubSeq(d, 1, ReadBlock)
    BY <1>2, <1>3 DEF Portion
  <2>3. SubSeq(d, 1, ReadBlock) \in Seq(Block) /\ Len(SubSeq(d, 1, ReadBlock)) = ReadBlock
    BY <2>1
  <2>4. /\ SubSeq(d, ReadBlock + 1, Len(d)) \in Seq(Block)
        /\ Len(SubSeq(d, ReadBlock + 1, Len(d))) = Len(d) - ReadBlock
    BY <2>1
  <2>5. Portion(ReadBlock) \in Seq(Block) /\ Len(Portion(ReadBlock)) = ReadBlock
    BY <2>2, <2>3, Zenon
  <2>6. ReadBlock \in 0..Len(d)
    BY <2>1
  <2>. QED  BY <1>2, <2>4, <2>5, <2>6, Zenon
<1>4. CASE ~Whole(ReadBlock)
  <2>1. Portion(ReadBlock) = d
    BY <1>2, <1>4 DEF Portion
  <2>2. /\ SubSeq(d, Len(d) + 1, Len(d)) \in Seq(Block)
        /\ Len(SubSeq(d, Len(d) + 1, Len(d))) = 0
    OBVIOUS
  <2>. QED  BY <1>1, <1>2, <2>1, <2>2
<1>. QED  BY <1>3, <1>4

LEMMA ReadEffect ==
  ASSUME TypeOK, parser # None, NEW key, NEW ok \in BOOLEAN,
         IF ok THEN ReadBlocks(key) ELSE ReadFails
  PROVE  /\ in' \in [data : Seq(Block), eos : BOOLEAN] /\ bytes_read' \in Bytes
         /\ Untouched \/ \E es \in Seq(Param) : Parses(key, es)
<1>1. CASE ~ok
  BY <1>1 DEF ReadFails, TypeOK, Untouched
<1>2. CASE ok
  <2>. DEFINE got   == Portion(ReadBlock)
              eos   == ~Whole(ReadBlock) /\ in.eos
              count == (bytes_read + Len(got)) % Width
              run   == apreq_parser_run(parser, body, got, eos, key)
  <2>1. /\ in' = [data |-> SubSeq(in.data, Len(got) + 1, Len(in.data)), eos |-> in.eos /\ ~eos]
        /\ bytes_read' = count
        /\ IF OverLimit(count)
           THEN body_status' = OVERLIMIT /\ UNCHANGED <<parser, body, shown, found>>
           ELSE /\ body_status' = run.rv
                /\ parser' = run.parser
                /\ body' = run.t
                /\ shown' = shown \o got
                /\ found' = IF run.found # None THEN run.found ELSE found
    BY <1>2 DEF ReadBlocks
  <2>2. /\ got \in Seq(Block) /\ Len(got) \in Nat /\ eos \in BOOLEAN
        /\ SubSeq(in.data, Len(got) + 1, Len(in.data)) \in Seq(Block)
    BY PortionType DEF TypeOK
  <2>3. parser \in Parser /\ body \in Seq(Param) /\ shown \in Seq(Block)
    BY DEF TypeOK
  <2>4. /\ run.parser \in Parser
        /\ run.rv \in {GENERAL, APR_SUCCESS, APR_INCOMPLETE}
        /\ RunKeeps(parser, run)
        /\ \E es \in Seq(Param) : RunAdds(parser, body, key, run, es)
    <3>. HIDE DEF got, eos
    <3>. QED  BY <2>2, <2>3, ParserRun DEF Parser
  <2>. HIDE DEF got, eos, run
  <2>5. in' \in [data : Seq(Block), eos : BOOLEAN]
    BY <2>1, <2>2 DEF TypeOK
  <2>6. bytes_read' \in Bytes
    <3>1. bytes_read + Len(got) \in Nat /\ Width \in Nat \ {0}
      BY <2>2, Blocks DEF TypeOK, Bytes
    <3>2. count \in 0..(Width - 1)
      BY <3>1
    <3>. QED  BY <2>1, <3>2 DEF Bytes
  <2>7. CASE OverLimit(count)
    BY <2>1, <2>5, <2>6, <2>7 DEF Untouched
  <2>8. CASE ~OverLimit(count)
    <3>1. PICK es \in Seq(Param) : RunAdds(parser, body, key, run, es)
      BY <2>4
    <3>2. /\ body_status' = run.rv /\ parser' = run.parser /\ body' = run.t
          /\ shown' = shown \o got /\ found' = IF run.found # None THEN run.found ELSE found
      BY <2>1, <2>8
    <3>3. shown \o got \in Seq(Block)
      BY <2>2, <2>3, ConcatProperties
    <3>4. Parses(key, es)
      BY <2>4, <3>1, <3>2, <3>3 DEF Parses, RunAdds, RunKeeps
    <3>. QED  BY <2>5, <2>6, <3>4
  <2>. QED  BY <2>7, <2>8
<1>. QED  BY <1>1, <1>2

-----------------------------------------------------------------------------
(* Every step keeps TypeOK and CallInv.                                    *)

LEMMA ReadTypes ==
  ASSUME TypeOK, parser # None, body_status # APR_EINIT, NEW key, NEW ok \in BOOLEAN,
         cgi_read(key, ok) \/ custom_parse_brigade(ok)
  PROVE  /\ in' \in [data : Seq(Block), eos : BOOLEAN] /\ bytes_read' \in Bytes
         /\ body_status' \in Statuses /\ body_status' # APR_EINIT /\ body' \in Seq(Param)
         /\ parser' \in Parser /\ found' \in Param \cup {None} /\ shown' \in Seq(Block)
<1>1. CASE UNCHANGED <<reading, parser>>
  BY <1>1 DEF TypeOK, reading
<1>2. ASSUME NEW k, IF ok THEN ReadBlocks(k) ELSE ReadFails
      PROVE  /\ in' \in [data : Seq(Block), eos : BOOLEAN] /\ bytes_read' \in Bytes
             /\ body_status' \in Statuses /\ body_status' # APR_EINIT /\ body' \in Seq(Param)
             /\ parser' \in Parser /\ found' \in Param \cup {None} /\ shown' \in Seq(Block)
  <2>. USE DEF APR_EINIT, GENERAL, APR_SUCCESS, APR_INCOMPLETE, OVERLIMIT
  <2>1. /\ in' \in [data : Seq(Block), eos : BOOLEAN] /\ bytes_read' \in Bytes
        /\ Untouched \/ \E es \in Seq(Param) : Parses(k, es)
    BY <1>2, ReadEffect
  <2>2. CASE Untouched
    BY <2>1, <2>2 DEF TypeOK, Untouched, Statuses
  <2>3. ASSUME NEW es \in Seq(Param), Parses(k, es)
        PROVE  /\ body_status' \in Statuses /\ body_status' # APR_EINIT /\ body' \in Seq(Param)
               /\ parser' \in Parser /\ found' \in Param \cup {None} /\ shown' \in Seq(Block)
    <3>1. body \o es \in Seq(Param)
      BY ConcatProperties DEF TypeOK
    <3>2. apreq_hook_find_param(es, k) \in Param \cup {None}
      BY TableGet
    <3>. QED  BY <2>3, <3>1, <3>2 DEF TypeOK, Parses, Statuses
  <2>. QED  BY <2>1, <2>2, <2>3
<1>. QED  BY <1>1, <1>2 DEF cgi_read, custom_parse_brigade

\* The answers of a header.
LEMMA HeaderTypes ==
  ASSUME TypeOK
  PROVE  /\ HeaderStatus(request.cookie) \in {NODATA, APR_SUCCESS, GENERAL}
         /\ HeaderStatus(request.args) \in {NODATA, APR_SUCCESS, GENERAL}
  BY Inputs DEF TypeOK, Request, Header, HeaderStatus

\* The hooks of the program are hooks.
LEMMA AddHooks ==
  ASSUME NEW p \in Parser, NEW hs \in Seq(AnyHook)
  PROVE  /\ apreq_parser_add_hook(p, hs) \in Parser /\ apreq_parser_add_hook(p, hs) # None
         /\ apreq_parser_add_hook(p, hs).hook = hs \o p.hook
         /\ apreq_parser_add_hook(p, hs).mixhook = p.mixhook /\ apreq_parser_add_hook(p, hs).run = p.run
         /\ apreq_parser_add_hook(p, hs).brigade_limit = p.brigade_limit
         /\ apreq_parser_add_hook(p, hs).temp_dir = p.temp_dir
<1>1. p.hook \in Seq(AnyHook)
  BY DEF Parser, Parsers
<1>2. PICK h \in Seq(AnyHook) : h = hs \o p.hook
  BY <1>1, ConcatProperties
<1>3. apreq_parser_add_hook(p, hs) = [p EXCEPT !.hook = h]
  BY <1>2 DEF apreq_parser_add_hook
<1>4. /\ [p EXCEPT !.hook = h] \in Parser /\ [p EXCEPT !.hook = h].hook = h
      /\ [p EXCEPT !.hook = h].mixhook = p.mixhook /\ [p EXCEPT !.hook = h].run = p.run
      /\ [p EXCEPT !.hook = h].brigade_limit = p.brigade_limit
      /\ [p EXCEPT !.hook = h].temp_dir = p.temp_dir
  BY DEF Parser, Parsers
<1>. QED  BY <1>2, <1>3, <1>4, NullAssumption, NullParam

LEMMA TypeStep ==
  ASSUME TypeOK, CallInv, HookInv, [Next]_vars
  PROVE  TypeOK' /\ CallInv'
<1>. USE NullAssumption, NullParam DEF Returns, Answers, Idle, NoAnswer, lazy, settings, hooked
<1>1. CASE Lazy
  <2>1. /\ UNCHANGED <<module, request, parser, reading, settings, hooked>> /\ call = Idle /\ Returns
        /\ {jar_status', args_status'} \subseteq {APR_EINIT, NODATA, APR_SUCCESS, GENERAL}
    BY <1>1, HeaderTypes DEF Lazy, cgi_jar, cgi_args, custom_jar, custom_args, TypeOK
  <2>. QED  BY <2>1 DEF TypeOK, CallInv, reading
<1>2. CASE cgi_body
  <2>. USE <1>2 DEF cgi_body
  <2>1. CASE body_status = APR_EINIT
    <3>1. init_body
      BY <2>1
    <3>2. /\ body_status' \in {APR_INCOMPLETE} \cup Refused
          /\ UNCHANGED <<in, body, bytes_read, shown, found>>
          /\ parser' \in Parser \cup {None} /\ hook_queue' \in Seq(Hooks)
          /\ body_status' = APR_INCOMPLETE \/ parser # None => parser' # None
      BY <3>1, InitBodyEffect
    <3>. HIDE DEF init_body
    <3>. QED  BY <3>2 DEF TypeOK, CallInv, Statuses, Refused, APR_EINIT, APR_INCOMPLETE, BADHEADER,
                         OVERLIMIT, NOPARSER, NOHEADER
  <2>2. CASE body_status # APR_EINIT
    BY <2>2 DEF TypeOK, CallInv, reading
  <2>. QED  BY <2>1, <2>2
<1>3. CASE custom_body
  BY <1>3 DEF custom_body, TypeOK, CallInv, reading
<1>4. ASSUME NEW name \in Names, cgi_body_get(name) PROVE TypeOK' /\ CallInv'
  <2>. USE <1>4 DEF cgi_body_get
  <2>1. CASE body_status = APR_EINIT
    <3>1. init_body
      BY <2>1 DEF APR_EINIT, APR_INCOMPLETE
    <3>2. /\ body_status' \in {APR_INCOMPLETE} \cup Refused
          /\ UNCHANGED <<in, body, bytes_read, shown, found>>
          /\ parser' \in Parser \cup {None} /\ hook_queue' \in Seq(Hooks)
          /\ body_status' = APR_INCOMPLETE \/ parser # None => parser' # None
      BY <3>1, InitBodyEffect
    <3>3. /\ UNCHANGED <<module, request, lazy, settings, added>> /\ module = "cgi"
          /\ \/ body_status' = APR_INCOMPLETE /\ call' = [op |-> "first", name |-> name] /\ ret' = ret
             \/ body_status' # APR_INCOMPLETE /\ Answers(name, None)
      BY <2>1 DEF APR_EINIT, APR_INCOMPLETE
    <3>. HIDE <1>4 DEF init_body, cgi_body_get
    <3>. QED  BY <3>2, <3>3
              DEF TypeOK, CallInv, Statuses, Refused, APR_EINIT, APR_INCOMPLETE, BADHEADER,
                  OVERLIMIT, NOPARSER, NOHEADER
  <2>2. CASE body_status = APR_INCOMPLETE
    BY <2>2 DEF TypeOK, CallInv, reading, APR_EINIT, APR_INCOMPLETE
  <2>3. CASE body_status \notin {APR_EINIT, APR_INCOMPLETE}
    <3>1. apr_table_get(body, name) \in Param \cup {None}
      BY TableGet DEF TypeOK
    <3>. QED  BY <2>3, <3>1 DEF TypeOK, CallInv, reading
  <2>. QED  BY <2>1, <2>2, <2>3
<1>5. ASSUME NEW name \in Names, custom_body_get(name) PROVE TypeOK' /\ CallInv'
  BY <1>5 DEF custom_body_get, TypeOK, CallInv, reading
<1>6. ASSUME NEW ok \in BOOLEAN, cgi_body_loop(ok) \/ custom_body_loop(ok) PROVE TypeOK' /\ CallInv'
  <2>1. /\ call.op = "body" /\ parser # None /\ body_status # APR_EINIT
        /\ cgi_read(None, ok) \/ custom_parse_brigade(ok)
        /\ UNCHANGED <<call, ret>> \/ Returns
        /\ UNCHANGED <<module, request, lazy, settings, hooked>>
    BY <1>6 DEF cgi_body_loop, custom_body_loop, CallInv
  <2>2. /\ in' \in [data : Seq(Block), eos : BOOLEAN] /\ bytes_read' \in Bytes
        /\ body_status' \in Statuses /\ body_status' # APR_EINIT /\ body' \in Seq(Param)
        /\ parser' \in Parser /\ found' \in Param \cup {None} /\ shown' \in Seq(Block)
    BY <2>1, ReadTypes
  <2>. QED  BY <2>1, <2>2 DEF TypeOK, CallInv
<1>7. ASSUME NEW ok \in BOOLEAN, cgi_body_get_first(ok) \/ cgi_body_get_scan(ok) PROVE TypeOK' /\ CallInv'
  <2>1. /\ call.op \in {"first", "scan"} /\ parser # None /\ body_status # APR_EINIT
        /\ module = "cgi"
        /\ \E key : cgi_read(key, ok)
        /\ call' \in {[call EXCEPT !.op = "look"], [call EXCEPT !.op = "leave"], [call EXCEPT !.op = "scan"]}
        /\ ret' = ret
        /\ UNCHANGED <<module, request, lazy, settings, hooked>>
    BY <1>7 DEF cgi_body_get_first, cgi_body_get_scan, CallInv
  <2>2. /\ in' \in [data : Seq(Block), eos : BOOLEAN] /\ bytes_read' \in Bytes
        /\ body_status' \in Statuses /\ body_status' # APR_EINIT /\ body' \in Seq(Param)
        /\ parser' \in Parser /\ found' \in Param \cup {None} /\ shown' \in Seq(Block)
    BY <2>1, ReadTypes
  <2>. QED  BY <2>1, <2>2 DEF TypeOK, CallInv
<1>8. CASE cgi_body_get_look
  <2>. USE <1>8 DEF cgi_body_get_look
  <2>1. parser \in Parser /\ call.op = "look" /\ call.name \in Names
    BY DEF TypeOK, CallInv
  <2>2. apr_table_get(body, call.name) \in Param \cup {None}
    BY TableGet DEF TypeOK
  <2>3. <<find_param>> \in Seq(AnyHook)
    BY DEF AnyHook
  <2>4. apreq_parser_add_hook(parser, <<find_param>>) \in Parser
    BY <2>1, <2>3, AddHooks
  <2>. QED  BY <2>1, <2>2, <2>4 DEF TypeOK, CallInv
<1>9. CASE cgi_body_get_leave
  <2>. USE <1>9 DEF cgi_body_get_leave
  <2>1. parser \in Parser /\ call.op = "leave" /\ call.name \in Names
    BY DEF TypeOK, CallInv
  <2>2. parser' \in Parser
    <3>1. parser.hook \in Seq(AnyHook) /\ parser.hook # <<>>
      BY <2>1 DEF Parser, Parsers, HookInv, Scanning
    <3>2. Tail(parser.hook) \in Seq(AnyHook)
      BY <3>1
    <3>3. \A h \in Seq(AnyHook) : [parser EXCEPT !.hook = h] \in Parser
      BY <2>1 DEF Parser, Parsers
    <3>. QED  BY <3>2, <3>3 DEF WithoutFind
  <2>. QED  BY <2>1, <2>2 DEF TypeOK, CallInv, reading
<1>10. ASSUME NEW ok \in BOOLEAN, custom_body_get_loop(ok) PROVE TypeOK' /\ CallInv'
  <2>. USE <1>10 DEF custom_body_get_loop
  <2>1. parser # None /\ call.op = "get" /\ call.name \in Names /\ body_status # APR_EINIT
    BY DEF TypeOK, CallInv
  <2>2. apr_table_get(body, call.name) \in Param \cup {None}
    BY TableGet DEF TypeOK
  <2>3. CASE Answers(call.name, apr_table_get(body, call.name)) /\ UNCHANGED <<reading, parser>>
    BY <2>1, <2>2, <2>3 DEF TypeOK, CallInv, reading
  <2>4. CASE custom_parse_brigade(ok) /\ UNCHANGED <<call, ret>>
    <3>1. /\ in' \in [data : Seq(Block), eos : BOOLEAN] /\ bytes_read' \in Bytes
          /\ body_status' \in Statuses /\ body_status' # APR_EINIT /\ body' \in Seq(Param)
          /\ parser' \in Parser /\ found' \in Param \cup {None} /\ shown' \in Seq(Block)
      BY <2>1, <2>4, ReadTypes
    <3>. QED  BY <2>1, <2>4, <3>1 DEF TypeOK, CallInv
  <2>. QED  BY <2>3, <2>4
<1>11. ASSUME NEW p \in OwnParsers, cgi_parser_set(p) PROVE TypeOK' /\ CallInv'
  <2>. USE <1>11 DEF cgi_parser_set
  <2>1. p \in Parser
    <3>1. PICK l \in Limits \cup {NoLimit}, d \in Dirs \cup {None} : p = apreq_parser_make(l, d, <<>>)
      BY DEF OwnParsers
    <3>2. l \in Bytes /\ <<>> \in Seq(AnyHook)
      BY LimitValues, Blocks DEF Bytes, NoLimit
    <3>. QED  BY <3>1, <3>2 DEF apreq_parser_make, Parser, Parsers
  <2>2. hook_queue \in Seq(AnyHook) /\ <<>> \in Seq(Hooks)
    BY DEF TypeOK, AnyHook
  <2>3. Inherits(p) \in Parser
    BY <2>1 DEF Inherits, Parser, Parsers, TypeOK, Min2, Bytes
  <2>4. apreq_parser_add_hook(Inherits(p), hook_queue) \in Parser
    BY <2>2, <2>3, AddHooks
  <2>5. CASE parser = None
    BY <2>2, <2>4, <2>5 DEF TypeOK, CallInv, reading
  <2>6. CASE parser # None
    BY <2>6 DEF TypeOK, CallInv, reading
  <2>. QED  BY <2>5, <2>6
<1>12. ASSUME NEW h \in Hooks, cgi_hook_add(h) PROVE TypeOK' /\ CallInv'
  <2>. USE <1>12 DEF cgi_hook_add
  <2>1. <<h>> \in Seq(AnyHook) /\ Append(hook_queue, h) \in Seq(Hooks)
    BY DEF TypeOK, AnyHook
  <2>2. parser # None => apreq_parser_add_hook(parser, <<h>>) \in Parser
    BY <2>1, AddHooks DEF TypeOK
  <2>. QED  BY <2>1, <2>2 DEF TypeOK, CallInv, reading
<1>13. ASSUME NEW h \in Hooks, custom_hook_add(h) PROVE TypeOK' /\ CallInv'
  <2>. USE <1>13 DEF custom_hook_add
  <2>1. <<h>> \in Seq(AnyHook) /\ parser \in Parser
    BY DEF TypeOK, AnyHook, CallInv
  <2>2. apreq_parser_add_hook(parser, <<h>>) \in Parser
    BY <2>1, AddHooks DEF TypeOK
  <2>. QED  BY <2>1, <2>2 DEF TypeOK, CallInv, reading
<1>14. ASSUME NEW l \in Limits, cgi_brigade_limit_set(l) PROVE TypeOK' /\ CallInv'
  <2>. USE <1>14 DEF cgi_brigade_limit_set
  <2>1. l \in Bytes
    BY LimitValues DEF Bytes
  <2>2. parser # None => [parser EXCEPT !.brigade_limit = l] \in Parser
    BY <2>1 DEF TypeOK, Parser, Parsers
  <2>3. brigade_limit' \in Bytes /\ parser' \in Parser \cup {None} /\ (parser' = None <=> parser = None)
    BY <2>1, <2>2 DEF TypeOK
  <2>. QED  BY <2>3 DEF TypeOK, CallInv, reading
<1>15. ASSUME NEW l \in Limits, cgi_read_limit_set(l) PROVE TypeOK' /\ CallInv'
  <2>. USE <1>15 DEF cgi_read_limit_set
  <2>1. l \in Bytes
    BY LimitValues DEF Bytes
  <2>. QED  BY <2>1 DEF TypeOK, CallInv, reading
<1>16. ASSUME NEW d \in Dirs, cgi_temp_dir_set(d) PROVE TypeOK' /\ CallInv'
  <2>. USE <1>16 DEF cgi_temp_dir_set
  <2>1. parser # None => [parser EXCEPT !.temp_dir = d] \in Parser
    BY DEF TypeOK, Parser, Parsers
  <2>2. temp_dir' \in Dirs \cup {None} /\ parser' \in Parser \cup {None} /\ (parser' = None <=> parser = None)
    BY <2>1 DEF TypeOK
  <2>. QED  BY <2>2 DEF TypeOK, CallInv, reading
<1>17. CASE custom_set
  BY <1>17 DEF custom_set, TypeOK, CallInv, reading
<1>18. CASE UNCHANGED vars
  BY <1>18 DEF TypeOK, CallInv, vars
<1>. QED  BY <1>1, <1>2, <1>3, <1>4, <1>5, <1>6, <1>7, <1>8, <1>9, <1>10, <1>11, <1>12, <1>13,
             <1>14, <1>15, <1>16, <1>17, <1>18 DEF Next, Ask, Work, Configure

-----------------------------------------------------------------------------
(* Every step keeps HookInv.                                               *)

\* A read leaves the list of hooks alone.
LEMMA ReadHooks ==
  ASSUME TypeOK, parser # None, NEW key, NEW ok \in BOOLEAN,
         cgi_read(key, ok) \/ custom_parse_brigade(ok)
  PROVE  parser' # None /\ parser'.hook = parser.hook
<1>1. CASE UNCHANGED <<reading, parser>>
  BY <1>1
<1>2. ASSUME NEW k, IF ok THEN ReadBlocks(k) ELSE ReadFails
      PROVE  parser' # None /\ parser'.hook = parser.hook
  <2>1. Untouched \/ \E es \in Seq(Param) : Parses(k, es)
    BY <1>2, ReadEffect
  <2>. QED  BY <2>1, NullAssumption, NullParam DEF Untouched, Parses
<1>. QED  BY <1>1, <1>2 DEF cgi_read, custom_parse_brigade

\* One hook more.
LEMMA OneHook ==
  ASSUME NEW u \in Seq(AnyHook), NEW w \in Seq(AnyHook), NEW x \in AnyHook, NEW S, x \notin S,
         IsFiniteSet(S), Range(u \o w) = S, Len(u \o w) = Cardinality(S)
  PROVE  /\ IsFiniteSet(S \cup {x})
         /\ Range(u \o (<<x>> \o w)) = S \cup {x}
         /\ Len(u \o (<<x>> \o w)) = Cardinality(S \cup {x})
         /\ Append(u, x) \o w = u \o (<<x>> \o w)
<1>1. IsFiniteSet(S \cup {x}) /\ Cardinality(S \cup {x}) = Cardinality(S) + 1
  BY FS_AddElement
<1>2. <<x>> \in Seq(AnyHook) /\ <<x>> \o w \in Seq(AnyHook)
  OBVIOUS
<1>3. Range(u \o w) = Range(u) \cup Range(w)
  BY RangeConcatenation
<1>4. Range(<<x>> \o w) = Range(<<x>>) \cup Range(w) /\ Range(<<x>>) = {x}
  <2>1. Range(<<x>>) = {x}
    BY DEF Range
  <2>2. PICK v \in Seq(AnyHook) : v = <<x>>
    BY <1>2
  <2>3. Range(v \o w) = Range(v) \cup Range(w)
    BY RangeConcatenation
  <2>. QED  BY <2>1, <2>2, <2>3
<1>5. Range(u \o (<<x>> \o w)) = Range(u) \cup Range(<<x>> \o w)
  <2>1. PICK v \in Seq(AnyHook) : v = <<x>> \o w
    BY <1>2
  <2>2. Range(u \o v) = Range(u) \cup Range(v)
    BY RangeConcatenation
  <2>. QED  BY <2>1, <2>2
<1>6. Len(u \o w) = Len(u) + Len(w) /\ Len(u \o (<<x>> \o w)) = Len(u) + (1 + Len(w))
  OBVIOUS
<1>7. Append(u, x) \o w = u \o (<<x>> \o w)
  OBVIOUS
<1>8. Range(u \o (<<x>> \o w)) = S \cup {x}
  BY <1>3, <1>4, <1>5
<1>9. Len(u \o (<<x>> \o w)) = Cardinality(S) + 1
  <2>1. Len(u) \in Nat /\ Len(w) \in Nat
    OBVIOUS
  <2>. QED  BY <1>6, <2>1
<1>. QED  BY <1>1, <1>7, <1>8, <1>9

LEMMA HookStep ==
  ASSUME TypeOK, CallInv, HookInv, [Next]_vars
  PROVE  HookInv'
<1>. USE NullAssumption, NullParam DEF Returns, Answers, Idle, lazy, settings, hooked
<1>0. ASSUME OwnHooks' = OwnHooks, UNCHANGED hooked,
             Scanning' => parser'.hook # <<>> /\ Head(parser'.hook) = find_param
      PROVE  HookInv'
  BY <1>0 DEF HookInv
<1>1. CASE parser' = parser /\ UNCHANGED hooked /\ (Scanning' <=> Scanning)
  <2>1. OwnHooks' = OwnHooks
    BY <1>1 DEF OwnHooks
  <2>. QED  BY <1>0, <1>1, <2>1 DEF HookInv
<1>2. CASE Lazy \/ custom_body \/ custom_set \/ UNCHANGED vars
  <2>1. parser' = parser /\ UNCHANGED hooked /\ (Scanning' <=> Scanning)
    BY <1>2 DEF Lazy, cgi_jar, cgi_args, custom_jar, custom_args, custom_body, custom_set, vars, Scanning
  <2>. QED  BY <1>1, <2>1
<1>3. ASSUME init_body, UNCHANGED added, ~Scanning, ~Scanning' PROVE HookInv'
  <2>1. hook_queue' \o HooksOf(parser') = hook_queue \o HooksOf(parser)
    BY <1>3, InitBodyEffect
  <2>2. OwnHooks = HooksOf(parser) /\ OwnHooks' = HooksOf(parser')
    BY <1>3 DEF OwnHooks, HooksOf
  <2>. HIDE DEF init_body, Scanning, OwnHooks, HooksOf
  <2>. QED  BY <1>3, <2>1, <2>2 DEF HookInv
<1>4. CASE cgi_body
  <2>1. ~Scanning /\ ~Scanning' /\ UNCHANGED added
    BY <1>4 DEF cgi_body, Scanning
  <2>2. init_body \/ (parser' = parser /\ UNCHANGED hooked)
    BY <1>4 DEF cgi_body
  <2>. QED  BY <1>1, <1>3, <2>1, <2>2
<1>5. ASSUME NEW name \in Names, cgi_body_get(name) PROVE HookInv'
  <2>1. ~Scanning /\ ~Scanning' /\ UNCHANGED added
    BY <1>5 DEF cgi_body_get, Scanning
  <2>2. init_body \/ (parser' = parser /\ UNCHANGED hooked)
    BY <1>5 DEF cgi_body_get
  <2>. QED  BY <1>1, <1>3, <2>1, <2>2
<1>6. ASSUME NEW name \in Names, custom_body_get(name) PROVE HookInv'
  BY <1>1, <1>6 DEF custom_body_get, Scanning
<1>7. ASSUME NEW ok \in BOOLEAN, NEW key, cgi_read(key, ok) \/ custom_parse_brigade(ok), parser # None,
             UNCHANGED hooked, Scanning' <=> Scanning
      PROVE  HookInv'
  <2>1. parser' # None /\ parser'.hook = parser.hook
    BY <1>7, ReadHooks
  <2>2. OwnHooks' = OwnHooks
    BY <1>7, <2>1 DEF OwnHooks
  <2>. QED  BY <1>0, <1>7, <2>1, <2>2 DEF HookInv
<1>8. ASSUME NEW ok \in BOOLEAN, cgi_body_loop(ok) \/ custom_body_loop(ok) PROVE HookInv'
  <2>1. /\ cgi_read(None, ok) \/ custom_parse_brigade(ok)
        /\ parser # None /\ UNCHANGED hooked /\ (Scanning' <=> Scanning)
    BY <1>8 DEF cgi_body_loop, custom_body_loop, CallInv, Scanning
  <2>. QED  BY <1>7, <2>1
<1>9. ASSUME NEW ok \in BOOLEAN, cgi_body_get_first(ok) PROVE HookInv'
  <2>1. /\ cgi_read(None, ok)
        /\ parser # None /\ UNCHANGED hooked /\ (Scanning' <=> Scanning)
    BY <1>9 DEF cgi_body_get_first, CallInv, Scanning, TypeOK
  <2>. QED  BY <1>7, <2>1
<1>10. ASSUME NEW ok \in BOOLEAN, cgi_body_get_scan(ok) PROVE HookInv'
  <2>1. /\ cgi_read(call.name, ok)
        /\ parser # None /\ UNCHANGED hooked /\ (Scanning' <=> Scanning)
    BY <1>10 DEF cgi_body_get_scan, CallInv, Scanning, TypeOK
  <2>. QED  BY <1>7, <2>1
<1>11. CASE cgi_body_get_look
  <2>1. call.op = "look" /\ parser \in Parser /\ ~Scanning
    BY <1>11 DEF cgi_body_get_look, CallInv, TypeOK, Scanning
  <2>2. CASE apr_table_get(body, call.name) # None
    <3>1. parser' = parser /\ UNCHANGED hooked /\ ~Scanning'
      BY <1>11, <2>2 DEF cgi_body_get_look, Scanning
    <3>. QED  BY <1>1, <2>1, <3>1
  <2>3. CASE apr_table_get(body, call.name) = None
    <3>1. parser' = apreq_parser_add_hook(parser, <<find_param>>)
      BY <1>11, <2>1, <2>3 DEF cgi_body_get_look
    <3>2. parser' # None /\ parser'.hook = <<find_param>> \o parser.hook
      <4>1. parser.hook \in Seq(AnyHook) /\ <<find_param>> \in Seq(AnyHook)
        BY <2>1 DEF Parser, Parsers, AnyHook
      <4>. QED  BY <2>1, <3>1, <4>1, AddHooks
    <3>3. Scanning' /\ UNCHANGED hooked
      BY <1>11, <2>1, <2>3 DEF cgi_body_get_look, Scanning, TypeOK
    <3>4. PICK hs \in Seq(AnyHook) : hs = parser.hook
      BY <2>1 DEF Parser, Parsers
    <3>5. /\ <<find_param>> \o hs # <<>> /\ Head(<<find_param>> \o hs) = find_param
          /\ Tail(<<find_param>> \o hs) = hs
      BY DEF AnyHook
    <3>6. OwnHooks = hs /\ OwnHooks' = Tail(<<find_param>> \o hs)
      BY <2>1, <3>2, <3>3, <3>4 DEF OwnHooks
    <3>. QED  BY <1>0, <3>2, <3>3, <3>4, <3>5, <3>6
  <2>. QED  BY <2>2, <2>3
<1>12. CASE cgi_body_get_leave
  <2>1. /\ parser \in Parser /\ Scanning /\ ~Scanning' /\ UNCHANGED hooked
        /\ parser' = [parser EXCEPT !.hook = Tail(@)]
    BY <1>12 DEF cgi_body_get_leave, CallInv, TypeOK, Scanning, WithoutFind
  <2>2. parser' # None /\ parser'.hook = Tail(parser.hook)
    <3>1. parser'.hook = Tail(parser.hook)
      BY <2>1 DEF Parser, Parsers
    <3>2. parser' # None
      <4>1. parser.hook \in Seq(AnyHook) /\ parser.hook # <<>>
        BY <2>1 DEF Parser, Parsers, HookInv, Scanning
      <4>2. Tail(parser.hook) \in Seq(AnyHook)
        BY <4>1
      <4>3. \A h \in Seq(AnyHook) : [parser EXCEPT !.hook = h] \in Parser
        BY <2>1 DEF Parser, Parsers
      <4>. QED  BY <2>1, <4>2, <4>3
    <3>. QED  BY <3>1, <3>2
  <2>3. OwnHooks = Tail(parser.hook) /\ OwnHooks' = Tail(parser.hook)
    BY <2>1, <2>2 DEF OwnHooks
  <2>. QED  BY <1>0, <2>1, <2>3
<1>13. ASSUME NEW ok \in BOOLEAN, custom_body_get_loop(ok) PROVE HookInv'
  <2>1. parser # None /\ UNCHANGED hooked /\ (Scanning' <=> Scanning)
        /\ (parser' = parser \/ custom_parse_brigade(ok))
    BY <1>13 DEF custom_body_get_loop, CallInv, Scanning
  <2>. QED  BY <1>1, <1>7, <2>1
<1>14. ASSUME NEW p \in OwnParsers, cgi_parser_set(p) PROVE HookInv'
  <2>1. ~Scanning /\ ~Scanning' /\ UNCHANGED added
    BY <1>14 DEF cgi_parser_set, Scanning
  <2>2. CASE parser # None
    BY <1>1, <1>14, <2>1, <2>2 DEF cgi_parser_set
  <2>3. CASE parser = None
    <3>1. hook_queue' = <<>> /\ parser' = apreq_parser_add_hook(Inherits(p), hook_queue)
      BY <1>14, <2>3 DEF cgi_parser_set
    <3>2. Inherits(p) \in Parser /\ Inherits(p).hook = <<>>
      <4>1. PICK l \in Limits \cup {NoLimit}, d \in Dirs \cup {None} : p = apreq_parser_make(l, d, <<>>)
        BY DEF OwnParsers
      <4>2. l \in Bytes /\ <<>> \in Seq(AnyHook)
        BY LimitValues, Blocks DEF Bytes, NoLimit
      <4>3. p \in Parser /\ p.hook = <<>>
        BY <4>1, <4>2 DEF apreq_parser_make, Parser, Parsers
      <4>. QED  BY <4>3 DEF Inherits, Parser, Parsers, TypeOK, Min2, Bytes
    <3>3. hook_queue \in Seq(AnyHook) /\ hook_queue \in Seq(Hooks)
      BY DEF TypeOK, AnyHook
    <3>4. parser' \in Parser
      BY <3>1, <3>2, <3>3, AddHooks
    <3>5. parser'.hook = hook_queue \o <<>>
      BY <3>1, <3>2, <3>3, AddHooks
    <3>6. hook_queue \o <<>> = hook_queue /\ <<>> \o hook_queue = hook_queue
      BY <3>3
    <3>7. OwnHooks = <<>> /\ OwnHooks' = hook_queue
      BY <2>1, <2>3, <3>4, <3>5, <3>6 DEF OwnHooks
    <3>8. hook_queue' \o OwnHooks' = hook_queue \o OwnHooks
      BY <3>1, <3>6, <3>7
    <3>. HIDE DEF OwnHooks, Scanning
    <3>. QED  BY <2>1, <3>8 DEF HookInv
  <2>. QED  BY <2>2, <2>3
<1>15. ASSUME NEW h \in Hooks, cgi_hook_add(h) \/ custom_hook_add(h) PROVE HookInv'
  <2>1. ~Scanning /\ ~Scanning' /\ added' = added \cup {h} /\ h \notin added
    BY <1>15 DEF cgi_hook_add, custom_hook_add, Scanning
  <2>2. PICK u \in Seq(AnyHook), w \in Seq(AnyHook) : u = hook_queue /\ w = OwnHooks
    <3>1. hook_queue \in Seq(AnyHook)
      BY DEF TypeOK, AnyHook
    <3>2. parser # None => parser.hook \in Seq(AnyHook)
      BY DEF TypeOK, Parser, Parsers
    <3>3. OwnHooks \in Seq(AnyHook)
      BY <2>1, <3>2 DEF OwnHooks
    <3>. QED  BY <3>1, <3>3
  <2>3. h \in AnyHook
    BY DEF AnyHook
  <2>4. /\ IsFiniteSet(added')
        /\ Range(u \o (<<h>> \o w)) = added' /\ Len(u \o (<<h>> \o w)) = Cardinality(added')
        /\ Append(u, h) \o w = u \o (<<h>> \o w)
    <3>1. IsFiniteSet(added) /\ Range(u \o w) = added /\ Len(u \o w) = Cardinality(added)
      BY <2>2 DEF HookInv
    <3>2. /\ IsFiniteSet(added \cup {h})
          /\ Range(u \o (<<h>> \o w)) = added \cup {h}
          /\ Len(u \o (<<h>> \o w)) = Cardinality(added \cup {h})
          /\ Append(u, h) \o w = u \o (<<h>> \o w)
      <4>1. h \notin added
        BY <2>1
      <4>. QED  BY <2>3, <3>1, <4>1, OneHook
    <3>. QED  BY <2>1, <3>2
  <2>5. hook_queue' \o OwnHooks' = u \o (<<h>> \o w)
    <3>1. CASE parser = None
      <4>1. hook_queue' = Append(u, h) /\ OwnHooks' = w
        BY <1>15, <2>1, <2>2, <3>1 DEF cgi_hook_add, custom_hook_add, OwnHooks, CallInv
      <4>. QED  BY <2>4, <4>1
    <3>2. CASE parser # None
      <4>1. parser \in Parser /\ <<h>> \in Seq(AnyHook)
        BY <2>3, <3>2 DEF TypeOK
      <4>2. hook_queue' = u /\ parser' = apreq_parser_add_hook(parser, <<h>>)
        BY <1>15, <2>2, <3>2 DEF cgi_hook_add, custom_hook_add
      <4>3. parser' # None /\ parser'.hook = <<h>> \o parser.hook
        BY <4>1, <4>2, AddHooks
      <4>4. OwnHooks' = <<h>> \o w
        BY <2>1, <2>2, <3>2, <4>3 DEF OwnHooks
      <4>. QED  BY <4>2, <4>4
    <3>. QED  BY <3>1, <3>2
  <2>. HIDE DEF OwnHooks, Scanning
  <2>. QED  BY <2>1, <2>4, <2>5 DEF HookInv
<1>16. ASSUME NEW l \in Limits, cgi_brigade_limit_set(l) PROVE HookInv'
  <2>1. ~Scanning /\ ~Scanning' /\ UNCHANGED hooked
    BY <1>16 DEF cgi_brigade_limit_set, Scanning
  <2>2. l \in Bytes
    BY LimitValues DEF Bytes
  <2>3. parser # None => parser \in Parser /\ [parser EXCEPT !.brigade_limit = l] \in Parser
    BY <2>2 DEF TypeOK, Parser, Parsers
  <2>4. parser # None => [parser EXCEPT !.brigade_limit = l].hook = parser.hook
    BY <2>3 DEF Parser, Parsers
  <2>5. OwnHooks' = OwnHooks
    BY <1>16, <2>1, <2>3, <2>4 DEF cgi_brigade_limit_set, OwnHooks
  <2>. QED  BY <1>0, <2>1, <2>5
<1>17. ASSUME NEW l \in Limits, cgi_read_limit_set(l) PROVE HookInv'
  BY <1>1, <1>17 DEF cgi_read_limit_set, Scanning
<1>18. ASSUME NEW d \in Dirs, cgi_temp_dir_set(d) PROVE HookInv'
  <2>1. ~Scanning /\ ~Scanning' /\ UNCHANGED hooked
    BY <1>18 DEF cgi_temp_dir_set, Scanning
  <2>2. parser # None => parser \in Parser /\ [parser EXCEPT !.temp_dir = d] \in Parser
    BY DEF TypeOK, Parser, Parsers
  <2>3. parser # None => [parser EXCEPT !.temp_dir = d].hook = parser.hook
    BY <2>2 DEF Parser, Parsers
  <2>4. OwnHooks' = OwnHooks
    BY <1>18, <2>1, <2>2, <2>3 DEF cgi_temp_dir_set, OwnHooks
  <2>. QED  BY <1>0, <2>1, <2>4
<1>. QED  BY <1>2, <1>4, <1>5, <1>6, <1>8, <1>9, <1>10, <1>11, <1>12, <1>13, <1>14, <1>15,
             <1>16, <1>17, <1>18 DEF Next, Ask, Work, Configure

-----------------------------------------------------------------------------
(* Every step keeps ScanInv and BodyGetExact.                              *)

\* A name that is not in the table is not in it outside multipart/mixed.
LEMMA NotInTable ==
  ASSUME NEW t \in Seq(Param), NEW name, apr_table_get(t, name) = None
  PROVE  OutsideMixed(t, name) = None
<1>1. \A i \in 1..Len(t) : t[i].name # name
  BY TableGet
<1>2. {i \in DOMAIN t : t[i].name = name /\ ~t[i].mixed} = {}
  BY <1>1
<1>. QED  BY <1>2 DEF OutsideMixed, FirstAt

\* What the hook finds in the new entries is what the whole table then shows.
LEMMA ScanFinds ==
  ASSUME NEW t \in Seq(Param), NEW es \in Seq(Param), NEW name, NEW hook, NEW mixhook,
         OutsideMixed(t, name) = None, find_param \in Range(hook), find_param \notin Range(mixhook),
         \A i \in 1..Len(es) : es[i].by = Range(IF es[i].mixed THEN mixhook ELSE hook)
  PROVE  apreq_hook_find_param(es, name) = OutsideMixed(t \o es, name)
<1>. DEFINE n == Len(t)
            u == t \o es
            I == {i \in DOMAIN t : t[i].name = name /\ ~t[i].mixed}
            J == {i \in DOMAIN es : find_param \in es[i].by /\ es[i].name = name}
            K == {i \in DOMAIN u : u[i].name = name /\ ~u[i].mixed}
<1>1. /\ u \in Seq(Param) /\ Len(u) = n + Len(es) /\ n \in Nat /\ Len(es) \in Nat
      /\ \A i \in 1..n : u[i] = t[i]
      /\ \A i \in 1..Len(es) : u[n + i] = es[i]
      /\ DOMAIN u = 1..(n + Len(es)) /\ DOMAIN t = 1..n /\ DOMAIN es = 1..Len(es)
  OBVIOUS
<1>2. I = {}
  <2>1. I \in SUBSET (1..Len(t))
    BY <1>1
  <2>2. FirstAt(t, I) = None
    BY DEF OutsideMixed
  <2>. HIDE DEF I
  <2>. QED  BY <2>1, <2>2, FirstPlace
<1>3. \A i \in 1..Len(es) : i \in J <=> es[i].name = name /\ ~es[i].mixed
  <2>1. \A i \in 1..Len(es) : es[i].mixed \in BOOLEAN
    <3>1. \A i \in 1..Len(es) : es[i] \in Param
      OBVIOUS
    <3>2. \A e \in Param : e.mixed \in BOOLEAN
      BY DEF Param
    <3>. QED  BY <3>1, <3>2, Zenon
  <2>. QED  BY <1>1, <2>1
<1>. HIDE DEF u
<1>4. \A i \in 1..n : i \notin K
  BY <1>1, <1>2
<1>5. \A i \in 1..Len(es) : n + i \in K <=> i \in J
  <2>1. \A i \in 1..Len(es) : n + i \in DOMAIN u
    BY <1>1
  <2>. QED  BY <1>1, <1>3, <2>1
<1>6. \A k \in K : k - n \in J /\ k = n + (k - n)
  <2>1. SUFFICES ASSUME NEW k \in K PROVE k - n \in J /\ k = n + (k - n)
    OBVIOUS
  <2>2. k \in 1..(n + Len(es)) /\ k \notin 1..n
    BY <1>1, <1>4
  <2>3. k - n \in 1..Len(es) /\ k = n + (k - n)
    BY <1>1, <2>2
  <2>. HIDE DEF K, J
  <2>4. PICK j \in 1..Len(es) : j = k - n /\ k = n + j
    BY <2>3
  <2>. QED  BY <1>5, <2>4
<1>7. J \in SUBSET (1..Len(es)) /\ K \in SUBSET (1..Len(u)) /\ J \subseteq Nat /\ K \subseteq Nat
  BY <1>1
<1>8. apreq_hook_find_param(es, name) = FirstAt(es, J) /\ OutsideMixed(u, name) = FirstAt(u, K)
  BY DEF apreq_hook_find_param, OutsideMixed
<1>. HIDE DEF J, K, n
<1>9. CASE J = {}
  <2>1. K = {}
    BY <1>6, <1>9
  <2>. QED  BY <1>8, <1>9, <2>1 DEF FirstAt, u
<1>10. CASE J # {}
  <2>1. PICK m \in J : FirstAt(es, J) = es[m] /\ \A j \in J : m <= j
    BY <1>7, <1>10, FirstPlace
  <2>2. PICK k \in K : k = n + m
    BY <1>5, <1>7, <2>1
  <2>3. \A j \in K : k <= j
    <3>1. SUFFICES ASSUME NEW j \in K PROVE k <= j
      OBVIOUS
    <3>2. j - n \in J /\ j \in Nat /\ n \in Nat /\ m \in Nat
      BY <1>1, <1>6, <1>7
    <3>3. m <= j - n
      BY <2>1, <3>2
    <3>. QED  BY <2>2, <3>2, <3>3
  <2>4. FirstAt(u, K) = u[k]
    BY <1>1, <1>7, <2>3, FirstPlace
  <2>5. u[k] = es[m]
    <3>1. m \in 1..Len(es)
      BY <1>7
    <3>. QED  BY <1>1, <2>2, <3>1, Zenon
  <2>. QED  BY <1>8, <2>1, <2>4, <2>5 DEF u
<1>. QED  BY <1>9, <1>10

\* The parser's hooks outside a scan are the program's.
LEMMA NoFindParam ==
  ASSUME TypeOK, HookInv, parser # None, ~Scanning
  PROVE  find_param \notin Range(parser.hook)
<1>1. PICK u \in Seq(AnyHook), w \in Seq(AnyHook) : u = hook_queue /\ w = parser.hook
  BY DEF TypeOK, Parser, Parsers, AnyHook
<1>2. Range(u \o w) = added
  BY <1>1 DEF HookInv, OwnHooks
<1>3. Range(w) \subseteq Range(u \o w)
  BY RangeConcatenation
<1>. QED  BY <1>1, <1>2, <1>3, HookNames DEF TypeOK

\* A read, whoever asks for it, keeps the mixed parser free of find_param.
LEMMA ReadScan ==
  ASSUME TypeOK, CallInv, HookInv, ScanInv, parser # None, body_status # APR_EINIT,
         NEW key, NEW ok \in BOOLEAN,
         (module = "cgi" /\ cgi_read(key, ok)) \/ (module = "custom" /\ custom_parse_brigade(ok)),
         module = "cgi" => call.op # "idle"
  PROVE  /\ body_status' # APR_EINIT
         /\ find_param \notin Range(parser'.mixhook)
         /\ body_status' = APR_INCOMPLETE => parser'.run
<1>0. parser \in Parser
  BY DEF TypeOK
<1>1. CASE body_status # APR_INCOMPLETE
  BY <1>1 DEF cgi_read, custom_parse_brigade, ScanInv, reading
<1>2. CASE body_status = APR_INCOMPLETE
  <2>1. PICK k : IF ok THEN ReadBlocks(k) ELSE ReadFails
    BY <1>2 DEF cgi_read, custom_parse_brigade
  <2>2. Untouched \/ \E es \in Seq(Param) : Parses(k, es)
    BY <2>1, ReadEffect
  <2>3. Scanning => parser.run
    BY <1>2 DEF ScanInv, Scanning, CallInv, TypeOK
  <2>4. ~parser.run => find_param \notin Range(parser.hook)
    BY <2>3, NoFindParam
  <2>5. find_param \notin Range(parser.mixhook)
    BY DEF ScanInv
  <2>. QED  BY <2>2, <2>4, <2>5 DEF Untouched, Parses, APR_EINIT, APR_INCOMPLETE, GENERAL, APR_SUCCESS,
                                   OVERLIMIT
<1>. QED  BY <1>1, <1>2

LEMMA ScanStep ==
  ASSUME TypeOK, CallInv, HookInv, ScanInv, [Next]_vars
  PROVE  ScanInv'
<1>. USE NullAssumption, NullParam
         DEF Returns, Answers, Idle, lazy, settings, hooked
\* Steps that leave the parser's state and the table alone.
<1>0. ASSUME UNCHANGED <<module, body_status, body>>, ~Scanning',
             call'.op \in {"idle", "look"} => call.op \in {"idle", "look"},
             parser' # None => /\ parser # None => parser'.mixhook = parser.mixhook /\ parser'.run = parser.run
                               /\ parser = None => parser'.mixhook = <<>>
      PROVE  ScanInv'
  <2>1. parser' # None => find_param \notin Range(parser'.mixhook)
    BY <1>0 DEF ScanInv, Range
  <2>2. ASSUME module' = "cgi", body_status' = APR_INCOMPLETE,
               call'.op \in {"idle", "look", "scan", "leave"}, parser' # None
        PROVE  parser'.run
    BY <1>0, <2>2 DEF ScanInv, Scanning, CallInv
  <2>3. body_status' = APR_INCOMPLETE => parser' # None
    <3>1. TypeOK' /\ CallInv'
      BY TypeStep
    <3>. QED  BY <3>1 DEF CallInv
  <2>. QED  BY <1>0, <2>1, <2>2, <2>3 DEF ScanInv, Scanning
<1>1. CASE Lazy \/ custom_body \/ custom_set
  BY <1>0, <1>1 DEF Lazy, cgi_jar, cgi_args, custom_jar, custom_args, custom_body, custom_set, Scanning, reading
<1>2. ASSUME init_body, ~Scanning', body_status = APR_EINIT, module' = module,
             body_status' = APR_INCOMPLETE => call'.op \notin {"idle", "look"}
      PROVE  ScanInv'
  <2>1. /\ body_status' \in {APR_INCOMPLETE} \cup Refused /\ body' = body
        /\ parser' # None => \/ parser'.mixhook = <<>>
                             \/ parser # None /\ parser'.mixhook = parser.mixhook
    BY <1>2, InitBodyEffect
  <2>2. find_param \notin Range(<<>>)
    BY DEF Range
  <2>3. parser' # None => find_param \notin Range(parser'.mixhook)
    BY <2>1, <2>2 DEF ScanInv
  <2>. QED  BY <1>2, <2>1, <2>3 DEF ScanInv, Scanning
<1>3. CASE cgi_body
  <2>1. CASE body_status = APR_EINIT
    BY <1>2, <1>3, <2>1 DEF cgi_body, Scanning
  <2>2. CASE body_status # APR_EINIT
    BY <1>0, <1>3, <2>2 DEF cgi_body, Scanning, reading
  <2>. QED  BY <2>1, <2>2
<1>4. ASSUME NEW name \in Names, cgi_body_get(name) PROVE ScanInv'
  <2>1. CASE body_status = APR_EINIT
    BY <1>2, <1>4, <2>1 DEF cgi_body_get, Scanning, APR_EINIT, APR_INCOMPLETE
  <2>2. CASE body_status # APR_EINIT
    BY <1>0, <1>4, <2>2 DEF cgi_body_get, Scanning, reading
  <2>. QED  BY <2>1, <2>2
<1>5. ASSUME NEW name \in Names, custom_body_get(name) PROVE ScanInv'
  BY <1>0, <1>5 DEF custom_body_get, Scanning, reading
\* Reads outside a scan.
<1>6. ASSUME NEW ok \in BOOLEAN, NEW key, parser # None, body_status # APR_EINIT,
             (module = "cgi" /\ cgi_read(key, ok)) \/ (module = "custom" /\ custom_parse_brigade(ok)),
             module = "cgi" => call.op # "idle", ~Scanning', module' = module
      PROVE  ScanInv'
  <2>1. /\ body_status' # APR_EINIT /\ find_param \notin Range(parser'.mixhook)
        /\ body_status' = APR_INCOMPLETE => parser'.run
    BY <1>6, ReadScan
  <2>. QED  BY <1>6, <2>1 DEF ScanInv, Scanning
<1>7. ASSUME NEW ok \in BOOLEAN, cgi_body_loop(ok) \/ custom_body_loop(ok) PROVE ScanInv'
  BY <1>6, <1>7 DEF cgi_body_loop, custom_body_loop, CallInv, Scanning
<1>8. ASSUME NEW ok \in BOOLEAN, cgi_body_get_first(ok) PROVE ScanInv'
  <2>1. ~Scanning'
    BY <1>8 DEF cgi_body_get_first, TypeOK, Scanning
  <2>. QED  BY <1>6, <1>8, <2>1 DEF cgi_body_get_first, CallInv
<1>9. CASE cgi_body_get_look
  <2>. USE DEF cgi_body_get_look
  <2>1. call.op = "look" /\ parser \in Parser /\ body_status # APR_EINIT
    BY <1>9 DEF CallInv, TypeOK
  <2>2. CASE apr_table_get(body, call.name) # None
    BY <1>0, <1>9, <2>1, <2>2 DEF Scanning
  <2>3. CASE apr_table_get(body, call.name) = None
    <3>1. OutsideMixed(body, call.name) = None
      BY <2>3, NotInTable DEF TypeOK
    <3>2. <<find_param>> \in Seq(AnyHook)
      BY DEF AnyHook
    <3>3. /\ parser' # None /\ parser'.mixhook = parser.mixhook /\ parser'.run = parser.run
          /\ call'.op = "scan" /\ call'.name = call.name /\ found' = None
          /\ body' = body /\ body_status' = body_status /\ module' = module
      <4>1. parser' = apreq_parser_add_hook(parser, <<find_param>>)
        BY <1>9, <2>3
      <4>2. parser' # None /\ parser'.mixhook = parser.mixhook /\ parser'.run = parser.run
        BY <2>1, <3>2, <4>1, AddHooks
      <4>. QED  BY <1>9, <2>3, <4>2 DEF TypeOK
    <3>. QED  BY <1>9, <2>1, <3>1, <3>3 DEF ScanInv, Scanning
  <2>. QED  BY <2>2, <2>3
<1>10. ASSUME NEW ok \in BOOLEAN, cgi_body_get_scan(ok) PROVE ScanInv'
  <2>1. /\ module = "cgi" /\ module' = module /\ call.op = "scan" /\ parser \in Parser /\ parser # None
        /\ body_status # APR_EINIT
        /\ cgi_read(call.name, ok) /\ call'.name = call.name
        /\ call'.op = IF found' # None \/ body_status' # APR_INCOMPLETE THEN "leave" ELSE "scan"
    BY <1>10 DEF cgi_body_get_scan, CallInv, TypeOK
  <2>2. /\ body_status' # APR_EINIT /\ find_param \notin Range(parser'.mixhook)
        /\ body_status' = APR_INCOMPLETE => parser'.run
    BY <2>1, ReadScan
  <2>3. found = None /\ OutsideMixed(body, call.name) = None /\ body \in Seq(Param)
    BY <2>1 DEF ScanInv, Scanning, TypeOK
  <2>4. found' = OutsideMixed(body', call.name)
    <3>1. CASE UNCHANGED <<found, body>>
      BY <2>3, <3>1
    <3>2. ASSUME NEW es \in Seq(Param), Parses(call.name, es) PROVE found' = OutsideMixed(body', call.name)
      <4>1. find_param \in Range(parser.hook)
        <5>1. parser.hook \in Seq(AnyHook) /\ parser.hook # <<>> /\ Head(parser.hook) = find_param
          BY <2>1 DEF HookInv, Scanning, Parser, Parsers
        <5>. QED  BY <5>1 DEF Range
      <4>2. apreq_hook_find_param(es, call.name) = OutsideMixed(body \o es, call.name)
        BY <2>2, <2>3, <3>2, <4>1, ScanFinds DEF Parses
      <4>. QED  BY <2>3, <3>2, <4>2 DEF Parses
    <3>3. UNCHANGED <<found, body>> \/ \E es \in Seq(Param) : Parses(call.name, es)
      <4>1. CASE body_status # APR_INCOMPLETE
        BY <2>1, <4>1 DEF cgi_read, reading
      <4>2. CASE body_status = APR_INCOMPLETE
        <5>1. IF ok THEN ReadBlocks(call.name) ELSE ReadFails
          BY <2>1, <4>2 DEF cgi_read
        <5>2. Untouched \/ \E es \in Seq(Param) : Parses(call.name, es)
          BY <2>1, <5>1, ReadEffect
        <5>. QED  BY <5>2 DEF Untouched
      <4>. QED  BY <4>1, <4>2
    <3>. QED  BY <3>1, <3>2, <3>3
  <2>. QED  BY <2>1, <2>2, <2>4 DEF ScanInv, Scanning
<1>11. CASE cgi_body_get_leave
  <2>1. parser \in Parser /\ call.op = "leave" /\ parser' = [parser EXCEPT !.hook = Tail(@)]
    BY <1>11 DEF cgi_body_get_leave, CallInv, TypeOK, WithoutFind
  <2>2. parser'.mixhook = parser.mixhook /\ parser'.run = parser.run
    BY <2>1 DEF Parser, Parsers
  <2>3. UNCHANGED <<module, body_status, body>> /\ call'.op = "idle"
    BY <1>11 DEF cgi_body_get_leave, reading
  <2>4. body_status = APR_INCOMPLETE => parser.run
    BY <1>11, <2>1 DEF ScanInv, cgi_body_get_leave
  <2>. QED  BY <2>1, <2>2, <2>3, <2>4 DEF ScanInv, Scanning, CallInv
<1>12. ASSUME NEW ok \in BOOLEAN, custom_body_get_loop(ok) PROVE ScanInv'
  <2>1. parser # None /\ body_status # APR_EINIT /\ module = "custom" /\ module' = module /\ ~Scanning'
        /\ call.op = "get"
    BY <1>12 DEF custom_body_get_loop, CallInv, Scanning
  <2>2. CASE custom_parse_brigade(ok)
    BY <1>6, <2>1, <2>2
  <2>3. CASE UNCHANGED <<reading, parser>>
    BY <2>1, <2>3 DEF ScanInv, Scanning, reading
  <2>. QED  BY <1>12, <2>2, <2>3 DEF custom_body_get_loop
<1>13. ASSUME NEW p \in OwnParsers, cgi_parser_set(p) PROVE ScanInv'
  <2>. USE <1>13 DEF cgi_parser_set
  <2>1. CASE parser # None
    BY <1>0, <2>1 DEF Scanning, reading
  <2>2. CASE parser = None
    <3>1. parser' = apreq_parser_add_hook(Inherits(p), hook_queue)
      BY <2>2
    <3>2. Inherits(p) \in Parser /\ Inherits(p).mixhook = <<>>
      <4>1. PICK l \in Limits \cup {NoLimit}, d \in Dirs \cup {None} : p = apreq_parser_make(l, d, <<>>)
        BY DEF OwnParsers
      <4>2. l \in Bytes /\ <<>> \in Seq(AnyHook)
        BY LimitValues, Blocks DEF Bytes, NoLimit
      <4>3. p \in Parser /\ p.mixhook = <<>>
        BY <4>1, <4>2 DEF apreq_parser_make, Parser, Parsers
      <4>. QED  BY <4>3 DEF Inherits, Parser, Parsers, TypeOK, Min2, Bytes
    <3>3. hook_queue \in Seq(AnyHook)
      BY DEF TypeOK, AnyHook
    <3>4. parser'.mixhook = <<>>
      BY <3>1, <3>2, <3>3, AddHooks
    <3>. QED  BY <1>0, <2>2, <3>4 DEF Scanning, reading
  <2>. QED  BY <2>1, <2>2
<1>14. ASSUME NEW h \in Hooks, cgi_hook_add(h) \/ custom_hook_add(h) PROVE ScanInv'
  <2>1. <<h>> \in Seq(AnyHook)
    BY DEF AnyHook
  <2>2. parser' = parser \/ (parser # None /\ parser' = apreq_parser_add_hook(parser, <<h>>))
    BY <1>14 DEF cgi_hook_add, custom_hook_add, CallInv
  <2>3. parser' # None => parser # None /\ parser'.mixhook = parser.mixhook /\ parser'.run = parser.run
    <3>1. parser # None => parser \in Parser
      BY DEF TypeOK
    <3>2. parser # None => /\ apreq_parser_add_hook(parser, <<h>>).mixhook = parser.mixhook
                          /\ apreq_parser_add_hook(parser, <<h>>).run = parser.run
      BY <2>1, <3>1, AddHooks
    <3>. QED  BY <2>2, <3>2
  <2>. QED  BY <1>0, <1>14, <2>3 DEF cgi_hook_add, custom_hook_add, Scanning, reading
<1>15. ASSUME NEW l \in Limits, cgi_brigade_limit_set(l) PROVE ScanInv'
  <2>1. parser' = parser \/ (parser # None /\ parser' = [parser EXCEPT !.brigade_limit = l])
    BY <1>15 DEF cgi_brigade_limit_set
  <2>2. parser' # None => parser # None /\ parser'.mixhook = parser.mixhook /\ parser'.run = parser.run
    BY <2>1 DEF TypeOK, Parser, Parsers
  <2>. QED  BY <1>0, <1>15, <2>2 DEF cgi_brigade_limit_set, Scanning, reading
<1>16. ASSUME NEW l \in Limits, cgi_read_limit_set(l) PROVE ScanInv'
  BY <1>0, <1>16 DEF cgi_read_limit_set, Scanning, reading
<1>17. ASSUME NEW d \in Dirs, cgi_temp_dir_set(d) PROVE ScanInv'
  <2>1. parser' = parser \/ (parser # None /\ parser' = [parser EXCEPT !.temp_dir = d])
    BY <1>17 DEF cgi_temp_dir_set
  <2>2. parser' # None => parser # None /\ parser'.mixhook = parser.mixhook /\ parser'.run = parser.run
    BY <2>1 DEF TypeOK, Parser, Parsers
  <2>. QED  BY <1>0, <1>17, <2>2 DEF cgi_temp_dir_set, Scanning, reading
<1>18. CASE UNCHANGED vars
  BY <1>18 DEF ScanInv, Scanning, vars
<1>. QED  BY <1>1, <1>3, <1>4, <1>5, <1>7, <1>8, <1>9, <1>10, <1>11, <1>12, <1>13, <1>14, <1>15,
             <1>16, <1>17, <1>18 DEF Next, Ask, Work, Configure

LEMMA GetStep ==
  ASSUME TypeOK, CallInv, HookInv, ScanInv, BodyGetExact, [Next]_vars
  PROVE  BodyGetExact'
<1>. USE DEF lazy, settings, hooked
\* The call goes on, or returns without an answer.
<1>0. ASSUME call'.op # "idle" \/ ret' = NoAnswer PROVE BodyGetExact'
  BY <1>0 DEF BodyGetExact, Idle
\* An answer.
<1>1. ASSUME NEW name, NEW val, Answers(name, val), module' = module,
             IF val = None
             THEN body_status' \notin {APR_EINIT, APR_INCOMPLETE} /\ PlainGet(body', name) = None
             ELSE val \in {apr_table_get(body', name), PlainGet(body', name)}
      PROVE  BodyGetExact'
  BY <1>1 DEF BodyGetExact, Answers, PlainGet
<1>2. \A name : apr_table_get(body, name) = None => PlainGet(body, name) = None
  BY NotInTable DEF TypeOK, PlainGet
<1>3. CASE Lazy \/ cgi_body \/ custom_body \/ custom_set
  <2>1. call'.op # "idle" \/ ret' = NoAnswer
    BY <1>3 DEF Lazy, cgi_jar, cgi_args, custom_jar, custom_args, cgi_body, custom_body, custom_set, Returns
  <2>. QED  BY <1>0, <2>1
<1>4. ASSUME NEW name \in Names, cgi_body_get(name) PROVE BodyGetExact'
  <2>. USE <1>4 DEF cgi_body_get
  <2>1. CASE body_status = APR_EINIT
    <3>1. init_body
      BY <2>1 DEF APR_EINIT, APR_INCOMPLETE
    <3>2. /\ body_status' \in {APR_INCOMPLETE} \cup Refused /\ body' = body /\ body = <<>>
      BY <2>1, <3>1, InitBodyEffect DEF ScanInv
    <3>3. \/ call'.op # "idle"
          \/ body_status' # APR_INCOMPLETE /\ Answers(name, None)
      BY <2>1 DEF APR_EINIT, APR_INCOMPLETE
    <3>4. PlainGet(body, name) = None
      <4>1. \A i \in 1..Len(body) : body[i].name # name
        BY <3>2
      <4>. QED  BY <1>2, <4>1, TableGet DEF TypeOK
    <3>5. body_status' # APR_EINIT /\ module' = module
      BY <3>2 DEF Refused, APR_EINIT, APR_INCOMPLETE, BADHEADER, OVERLIMIT, NOPARSER, NOHEADER
    <3>6. CASE call'.op # "idle"
      BY <1>0, <3>6
    <3>7. CASE body_status' # APR_INCOMPLETE /\ Answers(name, None)
      <4>. HIDE <1>4 DEF cgi_body_get, init_body
      <4>. QED  BY <1>1, <3>2, <3>4, <3>5, <3>7
    <3>. QED  BY <3>3, <3>6, <3>7
  <2>2. CASE body_status = APR_INCOMPLETE
    <3>1. call'.op # "idle"
      BY <2>2 DEF APR_EINIT, APR_INCOMPLETE
    <3>. QED  BY <1>0, <3>1
  <2>3. CASE body_status \notin {APR_EINIT, APR_INCOMPLETE}
    <3>1. /\ Answers(name, apr_table_get(body, name)) /\ body' = body /\ body_status' = body_status
          /\ module' = module
      BY <2>3 DEF reading
    <3>. HIDE <1>4 DEF cgi_body_get
    <3>. QED  BY <1>1, <1>2, <2>3, <3>1
  <2>. QED  BY <2>1, <2>2, <2>3
<1>5. ASSUME NEW name \in Names, custom_body_get(name) PROVE BodyGetExact'
  BY <1>0, <1>5 DEF custom_body_get
<1>6. ASSUME NEW ok \in BOOLEAN, cgi_body_loop(ok) \/ custom_body_loop(ok) PROVE BodyGetExact'
  BY <1>0, <1>6 DEF cgi_body_loop, custom_body_loop, Returns
<1>7. ASSUME NEW ok \in BOOLEAN, cgi_body_get_first(ok) \/ cgi_body_get_scan(ok) PROVE BodyGetExact'
  <2>1. call'.op \in {"look", "scan", "leave"}
    BY <1>7 DEF cgi_body_get_first, cgi_body_get_scan, TypeOK
  <2>. QED  BY <1>0, <2>1
<1>8. CASE cgi_body_get_look
  <2>1. CASE apr_table_get(body, call.name) # None
    <3>1. /\ Answers(call.name, apr_table_get(body, call.name)) /\ body' = body
          /\ body_status' = body_status /\ module' = module
      BY <1>8, <2>1 DEF cgi_body_get_look
    <3>2. PICK name, val : name = call.name /\ val = apr_table_get(body, call.name)
      OBVIOUS
    <3>. QED  BY <1>1, <2>1, <3>1, <3>2
  <2>2. CASE apr_table_get(body, call.name) = None
    <3>1. call'.op = "scan"
      BY <1>8, <2>2 DEF cgi_body_get_look, TypeOK
    <3>. QED  BY <1>0, <3>1
  <2>. QED  BY <2>1, <2>2
<1>9. CASE cgi_body_get_leave
  <2>1. /\ Answers(call.name, found) /\ body' = body /\ body_status' = body_status
        /\ module' = module /\ module = "cgi" /\ call.op = "leave"
    BY <1>9 DEF cgi_body_get_leave, reading
  <2>2. /\ found = PlainGet(body, call.name)
        /\ found = None => body_status # APR_INCOMPLETE
        /\ body_status # APR_EINIT
    BY <2>1 DEF ScanInv, Scanning, CallInv, PlainGet
  <2>3. PICK name, val : name = call.name /\ val = found
    OBVIOUS
  <2>. QED  BY <1>1, <2>1, <2>2, <2>3
<1>10. ASSUME NEW ok \in BOOLEAN, custom_body_get_loop(ok) PROVE BodyGetExact'
  <2>1. PICK name, val : name = call.name /\ val = apr_table_get(body, call.name)
    OBVIOUS
  <2>2. call.op = "get" /\ body_status # APR_EINIT /\ module' = module
    BY <1>10 DEF custom_body_get_loop, CallInv
  <2>3. CASE val # None \/ body_status # APR_INCOMPLETE
    <3>1. Answers(name, val) /\ body' = body /\ body_status' = body_status
      BY <1>10, <2>1, <2>3 DEF custom_body_get_loop, reading
    <3>. QED  BY <1>1, <1>2, <2>1, <2>2, <2>3, <3>1
  <2>4. CASE ~(val # None \/ body_status # APR_INCOMPLETE)
    BY <1>0, <1>10, <2>1, <2>2, <2>4 DEF custom_body_get_loop
  <2>. QED  BY <2>3, <2>4
<1>11. CASE Configure
  <2>1. ret' = NoAnswer
    BY <1>11 DEF Configure, cgi_parser_set, cgi_hook_add, custom_hook_add, cgi_brigade_limit_set,
                 cgi_read_limit_set, cgi_temp_dir_set, custom_set, Returns
  <2>. QED  BY <1>0, <2>1
<1>12. CASE UNCHANGED vars
  BY <1>12 DEF BodyGetExact, PlainGet, vars
<1>. QED  BY <1>3, <1>4, <1>5, <1>6, <1>7, <1>8, <1>9, <1>10, <1>11, <1>12 DEF Next, Ask, Work

-----------------------------------------------------------------------------
(* Every step keeps LimitInv.                                              *)

LEMMA ModuloBelow ==
  ASSUME NEW a \in Nat, NEW n \in Nat, a < n
  PROVE  a % n = a
OBVIOUS

LEMMA ReadLimit ==
  ASSUME TypeOK, LimitInv, module = "cgi", parser # None, NEW key, NEW ok \in BOOLEAN, cgi_read(key, ok),
         UNCHANGED <<module, read_limit>>
  PROVE  LimitInv'
<1>1. CASE UNCHANGED <<in, bytes_read, shown>>
  BY <1>1 DEF LimitInv
<1>2. CASE ReadBlocks(key)
  <2>. DEFINE got == Portion(ReadBlock)
  <2>1. /\ got \in Seq(Block) /\ Len(got) \in 0..Len(in.data) /\ Len(in.data) \in Nat
        /\ Len(in'.data) = Len(in.data) - Len(got)
        /\ bytes_read' = (bytes_read + Len(got)) % Width
        /\ \/ shown' = shown
           \/ shown' = shown \o got /\ bytes_read' <= read_limit
    <3>1. /\ in'.data = SubSeq(in.data, Len(got) + 1, Len(in.data))
          /\ bytes_read' = (bytes_read + Len(got)) % Width
          /\ \/ shown' = shown
             \/ shown' = shown \o got /\ ~(bytes_read' > read_limit)
      BY <1>2 DEF ReadBlocks, OverLimit
    <3>2. /\ got \in Seq(Block) /\ Len(got) \in 0..Len(in.data) /\ Len(in.data) \in Nat
          /\ Len(SubSeq(in.data, Len(got) + 1, Len(in.data))) = Len(in.data) - Len(got)
      BY PortionType DEF TypeOK
    <3>. HIDE DEF got
    <3>3. bytes_read' \in Nat /\ read_limit \in Nat
      <4>1. bytes_read + Len(got) \in Nat /\ Width \in Nat \ {0}
        BY <3>2, Blocks DEF TypeOK, Bytes
      <4>. QED  BY <3>1, <4>1 DEF TypeOK, Bytes
    <3>. QED  BY <3>1, <3>2, <3>3
  <2>. HIDE DEF got
  <2>2. bytes_read \in Nat /\ read_limit \in Nat /\ shown \in Seq(Block) /\ Len(shown) \in Nat
        /\ Width \in Nat \ {0}
    BY Blocks DEF TypeOK, Bytes
  <2>3. /\ Len(shown) <= read_limit /\ Len(shown) <= bytes_read /\ bytes_read + Len(in.data) < Width
    BY DEF LimitInv
  <2>4. bytes_read' = bytes_read + Len(got)
    <3>1. Len(got) \in Nat /\ Len(in.data) \in Nat /\ Len(got) <= Len(in.data)
      BY <2>1
    <3>2. PICK g \in Nat, n \in Nat : g = Len(got) /\ n = Len(in.data) /\ g <= n
      BY <3>1
    <3>3. bytes_read + g \in Nat /\ bytes_read + g < Width
      BY <2>2, <2>3, <3>2
    <3>. QED  BY <2>1, <2>2, <3>2, <3>3, ModuloBelow
  <2>5. shown' = shown \/ (Len(shown') = Len(shown) + Len(got) /\ bytes_read' <= read_limit)
    BY <2>1, <2>2
  <2>6. PICK g \in Nat, n \in Nat : g = Len(got) /\ n = Len(in.data) /\ Len(in'.data) = n - g /\ g <= n
    BY <2>1
  <2>7. bytes_read' + Len(in'.data) < Width
    <3>1. bytes_read' = bytes_read + g /\ Len(in'.data) = n - g
      BY <2>4, <2>6
    <3>2. bytes_read + n < Width
      BY <2>3, <2>6
    <3>3. (bytes_read + g) + (n - g) = bytes_read + n
      BY <2>2
    <3>. QED  BY <3>1, <3>2, <3>3
  <2>8. Len(shown') <= read_limit /\ Len(shown') <= bytes_read'
    <3>1. Len(shown) <= read_limit /\ Len(shown) <= bytes_read /\ bytes_read' = bytes_read + g
      BY <2>3, <2>4, <2>6
    <3>2. CASE shown' = shown
      BY <2>2, <3>1, <3>2
    <3>3. CASE Len(shown') = Len(shown) + g /\ bytes_read' <= read_limit
      BY <2>2, <3>1, <3>3
    <3>. QED  BY <2>5, <2>6, <3>2, <3>3
  <2>. QED  BY <2>7, <2>8 DEF LimitInv
<1>. QED  BY <1>1, <1>2 DEF cgi_read, ReadFails, reading

LEMMA LimitStep ==
  ASSUME TypeOK, CallInv, LimitInv, [Next]_vars
  PROVE  LimitInv'
<1>. USE DEF lazy, settings, hooked, reading
<1>1. CASE UNCHANGED <<module, read_limit, in, bytes_read, shown>>
  BY <1>1 DEF LimitInv
<1>2. CASE Lazy \/ custom_set \/ UNCHANGED vars \/ \E h \in Hooks : cgi_hook_add(h) \/ custom_hook_add(h)
  BY <1>1, <1>2 DEF Lazy, cgi_jar, cgi_args, custom_jar, custom_args, custom_set, cgi_hook_add,
                    custom_hook_add, vars
<1>3. CASE Ask
  BY <1>1, <1>3 DEF Ask, cgi_body, custom_body, cgi_body_get, custom_body_get, init_body
<1>4. ASSUME NEW ok \in BOOLEAN, Work(ok) PROVE LimitInv'
  <2>1. module' = module /\ read_limit' = read_limit
    BY <1>4 DEF Work, cgi_body_loop, custom_body_loop, cgi_body_get_first, cgi_body_get_look,
                cgi_body_get_scan, cgi_body_get_leave, custom_body_get_loop
  <2>2. CASE module = "custom"
    BY <2>1, <2>2 DEF LimitInv
  <2>3. CASE module = "cgi"
    <3>1. \/ UNCHANGED <<in, bytes_read, shown>>
          \/ parser # None /\ \E key : cgi_read(key, ok)
      <4>1. CASE cgi_body_loop(ok)
        BY <4>1 DEF cgi_body_loop, CallInv
      <4>2. CASE cgi_body_get_first(ok)
        BY <4>2 DEF cgi_body_get_first, CallInv
      <4>3. CASE cgi_body_get_scan(ok)
        BY <4>3 DEF cgi_body_get_scan, CallInv
      <4>4. CASE cgi_body_get_look \/ cgi_body_get_leave
        BY <4>4 DEF cgi_body_get_look, cgi_body_get_leave
      <4>. QED  BY <1>4, <2>3, <4>1, <4>2, <4>3, <4>4 DEF Work, custom_body_loop, custom_body_get_loop
    <3>2. ASSUME NEW key, parser # None, cgi_read(key, ok) PROVE LimitInv'
      BY <2>1, <2>3, <3>2, ReadLimit
    <3>. QED  BY <1>1, <2>1, <3>1, <3>2
  <2>. QED  BY <2>2, <2>3 DEF TypeOK
<1>5. ASSUME NEW p \in OwnParsers, cgi_parser_set(p) PROVE LimitInv'
  BY <1>1, <1>5 DEF cgi_parser_set
<1>6. ASSUME NEW l \in Limits, cgi_brigade_limit_set(l) PROVE LimitInv'
  BY <1>1, <1>6 DEF cgi_brigade_limit_set
<1>7. ASSUME NEW l \in Limits, cgi_read_limit_set(l) PROVE LimitInv'
  <2>1. l \in Nat /\ bytes_read \in Nat /\ Len(shown) \in Nat
    BY LimitValues DEF TypeOK, Bytes
  <2>2. /\ UNCHANGED <<module, in, bytes_read, shown>>
        /\ read_limit' = read_limit \/ (read_limit' = l /\ bytes_read < l)
    BY <1>7 DEF cgi_read_limit_set
  <2>. QED  BY <2>1, <2>2 DEF LimitInv
<1>8. ASSUME NEW d \in Dirs, cgi_temp_dir_set(d) PROVE LimitInv'
  BY <1>1, <1>8 DEF cgi_temp_dir_set
<1>. QED  BY <1>2, <1>3, <1>4, <1>5, <1>6, <1>7, <1>8 DEF Next, Configure

-----------------------------------------------------------------------------
(* Every step keeps SettingsInv, and no step gives back a setting.         *)

Sticks ==
  module = "cgi" =>
    /\ read_limit' <= read_limit
    /\ (cgi_brigade_limit_get)' <= cgi_brigade_limit_get
    /\ cgi_temp_dir_get # None => (cgi_temp_dir_get)' = cgi_temp_dir_get

LEMMA Given ==
  ASSUME NEW p \in Parser, NEW x \in Bytes, NEW y \in Dirs \cup {None}
  PROVE  /\ [p EXCEPT !.brigade_limit = x, !.temp_dir = y] \in Parser
         /\ [p EXCEPT !.temp_dir = y, !.brigade_limit = x] \in Parser
BY DEF Parser, Parsers

LEMMA SettingsStep ==
  ASSUME TypeOK, CallInv, HookInv, SettingsInv, [Next]_vars
  PROVE  SettingsInv' /\ Sticks
<1>. USE NullAssumption, NullParam DEF lazy, settings, hooked, cgi_brigade_limit_get, cgi_temp_dir_get
<1>0. /\ brigade_limit \in Nat /\ read_limit \in Nat
      /\ parser # None => parser \in Parser /\ parser.brigade_limit \in Nat
  BY DEF TypeOK, Parser, Parsers, Bytes
<1>1. ASSUME UNCHANGED <<module, settings>>, parser' = None <=> parser = None,
             parser # None => /\ parser'.brigade_limit = parser.brigade_limit
                              /\ parser'.temp_dir = parser.temp_dir
      PROVE  SettingsInv' /\ Sticks
  BY <1>0, <1>1 DEF SettingsInv, Sticks
<1>2. CASE Lazy \/ custom_set \/ UNCHANGED vars
  BY <1>1, <1>2 DEF Lazy, cgi_jar, cgi_args, custom_jar, custom_args, custom_set, vars
<1>3. ASSUME init_body, UNCHANGED <<module, settings>> PROVE SettingsInv' /\ Sticks
  <2>1. init_parser
    BY <1>3 DEF init_body
  <2>2. CASE parser' = parser
    BY <1>1, <1>3, <2>2
  <2>3. CASE parser = None /\ parser' = apreq_parser_make(brigade_limit, temp_dir, hook_queue)
    <3>1. parser' # None /\ parser'.brigade_limit = brigade_limit /\ parser'.temp_dir = temp_dir
      <4>1. hook_queue \in Seq(AnyHook) /\ <<>> \in Seq(AnyHook)
        BY DEF TypeOK, AnyHook
      <4>2. brigade_limit \in Bytes /\ temp_dir \in Dirs \cup {None}
        BY DEF TypeOK
      <4>3. apreq_parser_make(brigade_limit, temp_dir, hook_queue) \in Parser
        BY <4>1, <4>2 DEF apreq_parser_make, Parser, Parsers
      <4>4. parser' # None
        BY <2>3, <4>3, Zenon
      <4>. QED  BY <2>3, <4>4 DEF apreq_parser_make
    <3>. QED  BY <1>0, <1>3, <2>3, <3>1 DEF SettingsInv, Sticks
  <2>4. CASE parser # None /\ parser' = apreq_parser_add_hook(
                           [parser EXCEPT !.brigade_limit = Min2(@, brigade_limit),
                                          !.temp_dir = IF temp_dir # None THEN temp_dir ELSE @],
                           hook_queue)
    <3>. DEFINE l == Min2(parser.brigade_limit, brigade_limit)
                d == IF temp_dir # None THEN temp_dir ELSE parser.temp_dir
    <3>1. l \in Bytes /\ l <= parser.brigade_limit /\ d \in Dirs \cup {None} /\ hook_queue \in Seq(AnyHook)
      BY <1>0, <2>4 DEF TypeOK, Parser, Parsers, Min2, Bytes, AnyHook
    <3>2. PICK q \in Parser : /\ q = [parser EXCEPT !.brigade_limit = l, !.temp_dir = d]
                              /\ q.brigade_limit = l /\ q.temp_dir = d
      <4>. HIDE DEF l, d
      <4>1. PICK x \in Bytes, y \in Dirs \cup {None} : x = l /\ y = d
        BY <3>1
      <4>2. PICK q \in Parser : q = [parser EXCEPT !.brigade_limit = x, !.temp_dir = y]
        BY <1>0, <2>4, Given
      <4>3. q.brigade_limit = x /\ q.temp_dir = y
        BY <1>0, <2>4, <4>2 DEF Parser, Parsers
      <4>. QED  BY <4>1, <4>2, <4>3
    <3>3. parser' = apreq_parser_add_hook(q, hook_queue)
      BY <1>0, <2>4, <3>2 DEF Parser, Parsers
    <3>4. parser' # None /\ parser'.brigade_limit = l /\ parser'.temp_dir = d
      BY <3>1, <3>2, <3>3, AddHooks
    <3>. HIDE DEF l
    <3>. QED  BY <1>0, <1>3, <2>4, <3>1, <3>4 DEF SettingsInv, Sticks
  <2>. QED  BY <2>1, <2>2, <2>3, <2>4 DEF init_parser
<1>4. CASE Ask
  <2>1. UNCHANGED <<module, settings>> /\ (init_body \/ parser' = parser)
    BY <1>4 DEF Ask, cgi_body, custom_body, cgi_body_get, custom_body_get
  <2>. QED  BY <1>1, <1>3, <2>1
<1>5. ASSUME NEW ok \in BOOLEAN, NEW key, parser # None, UNCHANGED <<module, settings>>,
             cgi_read(key, ok) \/ custom_parse_brigade(ok)
      PROVE  SettingsInv' /\ Sticks
  <2>1. CASE parser' = parser
    BY <1>1, <1>5, <2>1
  <2>2. ASSUME NEW k, IF ok THEN ReadBlocks(k) ELSE ReadFails PROVE SettingsInv' /\ Sticks
    <3>1. Untouched \/ \E es \in Seq(Param) : Parses(k, es)
      BY <1>5, <2>2, ReadEffect
    <3>2. parser' # None /\ parser'.brigade_limit = parser.brigade_limit /\ parser'.temp_dir = parser.temp_dir
      BY <1>5, <3>1 DEF Untouched, Parses
    <3>. QED  BY <1>1, <1>5, <3>2
  <2>. QED  BY <1>5, <2>1, <2>2 DEF cgi_read, custom_parse_brigade
<1>6. ASSUME NEW ok \in BOOLEAN, cgi_body_loop(ok) \/ custom_body_loop(ok) PROVE SettingsInv' /\ Sticks
  BY <1>5, <1>6 DEF cgi_body_loop, custom_body_loop, CallInv
<1>7. ASSUME NEW ok \in BOOLEAN, cgi_body_get_first(ok) PROVE SettingsInv' /\ Sticks
  BY <1>5, <1>7 DEF cgi_body_get_first, CallInv
<1>8. ASSUME NEW ok \in BOOLEAN, cgi_body_get_scan(ok) PROVE SettingsInv' /\ Sticks
  BY <1>5, <1>8 DEF cgi_body_get_scan, CallInv
<1>9. CASE cgi_body_get_look
  <2>1. UNCHANGED <<module, settings>> /\ parser # None
        /\ (parser' = parser \/ parser' = apreq_parser_add_hook(parser, <<find_param>>))
    BY <1>9 DEF cgi_body_get_look, CallInv
  <2>2. <<find_param>> \in Seq(AnyHook)
    BY DEF AnyHook
  <2>3. /\ apreq_parser_add_hook(parser, <<find_param>>) # None
        /\ apreq_parser_add_hook(parser, <<find_param>>).brigade_limit = parser.brigade_limit
        /\ apreq_parser_add_hook(parser, <<find_param>>).temp_dir = parser.temp_dir
    BY <1>0, <2>1, <2>2, AddHooks
  <2>4. parser' # None /\ parser'.brigade_limit = parser.brigade_limit /\ parser'.temp_dir = parser.temp_dir
    BY <2>1, <2>3
  <2>. QED  BY <1>1, <2>1, <2>4
<1>10. CASE cgi_body_get_leave
  <2>1. /\ UNCHANGED <<module, settings>> /\ parser # None /\ parser \in Parser
        /\ parser' = [parser EXCEPT !.hook = Tail(@)]
    BY <1>0, <1>10 DEF cgi_body_get_leave, CallInv, WithoutFind
  <2>2. parser'.brigade_limit = parser.brigade_limit /\ parser'.temp_dir = parser.temp_dir
    BY <2>1 DEF Parser, Parsers
  <2>3. parser' # None
    <3>1. TypeOK' /\ CallInv'
      BY TypeStep
    <3>2. parser.hook # <<>> /\ parser.hook \in Seq(AnyHook)
      BY <1>10, <2>1 DEF HookInv, Scanning, cgi_body_get_leave, Parser, Parsers
    <3>3. Tail(parser.hook) \in Seq(AnyHook)
      BY <3>2
    <3>4. \A h \in Seq(AnyHook) : [parser EXCEPT !.hook = h] \in Parser
      BY <2>1 DEF Parser, Parsers
    <3>. QED  BY <2>1, <3>3, <3>4
  <2>. QED  BY <1>1, <2>1, <2>2, <2>3
<1>11. ASSUME NEW ok \in BOOLEAN, custom_body_get_loop(ok) PROVE SettingsInv' /\ Sticks
  <2>1. UNCHANGED <<module, settings>> /\ parser # None /\ (parser' = parser \/ custom_parse_brigade(ok))
    BY <1>11 DEF custom_body_get_loop, CallInv
  <2>. QED  BY <1>1, <1>5, <2>1
<1>12. ASSUME NEW p \in OwnParsers, cgi_parser_set(p) PROVE SettingsInv' /\ Sticks
  <2>. USE <1>12 DEF cgi_parser_set
  <2>1. CASE parser # None
    BY <1>1, <2>1
  <2>2. CASE parser = None
    <3>1. PICK q \in Parser : q = p
      <4>1. PICK l \in Limits \cup {NoLimit}, d \in Dirs \cup {None} : p = apreq_parser_make(l, d, <<>>)
        BY DEF OwnParsers
      <4>2. l \in Bytes /\ <<>> \in Seq(AnyHook)
        BY LimitValues, Blocks DEF Bytes, NoLimit
      <4>. QED  BY <4>1, <4>2 DEF apreq_parser_make, Parser, Parsers
    <3>2. /\ Inherits(q) \in Parser /\ Inherits(q).brigade_limit <= brigade_limit
          /\ temp_dir # None => Inherits(q).temp_dir = temp_dir
      <4>. DEFINE x == IF temp_dir # None THEN temp_dir ELSE q.temp_dir
                  y == Min2(q.brigade_limit, brigade_limit)
      <4>2. x \in Dirs \cup {None} /\ (temp_dir # None => x = temp_dir)
        BY DEF TypeOK, Parser, Parsers
      <4>3. y \in Bytes /\ y <= brigade_limit
        <5>1. q.brigade_limit \in Bytes /\ brigade_limit \in Bytes
          BY DEF TypeOK, Parser, Parsers
        <5>. QED  BY <5>1, Blocks DEF Min2, Bytes
      <4>4. Inherits(q) = [q EXCEPT !.temp_dir = x, !.brigade_limit = y]
        BY DEF Inherits, Parser, Parsers
      <4>. HIDE DEF x, y
      <4>5. PICK r \in Parser : /\ r = [q EXCEPT !.temp_dir = x, !.brigade_limit = y]
                               /\ r.brigade_limit = y /\ r.temp_dir = x
        <5>1. PICK v \in Bytes, w \in Dirs \cup {None} : v = y /\ w = x
          BY <4>2, <4>3
        <5>2. PICK r \in Parser : r = [q EXCEPT !.temp_dir = w, !.brigade_limit = v]
          BY Given
        <5>3. r.brigade_limit = v /\ r.temp_dir = w
          BY <5>2 DEF Parser, Parsers
        <5>. QED  BY <5>1, <5>2, <5>3
      <4>6. Inherits(q) = r
        BY <4>4, <4>5, Zenon
      <4>. HIDE DEF Inherits
      <4>. QED  BY <4>2, <4>3, <4>5, <4>6
    <3>3. hook_queue \in Seq(AnyHook)
      BY DEF TypeOK, AnyHook
    <3>. HIDE DEF Inherits
    <3>4. parser' = apreq_parser_add_hook(Inherits(q), hook_queue)
      BY <2>2, <3>1
    <3>5. /\ parser' # None /\ parser'.brigade_limit <= brigade_limit
          /\ temp_dir # None => parser'.temp_dir = temp_dir
      BY <3>2, <3>3, <3>4, AddHooks
    <3>6. UNCHANGED <<module, settings>>
      OBVIOUS
    <3>. HIDE <1>12 DEF cgi_parser_set
    <3>. QED  BY <1>0, <2>2, <3>5, <3>6 DEF SettingsInv, Sticks
  <2>. QED  BY <2>1, <2>2
<1>13. ASSUME NEW h \in Hooks, cgi_hook_add(h) \/ custom_hook_add(h) PROVE SettingsInv' /\ Sticks
  <2>1. <<h>> \in Seq(AnyHook)
    BY DEF AnyHook
  <2>2. UNCHANGED <<module, settings>> /\
        (parser' = parser \/ (parser # None /\ parser' = apreq_parser_add_hook(parser, <<h>>)))
    BY <1>13 DEF cgi_hook_add, custom_hook_add, CallInv
  <2>3. parser # None => /\ apreq_parser_add_hook(parser, <<h>>) # None
                         /\ apreq_parser_add_hook(parser, <<h>>).brigade_limit = parser.brigade_limit
                         /\ apreq_parser_add_hook(parser, <<h>>).temp_dir = parser.temp_dir
    BY <1>0, <2>1, AddHooks
  <2>. QED  BY <1>1, <2>2, <2>3
<1>14. ASSUME NEW l \in Limits, cgi_brigade_limit_set(l) PROVE SettingsInv' /\ Sticks
  <2>. USE <1>14 DEF cgi_brigade_limit_set
  <2>1. l \in Nat /\ l \in Bytes
    BY LimitValues DEF Bytes
  <2>2. CASE UNCHANGED <<brigade_limit, parser>>
    BY <1>1, <2>2
  <2>3. CASE parser = None /\ brigade_limit > l
    BY <1>0, <2>1, <2>3 DEF SettingsInv, Sticks
  <2>4. CASE parser # None /\ parser.brigade_limit > l
    <3>1. parser' = [parser EXCEPT !.brigade_limit = l] /\ brigade_limit' = brigade_limit
          /\ UNCHANGED <<module, read_limit, temp_dir>>
      BY <2>4
    <3>2. parser' \in Parser /\ parser'.brigade_limit = l /\ parser'.temp_dir = parser.temp_dir
      BY <1>0, <2>1, <2>4, <3>1 DEF Parser, Parsers
    <3>. QED  BY <1>0, <2>1, <2>4, <3>1, <3>2 DEF SettingsInv, Sticks
  <2>. QED  BY <2>2, <2>3, <2>4
<1>15. ASSUME NEW l \in Limits, cgi_read_limit_set(l) PROVE SettingsInv' /\ Sticks
  <2>1. l \in Nat
    BY LimitValues DEF Bytes
  <2>. QED  BY <1>0, <1>15, <2>1 DEF cgi_read_limit_set, SettingsInv, Sticks
<1>16. ASSUME NEW d \in Dirs, cgi_temp_dir_set(d) PROVE SettingsInv' /\ Sticks
  <2>. USE <1>16 DEF cgi_temp_dir_set
  <2>1. CASE UNCHANGED <<temp_dir, parser>>
    BY <1>1, <2>1
  <2>2. CASE parser = None /\ temp_dir = None
    BY <1>0, <2>2 DEF SettingsInv, Sticks
  <2>3. CASE parser # None /\ parser.temp_dir = None /\ parser' = [parser EXCEPT !.temp_dir = d]
    <3>1. temp_dir' = temp_dir /\ UNCHANGED <<module, read_limit, brigade_limit>>
      BY <2>3
    <3>2. parser' \in Parser /\ parser'.brigade_limit = parser.brigade_limit /\ parser'.temp_dir = d
      BY <1>0, <2>3 DEF Parser, Parsers
    <3>. QED  BY <1>0, <2>3, <3>1, <3>2 DEF SettingsInv, Sticks
  <2>. QED  BY <2>1, <2>2, <2>3
<1>. QED  BY <1>2, <1>4, <1>6, <1>7, <1>8, <1>9, <1>10, <1>11, <1>12, <1>13, <1>14, <1>15, <1>16
          DEF Next, Work, Configure

-----------------------------------------------------------------------------
(* What holds of a new handle.                                             *)

LEMMA InitHolds ==
  ASSUME Init
  PROVE  /\ TypeOK /\ CallInv /\ HookInv /\ ScanInv /\ BodyGetExact /\ SettingsInv
         /\ module = "custom" \/ (bytes_read = 0 /\ \E b \in Bodies : in.data = b)
<1>. USE NullAssumption, NullParam
<1>1. /\ body = <<>> /\ hook_queue = <<>> /\ found = None /\ call = Idle /\ ret = NoAnswer
      /\ shown = <<>> /\ added = {} /\ temp_dir = None /\ brigade_limit = NoLimit
  BY DEF Init, apreq_handle_cgi, apreq_handle_custom, APREQ_DEFAULT_BRIGADE_LIMIT
<1>2. NoLimit \in Bytes /\ 0 \in Bytes
  BY Blocks DEF NoLimit, Bytes
<1>3. apreq_parser_make(NoLimit, None, <<>>) \in Parser
  <2>1. <<>> \in Seq(AnyHook)
    OBVIOUS
  <2>. QED  BY <1>2, <2>1 DEF apreq_parser_make, Parser, Parsers
<1>4. /\ module \in {"cgi", "custom"} /\ request \in Requests
      /\ \E b \in Bodies : in = [data |-> b, eos |-> TRUE]
      /\ {jar_status, args_status} \subseteq {APR_EINIT, NODATA, APR_SUCCESS, GENERAL}
      /\ read_limit \in Bytes /\ bytes_read \in Bytes
      /\ module = "cgi" => parser = None /\ body_status = APR_EINIT /\ bytes_read = 0
      /\ module = "custom" => /\ parser = apreq_parser_make(NoLimit, None, <<>>)
                              /\ body_status = APR_INCOMPLETE
  <2>1. CASE apreq_handle_cgi
    BY <1>2, <2>1 DEF apreq_handle_cgi
  <2>2. CASE apreq_handle_custom
    <3>1. request \in Requests /\ request \in Request
      BY <2>2, Inputs DEF apreq_handle_custom
    <3>2. {jar_status, args_status} \subseteq {APR_EINIT, NODATA, APR_SUCCESS, GENERAL}
      BY <2>2, <3>1 DEF apreq_handle_custom, HeaderStatus, Request, Header
    <3>3. read_limit \in Bytes /\ bytes_read \in Bytes
      BY <1>2, <2>2, LimitValues DEF apreq_handle_custom, Bytes
    <3>. QED  BY <2>2, <3>1, <3>2, <3>3 DEF apreq_handle_custom, APREQ_DEFAULT_BRIGADE_LIMIT
  <2>. QED  BY <2>1, <2>2 DEF Init
<1>5. in \in [data : Seq(Block), eos : BOOLEAN] /\ \E b \in Bodies : in.data = b
  BY <1>4, Inputs
<1>6. parser \in Parser \cup {None} /\ (module = "custom" => parser # None)
  BY <1>3, <1>4, Zenon
<1>7. TypeOK
  <2>1. body_status \in Statuses
    BY <1>4 DEF Statuses
  <2>2. /\ <<>> \in Seq(Param) /\ <<>> \in Seq(Hooks) /\ <<>> \in Seq(Block)
        /\ Idle \in [op : {"idle", "body", "first", "look", "scan", "leave", "get"}, name : Names \cup {None}]
        /\ NoAnswer \in [name : Names \cup {None}, val : Param \cup {None}]
    BY DEF Idle, NoAnswer
  <2>. QED  BY <1>1, <1>2, <1>4, <1>5, <1>6, <2>1, <2>2 DEF TypeOK
<1>8. CallInv
  BY <1>1, <1>4, <1>6 DEF CallInv, Idle, APR_EINIT, APR_INCOMPLETE
<1>9. ~Scanning /\ (parser # None => parser.hook = <<>> /\ parser.mixhook = <<>>)
  BY <1>1, <1>4 DEF Scanning, Idle, apreq_parser_make
<1>10. HookInv
  <2>1. OwnHooks = <<>> /\ hook_queue \o OwnHooks = <<>>
    BY <1>1, <1>9 DEF OwnHooks
  <2>2. Range(<<>>) = {} /\ Len(<<>>) = 0
    BY DEF Range
  <2>. QED  BY <1>1, <1>9, <2>1, <2>2, FS_EmptySet DEF HookInv
<1>11. ScanInv
  <2>1. Range(<<>>) = {}
    BY DEF Range
  <2>2. parser # None => find_param \notin Range(parser.mixhook)
    BY <1>9, <2>1
  <2>. QED  BY <1>1, <1>4, <1>9, <2>2 DEF ScanInv, Idle, APR_EINIT, APR_INCOMPLETE
<1>. QED  BY <1>1, <1>4, <1>5, <1>7, <1>8, <1>10, <1>11 DEF BodyGetExact, SettingsInv

-----------------------------------------------------------------------------
(* The theorems.                                                           *)

(* Every state of both handles is well typed, a call that reads has a      *)
(* parser, and the hooks of the program are all in the queue or in the     *)
(* parser, with find_param in front of them exactly while a scan runs.     *)
THEOREM StateCorrect == Spec => [](TypeOK /\ CallInv /\ HookInv)
<1>1. Init => TypeOK /\ CallInv /\ HookInv
  BY InitHolds
<1>2. TypeOK /\ CallInv /\ HookInv /\ [Next]_vars => (TypeOK /\ CallInv /\ HookInv)'
  BY TypeStep, HookStep
<1>. QED  BY <1>1, <1>2, PTL DEF Spec

(* Between two calls no hook of the program is lost or doubled and         *)
(* find_param is not left behind.                                          *)
THEOREM HooksKeptCorrect == Spec => []HooksKept
<1>1. TypeOK /\ CallInv /\ HookInv => HooksKept
  <2>. SUFFICES ASSUME HookInv, call = Idle
                PROVE  LET list == hook_queue \o (IF parser = None THEN <<>> ELSE parser.hook)
                       IN Range(list) = added /\ Len(list) = Cardinality(added)
    BY DEF HooksKept
  <2>1. OwnHooks = IF parser = None THEN <<>> ELSE parser.hook
    BY DEF OwnHooks, Scanning, Idle
  <2>. QED  BY <2>1 DEF HookInv
<1>. QED  BY <1>1, StateCorrect, PTL

(* apreq_body_get answers with the first parameter of the name, and with   *)
(* NULL only when the whole body has been read and has none.               *)
THEOREM BodyGetExactCorrect == Spec => []BodyGetExact
<1>1. Init => ScanInv /\ BodyGetExact
  BY InitHolds
<1>2. TypeOK /\ CallInv /\ HookInv /\ ScanInv /\ BodyGetExact /\ [Next]_vars => (ScanInv /\ BodyGetExact)'
  BY ScanStep, GetStep
<1>. QED  BY <1>1, <1>2, StateCorrect, PTL DEF Spec

(* When no body is as long as the counters' range, the parser of a CGI     *)
(* handle is never given more than the read limit, wherever the program    *)
(* moves it between the reads.                                             *)
THEOREM WithinReadLimitCorrect ==
  ASSUME ShortBodies
  PROVE  Spec => []WithinReadLimit
<1>1. Init => LimitInv
  <2>. SUFFICES ASSUME Init, module = "cgi"
                PROVE  Len(shown) <= read_limit /\ Len(shown) <= bytes_read /\ bytes_read + Len(in.data) < Width
    BY DEF LimitInv
  <2>1. shown = <<>> /\ bytes_read = 0 /\ read_limit \in Nat
    BY InitHolds DEF Init, TypeOK, Bytes
  <2>2. PICK b \in Bodies : in.data = b
    BY InitHolds
  <2>3. b \in Seq(Block) /\ Len(b) < Width
    BY Inputs DEF ShortBodies
  <2>. QED  BY <2>1, <2>2, <2>3
<1>2. TypeOK /\ CallInv /\ LimitInv /\ [Next]_vars => LimitInv'
  BY LimitStep
<1>3. LimitInv => WithinReadLimit
  BY DEF LimitInv, WithinReadLimit
<1>. QED  BY <1>1, <1>2, <1>3, StateCorrect, PTL DEF Spec

(* The limits of a CGI handle only go down and its temporary directory,    *)
(* once chosen, stays, also when a parser of the program comes in between. *)
THEOREM SettingsStickCorrect == Spec => SettingsStick
<1>1. Init => SettingsInv
  BY InitHolds
<1>2. TypeOK /\ CallInv /\ HookInv /\ SettingsInv /\ [Next]_vars => SettingsInv' /\ Sticks
  BY SettingsStep
<1>3. Spec => [][Sticks]_vars
  BY <1>1, <1>2, StateCorrect, PTL DEF Spec
<1>. QED  BY <1>3, PTL DEF SettingsStick, Sticks

-----------------------------------------------------------------------------
(* Both handles implement LazyBody.                                        *)

\* A step that reads is a step of LazyBody's Parse, or leaves it alone.
LEMMA ReadParses ==
  ASSUME TypeOK, CallInv, parser # None, body_status # APR_EINIT, NEW key, NEW ok \in BOOLEAN,
         cgi_read(key, ok) \/ custom_parse_brigade(ok)
  PROVE  [Lazily!Next]_<<body_status, body>>
<1>1. CASE UNCHANGED <<body_status, body>>
  BY <1>1
<1>2. ASSUME body_status = APR_INCOMPLETE, NEW k, IF ok THEN ReadBlocks(k) ELSE ReadFails
      PROVE  Lazily!Parse
  <2>1. Untouched \/ \E es \in Seq(Param) : Parses(k, es)
    BY <1>2, ReadEffect
  <2>2. body_status' \in {"INCOMPLETE"} \cup {APR_SUCCESS, GENERAL, OVERLIMIT, "EIO"}
    BY <2>1 DEF Untouched, Parses, APR_INCOMPLETE
  <2>3. \E es \in Seq(Param) : body' = body \o es
    <3>1. CASE Untouched
      <4>1. <<>> \in Seq(Param) /\ body \o <<>> = body
        BY DEF TypeOK
      <4>. QED  BY <3>1, <4>1 DEF Untouched
    <3>. QED  BY <2>1, <3>1 DEF Parses
  <2>4. Len(body) <= Len(body') /\ body = SubSeq(body', 1, Len(body))
    <3>1. PICK es \in Seq(Param) : body' = body \o es
      BY <2>3
    <3>2. body \in Seq(Param) /\ Len(body) \in Nat /\ Len(es) \in Nat
      BY DEF TypeOK
    <3>. QED  BY <3>1, <3>2
  <2>. QED  BY <1>2, <2>2, <2>4 DEF Lazily!Parse, APR_INCOMPLETE
<1>. QED  BY <1>1, <1>2 DEF cgi_read, custom_parse_brigade, reading, Lazily!Next

LEMMA LazyStep ==
  ASSUME TypeOK, CallInv, [Next]_vars
  PROVE  [Lazily!Next]_<<body_status, body>>
<1>. USE DEF reading
<1>1. CASE UNCHANGED <<body_status, body>>
  BY <1>1
<1>2. CASE body_status = APR_EINIT /\ init_body
  <2>1. body_status' \in {APR_INCOMPLETE} \cup Refused /\ body' = body
    BY <1>2, InitBodyEffect
  <2>. QED  BY <1>2, <2>1 DEF Lazily!Next, Lazily!Start, APR_EINIT, APR_INCOMPLETE, Refused
<1>3. CASE Lazy \/ Configure \/ UNCHANGED vars
  BY <1>1, <1>3 DEF Lazy, cgi_jar, cgi_args, custom_jar, custom_args, Configure, cgi_parser_set,
                    cgi_hook_add, custom_hook_add, cgi_brigade_limit_set, cgi_read_limit_set,
                    cgi_temp_dir_set, custom_set, vars
<1>4. CASE Ask
  BY <1>1, <1>2, <1>4 DEF Ask, cgi_body, custom_body, cgi_body_get, custom_body_get
<1>5. ASSUME NEW ok \in BOOLEAN, Work(ok) PROVE [Lazily!Next]_<<body_status, body>>
  <2>1. call.op # "idle"
    BY <1>5 DEF Work, cgi_body_loop, custom_body_loop, cgi_body_get_first, cgi_body_get_look,
                cgi_body_get_scan, cgi_body_get_leave, custom_body_get_loop
  <2>2. parser # None /\ body_status # APR_EINIT
    BY <2>1 DEF CallInv
  <2>3. \/ UNCHANGED <<body_status, body>>
        \/ \E key : cgi_read(key, ok) \/ custom_parse_brigade(ok)
    BY <1>5 DEF Work, cgi_body_loop, custom_body_loop, cgi_body_get_first, cgi_body_get_look,
                cgi_body_get_scan, cgi_body_get_leave, custom_body_get_loop
  <2>. QED  BY <1>1, <2>2, <2>3, ReadParses
<1>. QED  BY <1>3, <1>4, <1>5 DEF Next

(* Whatever is called in whatever order, both handles keep the promise of  *)
(* LazyBody: nothing is parsed before somebody asks, the table only grows, *)
(* and a status other than APR_INCOMPLETE is final with its table.         *)
THEOREM KeepsPromiseCorrect == Spec => KeepsPromise
<1>1. Init => Lazily!Init
  BY DEF Init, apreq_handle_cgi, apreq_handle_custom, Lazily!Init, APR_EINIT, APR_INCOMPLETE
<1>2. TypeOK /\ CallInv /\ [Next]_vars => [Lazily!Next]_<<body_status, body>>
  BY LazyStep
<1>. QED  BY <1>1, <1>2, StateCorrect, PTL DEF Spec, KeepsPromise, Lazily!Spec
=============================================================================
