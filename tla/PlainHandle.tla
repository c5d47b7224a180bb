---------------------------- MODULE PlainHandle -----------------------------
(***************************************************************************)
(* The two request handles of libapreq2 that own their input: the CGI      *)
(* handle (module_cgi.c), which reads standard input, and the custom       *)
(* handle (module_custom.c), which reads a brigade its creator passed.     *)
(* A program calls the operations of apreq_module.h in any order; a call   *)
(* that reads is one step per block read, so the calls that loop over      *)
(* cgi_read or custom_parse_brigade can be seen to end.                    *)
(***************************************************************************)
EXTENDS BodyParser, FiniteSets

CONSTANTS Requests,   \* header combinations: [cl, ct, cookie, args]
          Bad,        \* a Content-Length that is not a number
          Bodies,     \* bodies, sequences of blocks
          ReadBlock,  \* APREQ_DEFAULT_READ_BLOCK_SIZE and READ_BYTES, in blocks
          Width,      \* bytes_read and read_limit are taken modulo Width
          Limits,     \* limits a program sets
          Dirs,       \* temporary directories
          Garbage     \* what an uninitialised counter may hold

ASSUME Blocks == ReadBlock \in Nat \ {0} /\ Width \in Nat \ {0}
ASSUME HookNames == find_param \notin Hooks /\ None \notin Names /\ None \notin Dirs
ASSUME LimitValues == Limits \subseteq 0 .. (Width - 1) /\ Garbage \subseteq 0 .. (Width - 1)

(* Requests and parsers.                                                   *)
Header == {"none", "good", "bad"}
Request == [cl : {None, Bad} \cup Nat, ct : {"known", "unknown", "none"}, cookie : Header, args : Header]
Bytes == 0 .. (Width - 1)
Parser == Parsers(Bytes, Dirs \cup {None})
ASSUME Inputs == Requests \subseteq Request /\ Bodies \subseteq Seq(Block)
ASSUME NullAssumption == None \notin Parser

(* (apr_uint64_t)-1, and the default brigade limit.                        *)
NoLimit == Width - 1
APREQ_DEFAULT_BRIGADE_LIMIT == NoLimit

VARIABLES module,       \* handle->module: "cgi" or "custom"
          request,      \* the headers: [cl, ct, cookie, args]
          in,           \* [data, eos]: what is left of the input
          jar_status, args_status,
          body_status, body,       \* the table of parameters
          parser,       \* None before there is one
          hook_queue,   \* hooks that wait for a parser
          read_limit, bytes_read, brigade_limit, temp_dir,
          found,        \* ctx of the find_param hook: what it has found
          call,         \* the running call: [op, name]
          ret,          \* what the last call returned, when it was apreq_body_get
          shown,        \* the blocks the parser has been given
          added         \* the hooks the program has added

lazy     == <<jar_status, args_status>>
settings == <<read_limit, brigade_limit, temp_dir>>
hooked   == <<hook_queue, added>>
reading  == <<in, body_status, body, bytes_read, shown, found>>
vars == <<module, request, in, jar_status, args_status, body_status, body, parser, hook_queue,
          read_limit, bytes_read, brigade_limit, temp_dir, found,
          call, ret, shown, added>>

Idle == [op |-> "idle", name |-> None]
NoAnswer == [name |-> None, val |-> None]
Returns == call' = Idle /\ ret' = NoAnswer
Answers(name, val) == call' = Idle /\ ret' = [name |-> name, val |-> val]

(***************************************************************************)
(* Creation: apreq_handle_cgi, apreq_handle_custom                         *)
(***************************************************************************)
(* The status of parsing a Cookie header or a query string.                *)
HeaderStatus(h) ==
  CASE h = "none" -> NODATA [] h = "good" -> APR_SUCCESS [] h = "bad" -> GENERAL

apreq_handle_cgi ==
  /\ module = "cgi"
  /\ request \in Requests
  /\ \E b \in Bodies : in = [data |-> b, eos |-> TRUE]
  /\ jar_status = APR_EINIT /\ args_status = APR_EINIT /\ body_status = APR_EINIT
  /\ parser = None
  /\ read_limit = NoLimit /\ bytes_read = 0
  /\ brigade_limit = APREQ_DEFAULT_BRIGADE_LIMIT /\ temp_dir = None

(* The custom handle parses cookies and arguments at once and does not set *)
(* bytes_read.  It reads its brigade before it tests it for NULL, so there *)
(* is one; it ends in EOS, as every caller in the repository makes it.     *)
apreq_handle_custom ==
  /\ module = "custom"
  /\ request \in {r \in Requests : r.cl = None}
  /\ \E b \in Bodies : in = [data |-> b, eos |-> TRUE]
  /\ body_status = APR_INCOMPLETE
  /\ jar_status = HeaderStatus(request.cookie)
  /\ args_status = HeaderStatus(request.args)
  /\ parser = apreq_parser_make(APREQ_DEFAULT_BRIGADE_LIMIT, None, <<>>)
  /\ read_limit \in Limits \cup {NoLimit} /\ bytes_read \in Garbage
  /\ brigade_limit = APREQ_DEFAULT_BRIGADE_LIMIT /\ temp_dir = None

Init ==
  /\ apreq_handle_cgi \/ apreq_handle_custom
  /\ body = <<>> /\ hook_queue = <<>> /\ found = None
  /\ call = Idle /\ ret = NoAnswer
  /\ shown = <<>> /\ added = {}

(***************************************************************************)
(* Cookies and arguments                                                   *)
(***************************************************************************)
cgi_jar ==
  /\ module = "cgi" /\ call = Idle
  /\ jar_status' = IF jar_status = APR_EINIT THEN HeaderStatus(request.cookie) ELSE jar_status
  /\ Returns
  /\ UNCHANGED <<module, request, args_status, parser, reading, settings, hooked>>

cgi_args ==
  /\ module = "cgi" /\ call = Idle
  /\ args_status' = IF args_status = APR_EINIT THEN HeaderStatus(request.args) ELSE args_status
  /\ Returns
  /\ UNCHANGED <<module, request, jar_status, parser, reading, settings, hooked>>

custom_jar ==
  /\ module = "custom" /\ call = Idle
  /\ Returns
  /\ UNCHANGED <<module, request, lazy, parser, reading, settings, hooked>>

custom_args ==
  /\ module = "custom" /\ call = Idle
  /\ Returns
  /\ UNCHANGED <<module, request, lazy, parser, reading, settings, hooked>>

(***************************************************************************)
(* Reading the body                                                        *)
(***************************************************************************)
(* init_body: the parser, or why there is none.                            *)
Refusal ==
  CASE request.cl = Bad -> BADHEADER
    [] request.cl \notin {None, Bad} /\ request.cl > read_limit -> OVERLIMIT
    [] parser = None /\ request.ct = "unknown" -> NOPARSER
    [] parser = None /\ request.ct = "none" -> NOHEADER
    [] OTHER -> APR_INCOMPLETE

Min2(a, b) == IF a < b THEN a ELSE b

DropsQueue ==
  IF Refusal # APR_INCOMPLETE
  THEN parser' = parser /\ hook_queue' = hook_queue
  ELSE /\ hook_queue' = <<>>
       /\ parser' = IF parser = None
                    THEN apreq_parser_make(brigade_limit, temp_dir, <<>>)
                    ELSE parser
init_parser ==
  IF Refusal # APR_INCOMPLETE
  THEN parser' = parser /\ hook_queue' = hook_queue
  ELSE /\ hook_queue' = <<>>
       /\ parser' = IF parser = None
                    THEN apreq_parser_make(brigade_limit, temp_dir, hook_queue)
                    ELSE apreq_parser_add_hook(
                           [parser EXCEPT !.brigade_limit = Min2(@, brigade_limit),
                                          !.temp_dir = IF temp_dir # None THEN temp_dir ELSE @],
                           hook_queue)
init_body ==
  /\ body_status' = Refusal
  /\ init_parser
  /\ UNCHANGED <<in, body, bytes_read, shown, found>>

(* apr_brigade_partition: n blocks when there are as many, otherwise all   *)
(* that is left with the end of the body.                                  *)
Whole(n) == Len(in.data) >= n
Portion(n) == IF Whole(n) THEN SubSeq(in.data, 1, n) ELSE in.data

(* cgi_read once the body is being read, and custom_parse_brigade: the     *)
(* blocks, the limit, the parser with the find_param hook's key.           *)
TooMuchBefore(count) == bytes_read > read_limit
OverLimit(count) == count > read_limit

ReadBlocks(key) ==
  LET got   == Portion(ReadBlock)
      eos   == ~Whole(ReadBlock) /\ in.eos
      count == (bytes_read + Len(got)) % Width
      run   == apreq_parser_run(parser, body, got, eos, key)
  IN /\ in' = [data |-> SubSeq(in.data, Len(got) + 1, Len(in.data)),
               eos |-> in.eos /\ ~eos]
     /\ bytes_read' = count
     /\ IF OverLimit(count)
        THEN body_status' = OVERLIMIT /\ UNCHANGED <<parser, body, shown, found>>
        ELSE /\ body_status' = run.rv
             /\ parser' = run.parser
             /\ body' = run.t
             /\ shown' = shown \o got
             /\ found' = IF run.found # None THEN run.found ELSE found

ReadFails ==
  /\ body_status' = "EIO"
  /\ UNCHANGED <<in, parser, body, bytes_read, shown, found>>

(* cgi_read: nothing when the status is final; a read error is the status. *)
cgi_read(key, ok) ==
  IF body_status # APR_INCOMPLETE THEN UNCHANGED <<reading, parser>>
  ELSE IF ok THEN ReadBlocks(key) ELSE ReadFails

custom_parse_brigade(ok) ==
  /\ body_status = APR_INCOMPLETE
  /\ IF ok THEN ReadBlocks(None) ELSE ReadFails

(***************************************************************************)
(* apreq_body                                                              *)
(***************************************************************************)
StartsOver ==
  /\ module = "cgi" /\ call = Idle
  /\ IF body_status # APR_SUCCESS THEN init_body ELSE UNCHANGED <<reading, parser, hook_queue>>
  /\ IF body_status' = APR_INCOMPLETE
     THEN call' = [op |-> "body", name |-> None] /\ ret' = ret
     ELSE Returns
  /\ UNCHANGED <<module, request, lazy, settings, added>>
cgi_body ==
  /\ module = "cgi" /\ call = Idle
  /\ IF body_status = APR_EINIT THEN init_body ELSE UNCHANGED <<reading, parser, hook_queue>>
  /\ IF body_status' = APR_INCOMPLETE
     THEN call' = [op |-> "body", name |-> None] /\ ret' = ret
     ELSE Returns
  /\ UNCHANGED <<module, request, lazy, settings, added>>

(* One round of its loop.                                                  *)
cgi_body_loop(ok) ==
  /\ module = "cgi" /\ call.op = "body"
  /\ cgi_read(None, ok)
  /\ IF body_status' = APR_INCOMPLETE THEN UNCHANGED <<call, ret>>
     ELSE Returns
  /\ UNCHANGED <<module, request, lazy, settings, hooked>>

custom_body ==
  /\ module = "custom" /\ call = Idle
  /\ IF body_status = APR_INCOMPLETE
     THEN call' = [op |-> "body", name |-> None] /\ ret' = ret
     ELSE Returns
  /\ UNCHANGED <<module, request, lazy, parser, reading, settings, hooked>>

custom_body_loop(ok) ==
  /\ module = "custom" /\ call.op = "body"
  /\ custom_parse_brigade(ok)
  /\ IF body_status' = APR_INCOMPLETE THEN UNCHANGED <<call, ret>>
     ELSE Returns
  /\ UNCHANGED <<module, request, lazy, settings, hooked>>

(***************************************************************************)
(* apreq_body_get                                                          *)
(***************************************************************************)
(* A handle that was not asked before reads one block first.               *)
cgi_body_get(name) ==
  /\ module = "cgi" /\ call = Idle
  /\ CASE body_status = APR_EINIT ->
            /\ init_body
            /\ IF body_status' = APR_INCOMPLETE
               THEN call' = [op |-> "first", name |-> name] /\ ret' = ret
               ELSE Answers(name, None)
       [] body_status = APR_INCOMPLETE ->
            /\ call' = [op |-> "look", name |-> name] /\ ret' = ret
            /\ UNCHANGED <<reading, parser, hook_queue>>
       [] OTHER ->
            /\ Answers(name, apr_table_get(body, name))
            /\ UNCHANGED <<reading, parser, hook_queue>>
  /\ UNCHANGED <<module, request, lazy, settings, added>>

cgi_body_get_first(ok) ==
  /\ module = "cgi" /\ call.op = "first"
  /\ cgi_read(None, ok)
  /\ call' = [call EXCEPT !.op = "look"] /\ ret' = ret
  /\ UNCHANGED <<module, request, lazy, settings, hooked>>

(* It is in the table already, or the find_param hook goes in front.       *)
ScansOnly ==
  /\ module = "cgi" /\ call.op = "look"
  /\ call' = [call EXCEPT !.op = "scan"] /\ ret' = ret
  /\ parser' = apreq_parser_add_hook(parser, <<find_param>>)
  /\ found' = None
  /\ UNCHANGED <<module, request, lazy, in, body_status, body, bytes_read, shown, settings, hooked>>
cgi_body_get_look ==
  /\ module = "cgi" /\ call.op = "look"
  /\ IF apr_table_get(body, call.name) # None
     THEN /\ Answers(call.name, apr_table_get(body, call.name))
          /\ UNCHANGED <<parser, found>>
     ELSE /\ call' = [call EXCEPT !.op = "scan"] /\ ret' = ret
          /\ parser' = apreq_parser_add_hook(parser, <<find_param>>)
          /\ found' = None
  /\ UNCHANGED <<module, request, lazy, in, body_status, body, bytes_read, shown, settings, hooked>>

(* One round of the scan.                                                  *)
cgi_body_get_scan(ok) ==
  /\ module = "cgi" /\ call.op = "scan"
  /\ cgi_read(call.name, ok)
  /\ call' = [call EXCEPT !.op = IF found' # None \/ body_status' # APR_INCOMPLETE
                                 THEN "leave" ELSE "scan"]
  /\ ret' = ret
  /\ UNCHANGED <<module, request, lazy, settings, hooked>>

(* The scan is over: the hook leaves the list.                             *)
WithoutFind(p) == [p EXCEPT !.hook = Tail(@)]
cgi_body_get_leave ==
  /\ module = "cgi" /\ call.op = "leave"
  /\ parser' = WithoutFind(parser)
  /\ Answers(call.name, found)
  /\ UNCHANGED <<module, request, lazy, reading, settings, hooked>>

(* The custom handle looks into the table after every block.               *)
custom_body_get(name) ==
  /\ module = "custom" /\ call = Idle
  /\ call' = [op |-> "get", name |-> name] /\ ret' = ret
  /\ UNCHANGED <<module, request, lazy, parser, reading, settings, hooked>>

custom_body_get_loop(ok) ==
  /\ module = "custom" /\ call.op = "get"
  /\ LET val == apr_table_get(body, call.name)
     IN IF val # None \/ body_status # APR_INCOMPLETE
        THEN Answers(call.name, val) /\ UNCHANGED <<reading, parser>>
        ELSE custom_parse_brigade(ok) /\ UNCHANGED <<call, ret>>
  /\ UNCHANGED <<module, request, lazy, settings, hooked>>

(***************************************************************************)
(* Parsers, hooks and limits                                               *)
(***************************************************************************)
(* A parser made by the program, with or without settings of its own.      *)
OwnParsers == {apreq_parser_make(l, d, <<>>) : l \in Limits \cup {NoLimit}, d \in Dirs \cup {None}}

IgnoresOwnLimits(p) == p
Inherits(p) ==
  [p EXCEPT !.temp_dir = IF temp_dir # None THEN temp_dir ELSE @,
            !.brigade_limit = Min2(@, brigade_limit)]
cgi_parser_set(p) ==
  /\ module = "cgi" /\ call = Idle
  /\ IF parser = None
     THEN /\ parser' = apreq_parser_add_hook(Inherits(p), hook_queue)
          /\ hook_queue' = <<>>
          /\ Returns
     ELSE UNCHANGED <<parser, hook_queue>> /\ Returns
  /\ UNCHANGED <<module, request, lazy, reading, settings, added>>

cgi_hook_add(h) ==
  /\ module = "cgi" /\ call = Idle /\ h \notin added
  /\ added' = added \cup {h}
  /\ IF parser # None
     THEN parser' = apreq_parser_add_hook(parser, <<h>>) /\ hook_queue' = hook_queue
     ELSE hook_queue' = Append(hook_queue, h) /\ parser' = parser
  /\ Returns
  /\ UNCHANGED <<module, request, lazy, reading, settings>>

custom_hook_add(h) ==
  /\ module = "custom" /\ call = Idle /\ h \notin added
  /\ added' = added \cup {h}
  /\ parser' = apreq_parser_add_hook(parser, <<h>>)
  /\ Returns
  /\ UNCHANGED <<module, request, lazy, reading, settings, hook_queue>>

cgi_brigade_limit_get == IF parser = None THEN brigade_limit ELSE parser.brigade_limit
cgi_brigade_limit_set(bytes) ==
  /\ module = "cgi" /\ call = Idle
  /\ IF cgi_brigade_limit_get > bytes
     THEN /\ brigade_limit' = IF parser = None THEN bytes ELSE brigade_limit
          /\ parser' = IF parser = None THEN None ELSE [parser EXCEPT !.brigade_limit = bytes]
          /\ Returns
     ELSE UNCHANGED <<brigade_limit, parser>> /\ Returns
  /\ UNCHANGED <<module, request, lazy, reading, read_limit, temp_dir, hooked>>

cgi_read_limit_set(bytes) ==
  /\ module = "cgi" /\ call = Idle
  /\ IF read_limit > bytes /\ bytes_read < bytes
     THEN read_limit' = bytes /\ Returns
     ELSE read_limit' = read_limit /\ Returns
  /\ UNCHANGED <<module, request, lazy, reading, parser, brigade_limit, temp_dir, hooked>>

cgi_temp_dir_get == IF parser = None THEN temp_dir ELSE parser.temp_dir
cgi_temp_dir_set(path) ==
  /\ module = "cgi" /\ call = Idle
  /\ IF cgi_temp_dir_get = None /\ bytes_read = 0
     THEN /\ temp_dir' = IF parser = None THEN path ELSE temp_dir
          /\ parser' = IF parser = None THEN None ELSE [parser EXCEPT !.temp_dir = path]
          /\ Returns
     ELSE UNCHANGED <<temp_dir, parser>> /\ Returns
  /\ UNCHANGED <<module, request, lazy, reading, read_limit, brigade_limit, hooked>>

(* parser_set, brigade_limit_set, read_limit_set and temp_dir_set of the   *)
(* custom handle.                                                          *)
custom_set ==
  /\ module = "custom" /\ call = Idle
  /\ Returns
  /\ UNCHANGED <<module, request, lazy, parser, reading, settings, hooked>>

(***************************************************************************)
(* Specification                                                           *)
(***************************************************************************)
Lazy == cgi_jar \/ cgi_args \/ custom_jar \/ custom_args
Ask ==
  \/ cgi_body \/ custom_body
  \/ \E name \in Names : cgi_body_get(name) \/ custom_body_get(name)
Work(ok) ==
  \/ cgi_body_loop(ok) \/ custom_body_loop(ok)
  \/ cgi_body_get_first(ok) \/ cgi_body_get_look \/ cgi_body_get_scan(ok) \/ cgi_body_get_leave
  \/ custom_body_get_loop(ok)
Configure ==
  \/ \E p \in OwnParsers : cgi_parser_set(p)
  \/ \E h \in Hooks : cgi_hook_add(h) \/ custom_hook_add(h)
  \/ \E l \in Limits : cgi_brigade_limit_set(l) \/ cgi_read_limit_set(l)
  \/ \E d \in Dirs : cgi_temp_dir_set(d)
  \/ custom_set
Next == Lazy \/ Ask \/ (\E ok \in BOOLEAN : Work(ok)) \/ Configure

Spec == Init /\ [][Next]_vars
(* The loops run until they return: the program waits in the call.  No     *)
(* read has to fail.                                                       *)
FairSpec == Spec /\ WF_vars(Work(TRUE))

(***************************************************************************)
(* Properties                                                              *)
(***************************************************************************)
Statuses ==
  {APR_EINIT, APR_INCOMPLETE, APR_SUCCESS, GENERAL, OVERLIMIT, NOPARSER, NOHEADER, BADHEADER, "EIO"}
TypeOK ==
  /\ module \in {"cgi", "custom"} /\ request \in Requests
  /\ in \in [data : Seq(Block), eos : BOOLEAN]
  /\ {jar_status, args_status} \subseteq {APR_EINIT, NODATA, APR_SUCCESS, GENERAL}
  /\ body_status \in Statuses /\ body \in Seq(Param)
  /\ parser \in Parser \cup {None} /\ hook_queue \in Seq(Hooks)
  /\ read_limit \in Bytes /\ bytes_read \in Bytes /\ brigade_limit \in Bytes
  /\ temp_dir \in Dirs \cup {None}
  /\ found \in Param \cup {None}
  /\ call \in [op : {"idle", "body", "first", "look", "scan", "leave", "get"}, name : Names \cup {None}]
  /\ ret \in [name : Names \cup {None}, val : Param \cup {None}]
  /\ shown \in Seq(Block) /\ added \subseteq Hooks

(* Whatever is called in whatever order, both handles keep the promise of  *)
(* LazyBody: the table grows while the body is read, and once apreq_body   *)
(* or apreq_body_get has met the end or an error (module_cgi.c:262, 418,   *)
(* module_custom.c:48) neither status nor table changes.                   *)
Lazily == INSTANCE LazyBody WITH status <- body_status, table <- body,
  Refusals <- {BADHEADER, OVERLIMIT, NOPARSER, NOHEADER},
  Verdicts <- {APR_SUCCESS, GENERAL, OVERLIMIT, "EIO"}
KeepsPromise == Lazily!Spec

(* Between two calls no hook of the program is lost and find_param is not  *)
(* left behind: a hook added before there was a parser waits in the queue  *)
(* until init_body or cgi_parser_set (module_cgi.c:216, 522) hands it to   *)
(* the parser, and a scan that ends, in whatever way, takes its hook out   *)
(* again (module_cgi.c:481, 486).                                          *)
HooksKept ==
  call = Idle =>
    LET list == hook_queue \o (IF parser = None THEN <<>> ELSE parser.hook)
    IN Range(list) = added /\ Len(list) = Cardinality(added)

(* apreq_body_get answers with the first parameter of that name in the     *)
(* table; NULL means that there is none and that the body has been read to *)
(* its end or an error, in however many calls (module_cgi.c:435-501,       *)
(* module_custom.c:154-174).  The CGI handle's scan cannot see inside      *)
(* multipart/mixed: there only parameters outside it count.                *)
OutsideMixed(t, name) == FirstAt(t, {i \in DOMAIN t : t[i].name = name /\ ~t[i].mixed})
PlainGet(t, name) == IF module = "cgi" THEN OutsideMixed(t, name) ELSE apr_table_get(t, name)
BodyGetExact ==
  call = Idle /\ ret # NoAnswer =>
    IF ret.val = None
    THEN /\ body_status \notin {APR_EINIT, APR_INCOMPLETE}
         /\ PlainGet(body, ret.name) = None
    ELSE ret.val \in {apr_table_get(body, ret.name), PlainGet(body, ret.name)}

(* The parser of a CGI handle is never given more blocks than the read     *)
(* limit the handle then has, nor more than bytes_read counts, however the *)
(* program moves the limit between the reads (module_cgi.c:274, 300, 595). *)
WithinReadLimit ==
  module = "cgi" =>
    /\ Len(shown) <= read_limit
    /\ Len(shown) <= bytes_read

(* What a program has asked for stays: the limits of a CGI handle only go  *)
(* down and its temporary directory, once chosen, does not change, also    *)
(* when a parser with settings of its own comes in between                 *)
(* (module_cgi.c:526-530, 563-629).                                        *)
SettingsStick ==
  [][module = "cgi" =>
       /\ read_limit' <= read_limit
       /\ (cgi_brigade_limit_get)' <= cgi_brigade_limit_get
       /\ cgi_temp_dir_get # None => (cgi_temp_dir_get)' = cgi_temp_dir_get]_vars

(* Every call returns: the loops of apreq_body and apreq_body_get end on   *)
(* every body (module_cgi.c:426, 478, module_custom.c:114, 162).           *)
CallsReturn == (call # Idle) ~> (call = Idle)

-----------------------------------------------------------------------------
(* Why they hold.                                                          *)

(* A call that reads has a parser and has been told to begin.              *)
CallInv ==
  /\ call.op = "idle" => call = Idle
  /\ call.op \in {"first", "look", "scan", "leave", "get"} => call.name \in Names
  /\ call.op # "idle" \/ module = "custom" \/ body_status = APR_INCOMPLETE =>
       parser # None /\ body_status # APR_EINIT
  /\ module = "custom" => call.op \in {"idle", "body", "get"}

(* The hooks of the program, in the queue and in the parser; while a scan  *)
(* runs find_param is in front of them, and nowhere else.                  *)
Scanning == call.op \in {"scan", "leave"}
OwnHooks ==
  IF parser = None THEN <<>> ELSE IF Scanning THEN Tail(parser.hook) ELSE parser.hook
HookInv ==
  /\ IsFiniteSet(added)
  /\ Range(hook_queue \o OwnHooks) = added
  /\ Len(hook_queue \o OwnHooks) = Cardinality(added)
  /\ Scanning => parser.hook # <<>> /\ Head(parser.hook) = find_param

(* What a scan has found is what it should find.  The parser has run once  *)
(* before a scan begins, so its mixed parser does not have find_param.     *)
ScanInv ==
  /\ body_status = APR_EINIT => body = <<>>
  /\ parser # None => find_param \notin Range(parser.mixhook)
  /\ module = "cgi" /\ body_status = APR_INCOMPLETE /\ call.op \in {"idle", "look", "scan", "leave"} =>
       parser.run
  /\ call.op = "scan" => found = None
  /\ call.op = "leave" /\ found = None => body_status # APR_INCOMPLETE
  /\ Scanning => found = OutsideMixed(body, call.name)

(* The counters of a CGI handle do not wrap when a body is shorter than    *)
(* their range.                                                            *)
ShortBodies == \A b \in Bodies : Len(b) < Width
LimitInv ==
  module = "cgi" =>
    /\ Len(shown) <= read_limit /\ Len(shown) <= bytes_read
    /\ bytes_read + Len(in.data) < Width

(* The parser has the directory the handle was given.                      *)
SettingsInv ==
  module = "cgi" /\ parser # None /\ temp_dir # None => parser.temp_dir = temp_dir
=============================================================================
