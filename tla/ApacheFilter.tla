---------------------------- MODULE ApacheFilter ----------------------------
(***************************************************************************)
(* libapreq2 in Apache 2: the request handle (module/apache2/handle.c) and *)
(* the input filter behind it (module/apache2/filter.c).  A handle puts an *)
(* apreq filter on top of the request's input filters; asked for the body, *)
(* it prefetches through the filters below, keeps a copy in the filter's   *)
(* spool for whoever reads later, and parses.  The content handler reads   *)
(* through the same chain.  The hooks in front of the content handler may  *)
(* use a handle as well, and an internal redirect starts a new request on  *)
(* the protocol filters of the old one.                                    *)
(*                                                                         *)
(* Blocks of the body are known by their position in it.  All reads are    *)
(* in AP_MODE_READBYTES, the one mode the filter supports: it passes       *)
(* EXHAUSTIVE and GETLINE on to the filter below, past its spool and its   *)
(* parser, and refuses the others (filter.c:340-351).                      *)
(***************************************************************************)
EXTENDS BodyParser, Integers

CONSTANTS Bodies,        \* bodies, sequences of blocks
          Requests,      \* [method, cl, ct, limit]: headers, ReadLimit
          ReadBlock,     \* APREQ_DEFAULT_READ_BLOCK_SIZE, in blocks
          NoLimit,       \* (apr_uint64_t)-1
          Limits,        \* limits a program sets
          Bad,           \* a Content-Length that is not a number
          Other,         \* another module's content filter
          MaxFilters,    \* bound: apreq filters made
          MaxRedirects,  \* bound: internal redirects
          MaxSettings    \* bound: settings made through a handle

Filters == 1 .. MaxFilters

Parser == Parsers({NoLimit}, {None})
Request ==
  [method : {"GET", "POST"}, cl : {None, Bad} \cup Nat, ct : {"known", "unknown", "none"}, limit : Nat]
ASSUME Inputs == Requests \subseteq Request /\ Bodies \subseteq Seq(Block)
ASSUME Sizes == /\ ReadBlock \in Nat \ {0} /\ NoLimit \in Nat /\ Limits \subseteq Nat
                /\ {MaxFilters, MaxRedirects, MaxSettings} \subseteq Nat
ASSUME Nulls == /\ None \notin Parser
                /\ {None, Other} \cap Nat = {} /\ None # Other

VARIABLES content,  \* the body the client sends
          r,        \* [chain, proto, f, used]: r->input_filters from the top,
                    \* how many of the last ones r->proto_input_filters are,
                    \* the handle's filter, the filters made so far
          ctxOf,    \* f->ctx: the context of a filter, named by the filter
                    \* that made it, or 0
          ctx,      \* the contexts
          request,  \* the request's headers and configuration
          phase,    \* "hooks" before the content handler, then "handler"
          net,      \* blocks not yet read from the connection
          delivered,\* [data, eos]: what content handlers have read
          call,     \* the running call: [op, name]
          found,    \* ctx of the find_param hook
          redirects, sets,
          broken    \* a spool could not be written
vars == <<content, r, ctxOf, ctx, request, phase, net, delivered, call, found,
          redirects, sets, broken>>

Idle == [op |-> "idle", name |-> None]
NoBrigade == [data |-> <<>>, eos |-> FALSE]
IsEmpty(b) == b.data = <<>> /\ ~b.eos
BlocksAt(data) == [i \in DOMAIN data |-> content[data[i]]]

(* A filter context as apr_pcalloc and the directory configuration make it.*)
(* Its brigade limit and temporary directory are left out.                 *)
NewContext(limit) ==
  [status |-> APR_EINIT, spool |-> NoBrigade, parser |-> None, hook_queue |-> <<>>,
   body |-> <<>>, filter_error |-> FALSE, bytes_read |-> 0, read_limit |-> limit,
   shown |-> <<>>]

(***************************************************************************)
(* The filter chain: ap_add_input_filter, ap_remove_input_filter           *)
(***************************************************************************)
OnTop(q, f) == [q EXCEPT !.chain = <<f>> \o @]
PlaceOf(q, f) == SelectInSeq(q.chain, LAMBDA g : g = f)
ap_remove_input_filter(q, f) ==
  IF f \notin Range(q.chain) THEN q
  ELSE LET at == PlaceOf(q, f)
       IN [q EXCEPT !.chain = RemoveAt(@, at),
                    !.proto = IF Len(q.chain) - at < @ THEN @ - 1 ELSE @]

apreq_filter_relocate(q, f) ==
  IF Head(q.chain) = f THEN q ELSE OnTop(ap_remove_input_filter(q, f), f)

(* get_apreq_filter, also from apreq_handle_apache2: a new filter, on top. *)
get_apreq_filter(q) ==
  IF q.f # None THEN q
  ELSE [OnTop(q, q.used + 1) EXCEPT !.f = q.used + 1, !.used = q.used + 1]

Now == [r |-> r, of |-> ctxOf, ctx |-> ctx]
Become(x) == r' = x.r /\ ctxOf' = x.of /\ ctx' = x.ctx
HasContext(x, f) == f \in Filters /\ x.of[f] # 0
CtxOf(x, f) == x.ctx[x.of[f]]

(***************************************************************************)
(* Contexts                                                                *)
(***************************************************************************)
(* apreq_filter_init_context: the parser, or why there is none.            *)
Refusal(c) ==
  CASE request.method = "GET" -> NODATA
    [] request.cl = Bad -> BADHEADER
    [] request.cl \notin {None, Bad} /\ request.cl > c.read_limit -> OVERLIMIT
    [] c.parser = None /\ request.ct = "unknown" -> NOPARSER
    [] c.parser = None /\ request.ct = "none" -> NOHEADER
    [] OTHER -> APR_INCOMPLETE
Least(a, b) == IF a < b THEN a ELSE b
apreq_filter_init_context(c) ==
  IF Refusal(c) # APR_INCOMPLETE THEN [c EXCEPT !.status = Refusal(c)]
  ELSE [c EXCEPT
         !.status = APR_INCOMPLETE, !.hook_queue = <<>>,
         !.parser =
           IF c.parser = None THEN apreq_parser_make(NoLimit, None, c.hook_queue)
           ELSE apreq_parser_add_hook(c.parser, c.hook_queue)]

(* The context of the filter below may be taken over: it is the request's  *)
(* first protocol filter, and it was interrupted or has read everything.   *)
Stealable == {INTERRUPT, APR_SUCCESS}
CanSteal(x, f) ==
  /\ request.method # "GET"
  /\ Len(x.r.chain) >= 2 /\ x.r.chain[1] = f
  /\ x.r.proto = Len(x.r.chain) - 1 /\ x.r.chain[2] # Other
  /\ CtxOf(x, x.r.chain[2]).status \in Stealable

(* What the new request's configuration changes in a context taken over.   *)
StartsAgain(c) == [c EXCEPT !.status = APR_EINIT, !.read_limit = request.limit]
Stolen(c) ==
  [c EXCEPT !.status = IF @ = INTERRUPT THEN APR_INCOMPLETE ELSE @,
            !.read_limit = request.limit]

apreq_filter_make_context(x, f) ==
  IF x.of[f] # 0 THEN x
  ELSE IF CanSteal(x, f)
  THEN LET below == x.r.chain[2]
           q     == ap_remove_input_filter(x.r, below)
       IN [r |-> [q EXCEPT !.proto = Len(q.chain)],
           of |-> [x.of EXCEPT ![f] = x.of[below]],
           ctx |-> [x.ctx EXCEPT ![x.of[below]] = Stolen(@)]]
  ELSE [x EXCEPT !.of[f] = f, !.ctx[f] = NewContext(request.limit)]

Started(y, f) ==
  IF CtxOf(y, f).status = APR_EINIT
  THEN [y EXCEPT !.ctx[y.of[f]] = apreq_filter_init_context(@)]
  ELSE y
Prepared(x, f) == Started(apreq_filter_make_context(x, f), f)

(***************************************************************************)
(* Reading                                                                 *)
(***************************************************************************)
(* Count what was read; within the limit, the parser gets it.              *)
RunOn(c, got, key) == apreq_parser_run(c.parser, c.body, BlocksAt(got.data), got.eos, key)
Ran(c, run, got) ==
  [c EXCEPT !.status = run.rv, !.parser = run.parser, !.body = run.t, !.shown = @ \o got.data]
LimitsBefore(c, got, key) ==
  IF c.bytes_read > c.read_limit THEN [c EXCEPT !.status = OVERLIMIT]
  ELSE Ran([c EXCEPT !.bytes_read = @ + Len(got.data)], RunOn(c, got, key), got)
Feed(c, got, key) ==
  LET read == [c EXCEPT !.bytes_read = @ + Len(got.data)]
  IN IF read.bytes_read > c.read_limit THEN [read EXCEPT !.status = OVERLIMIT]
     ELSE Ran(read, RunOn(c, got, key), got)

(* What apreq_hook_find_param finds in a block that Feed gives the parser. *)
FoundIn(c, got, key) ==
  IF c.bytes_read + Len(got.data) > c.read_limit THEN None
  ELSE RunOn(c, got, key).found

(* apreq_filter answers out of its spool: n blocks, and the end of the     *)
(* body with the last of them.                                             *)
FromSpool(sp, n) ==
  LET m == Least(n, Len(sp.data))
  IN [got  |-> [data |-> SubSeq(sp.data, 1, m), eos |-> sp.eos /\ m = Len(sp.data)],
      left |-> [data |-> SubSeq(sp.data, m + 1, Len(sp.data)), eos |-> sp.eos /\ m < Len(sp.data)]]

(* Where ap_get_brigade on the i-th filter ends: at a spool, at a filter   *)
(* that reports an error, or at the connection (one below the chain).      *)
Answering(x, k) ==
  /\ HasContext(x, x.r.chain[k])
  /\ LET c == CtxOf(x, x.r.chain[k])
     IN ~IsEmpty(c.spool) \/ (c.filter_error /\ c.status # APR_INCOMPLETE)
Source(x, i) ==
  CHOOSE k \in i .. (Len(x.r.chain) + 1) :
    /\ k > Len(x.r.chain) \/ Answering(x, k)
    /\ \A j \in i .. (k - 1) : ~Answering(x, j)

(* apreq_filter in AP_MODE_READBYTES, on the way back: a filter that is    *)
(* parsing gives the blocks to its parser, one that is not leaves the      *)
(* chain.  The mutant stays.                                               *)
StaysInChain(x, f, got, ok) ==
  IF f = Other THEN x
  ELSE IF CtxOf(x, f).status # APR_INCOMPLETE \/ ~ok THEN x
  ELSE [x EXCEPT !.ctx[x.of[f]] = Feed(@, got, None)]
apreq_filter_passes(x, f, got, ok) ==
  IF f = Other THEN x
  ELSE IF CtxOf(x, f).status # APR_INCOMPLETE
  THEN [x EXCEPT !.r = ap_remove_input_filter(@, f)]
  ELSE IF ~ok THEN x
  ELSE [x EXCEPT !.ctx[x.of[f]] = Feed(@, got, None)]

(* Every filter from the i-th down to the one above the k-th is called.    *)
Called(x, f) == IF f = Other THEN x ELSE Prepared(x, f)
PreparedPath(x, i, k) ==
  LET down[n \in 0 .. (k - i)] ==
        IF n = 0 THEN x ELSE Called(down[n - 1], x.r.chain[i + n - 1])
  IN down[k - i]

(* ap_get_brigade for n blocks on the i-th filter, when the connection     *)
(* would give fresh.  Result: the state, the blocks, whether it succeeded, *)
(* and whether the connection was read.                                    *)
FromSource(x, k, n, fresh, ok) ==
  IF k > Len(x.r.chain) THEN [x |-> x, k |-> k, got |-> fresh, ok |-> ok, net |-> ok]
  ELSE LET of  == x.of[x.r.chain[k]]
           spool == x.ctx[of].spool
       IN [x |-> IF IsEmpty(spool) THEN x
                 ELSE [x EXCEPT !.ctx[of].spool = FromSpool(spool, n).left],
           k |-> k, got |-> FromSpool(spool, n).got, ok |-> ~IsEmpty(spool), net |-> FALSE]
AskSource(x, i, n, fresh, ok) ==
  LET k == Source(x, i) IN FromSource(PreparedPath(x, i, k), k, n, fresh, ok)
PassBack(b, i) ==
  LET up[n \in 0 .. (b.k - i)] ==
        IF n = 0 THEN b.x ELSE apreq_filter_passes(up[n - 1], b.x.r.chain[b.k - n], b.got, b.ok)
  IN [b EXCEPT !.x = up[b.k - i]]
ap_get_brigade(x, i, n, fresh, ok) ==
  PassBack(AskSource(IF i <= Len(x.r.chain) THEN Called(x, x.r.chain[i]) ELSE x,
                     i, n, fresh, ok), i)

(* What the connection may give when asked for n blocks.                   *)
Fresh(n) ==
  {[data |-> SubSeq(net, 1, m), eos |-> e] : m \in 1 .. Least(n, Len(net)), e \in {FALSE}}
  \cup (IF Len(net) <= n THEN {[data |-> net, eos |-> TRUE]} ELSE {})

(***************************************************************************)
(* apreq_filter_prefetch                                                   *)
(***************************************************************************)
(* The filter becomes the first protocol filter, unless it is one already. *)
StaysPlain(q, f) == q
AsProtocol(q, f) ==
  IF Len(q.chain) - PlaceOf(q, f) + 1 > q.proto
  THEN [q EXCEPT !.proto = Len(q.chain) - PlaceOf(q, f) + 1] ELSE q

LeftOnNet(bb) == IF bb.net THEN SubSeq(net, Len(bb.got.data) + 1, Len(net)) ELSE net
Prefetched(bb, spooled, key) ==
  LET c == ctx[ctxOf[r.f]]
      s == [c EXCEPT !.spool = [data |-> @.data \o bb.got.data, eos |-> @.eos \/ bb.got.eos]]
  IN /\ net' = LeftOnNet(bb)
     /\ IF bb.ok /\ spooled
        THEN /\ Become([bb.x EXCEPT !.r = AsProtocol(@, r.f),
                                    !.ctx[ctxOf[r.f]] = Feed(s, bb.got, key)])
             /\ found' = IF found # None THEN found ELSE FoundIn(c, bb.got, key)
             /\ broken' = broken
        ELSE /\ Become([bb.x EXCEPT !.ctx[ctxOf[r.f]] =
                            [c EXCEPT !.filter_error = TRUE, !.status = GENERAL]])
             /\ broken' = (broken \/ bb.ok) /\ found' = found
apreq_filter_prefetch(key) ==
  \E fresh \in Fresh(ReadBlock), ok \in BOOLEAN, spooled \in BOOLEAN :
    Prefetched(ap_get_brigade(Now, PlaceOf(r, r.f) + 1, ReadBlock, fresh, ok), spooled, key)

(***************************************************************************)
(* The operations of a handle (handle.c)                                   *)
(***************************************************************************)
(* Every operation makes sure of the handle's filter first.                *)
Using == [Now EXCEPT !.r = get_apreq_filter(r)]
Room == Using.r.used <= MaxFilters
WithContext == apreq_filter_make_context(Using, Using.r.f)
Mine(x) == x.of[x.r.f]

rest == <<content, request, phase, net, delivered, redirects, broken>>

(* apreq_handle_apache2, and apache2_parser_get, which makes no context.   *)
apreq_handle_apache2 ==
  /\ call = Idle /\ Room
  /\ Become(Using)
  /\ UNCHANGED <<rest, call, found, sets>>

apache2_body ==
  /\ call = Idle /\ Room
  /\ LET x == Prepared(Using, Using.r.f)
     IN /\ Become(x)
        /\ call' = IF CtxOf(x, x.r.f).status = APR_INCOMPLETE
                   THEN [op |-> "body", name |-> None] ELSE Idle
  /\ UNCHANGED <<rest, found, sets>>

(* One round of its loop.                                                  *)
apache2_body_loop ==
  /\ call.op = "body"
  /\ apreq_filter_prefetch(None)
  /\ call' = IF ctx'[ctxOf[r.f]].status = APR_INCOMPLETE THEN call ELSE Idle
  /\ UNCHANGED <<content, request, phase, delivered, redirects, sets>>

(* A handle that was not asked before prefetches one block first.          *)
apache2_body_get(name) ==
  /\ call = Idle /\ Room
  /\ LET x     == WithContext
         y     == Prepared(x, x.r.f)
         first == CtxOf(x, x.r.f).status
         now   == CtxOf(y, y.r.f).status
     IN /\ Become(y)
        /\ CASE first = APR_INCOMPLETE ->
                   call' = [op |-> "look", name |-> name]
             [] first = APR_EINIT /\ now = APR_INCOMPLETE ->
                   call' = [op |-> "first", name |-> name]
             [] OTHER -> call' = Idle
  /\ UNCHANGED <<rest, found, sets>>

apache2_body_get_first ==
  /\ call.op = "first"
  /\ apreq_filter_prefetch(None)
  /\ call' = [call EXCEPT !.op = "look"]
  /\ UNCHANGED <<content, request, phase, delivered, redirects, sets>>

(* It is in the table already, or the find_param hook goes in front.       *)
apache2_body_get_look ==
  /\ call.op = "look"
  /\ LET val == apr_table_get(ctx[ctxOf[r.f]].body, call.name)
     IN IF val # None
        THEN call' = Idle /\ UNCHANGED <<ctx, found>>
        ELSE /\ call' = [call EXCEPT !.op = "scan"]
             /\ ctx' = [ctx EXCEPT ![ctxOf[r.f]].parser = apreq_parser_add_hook(@, <<find_param>>)]
             /\ found' = None
  /\ UNCHANGED <<rest, r, ctxOf, sets>>

(* One round of the scan; after an error in the first block there is       *)
(* nothing to prefetch.                                                    *)
apache2_body_get_scan ==
  /\ call.op = "scan"
  /\ IF ctx[ctxOf[r.f]].status = APR_INCOMPLETE THEN apreq_filter_prefetch(call.name)
     ELSE UNCHANGED <<r, ctxOf, ctx, net, found, broken>>
  /\ call' = [call EXCEPT !.op = IF found' # None \/ ctx'[ctxOf[r.f]].status # APR_INCOMPLETE
                                 THEN "leave" ELSE "scan"]
  /\ UNCHANGED <<content, request, phase, delivered, redirects, sets>>

apache2_body_get_leave ==
  /\ call.op = "leave"
  /\ ctx' = [ctx EXCEPT ![ctxOf[r.f]].parser.hook = Tail(@)]
  /\ call' = Idle /\ found' = None
  /\ UNCHANGED <<rest, r, ctxOf, sets>>

(* Settings.  set(c) is the context the operation leaves.                  *)
Setting(set(_)) ==
  /\ call = Idle /\ Room /\ sets < MaxSettings
  /\ LET x == WithContext IN Become([x EXCEPT !.ctx[Mine(x)] = set(@)])
  /\ sets' = sets + 1
  /\ UNCHANGED <<rest, call, found>>

parser_set(c) == IF c.parser = None
  THEN [c EXCEPT !.parser = apreq_parser_make(NoLimit, None, <<>>)] ELSE c
apache2_parser_set == Setting(parser_set)

apache2_hook_add(h) ==
  LET add(c) == IF c.parser # None THEN [c EXCEPT !.parser = apreq_parser_add_hook(@, <<h>>)]
                ELSE [c EXCEPT !.hook_queue = Append(@, h)]
  IN Setting(add)

apache2_read_limit_set(bytes) ==
  LET set(c) == IF c.read_limit > bytes /\ c.bytes_read < bytes
                THEN [c EXCEPT !.read_limit = bytes] ELSE c
  IN Setting(set)

(* The brigade limit and the temporary directory, set or asked for, and    *)
(* apache2_read_limit_get: what they leave behind is a filter and its      *)
(* context (the values say where a spool is kept, not what is in it).      *)
apache2_spool_setting ==
  /\ call = Idle /\ Room
  /\ Become(WithContext)
  /\ UNCHANGED <<rest, call, found, sets>>

(***************************************************************************)
(* The server around it                                                    *)
(***************************************************************************)
(* apreq_filter_init, called for every filter of the chain before the      *)
(* content handler.                                                        *)
apreq_filter_init(x, f) ==
  LET y == [x EXCEPT !.r = get_apreq_filter(@)]
      status == IF y.of[f] = 0 THEN APR_EINIT ELSE CtxOf(y, f).status
      top == Head(y.r.chain)
  IN CASE f = Other -> x
       [] f # Other /\ request.method = "GET" -> y
       [] f # Other /\ request.method # "GET" /\ status = APR_EINIT ->
            IF f = top THEN [y EXCEPT !.r.f = f]
            ELSE IF top # Other
            THEN [y EXCEPT !.r = ap_remove_input_filter([y.r EXCEPT !.f = IF @ = f THEN top ELSE @], f)]
            ELSE [y EXCEPT !.r = [apreq_filter_relocate(y.r, f) EXCEPT !.f = f]]
       [] OTHER ->
            IF y.r.f # f THEN y
            ELSE [y EXCEPT !.r.f = None,
                           !.ctx[y.of[f]].status = IF @ = APR_INCOMPLETE THEN INTERRUPT ELSE @]

InitFilters(x) ==
  LET after[n \in 0 .. Len(x.r.chain)] ==
        IF n = 0 THEN x ELSE apreq_filter_init(after[n - 1], x.r.chain[n])
  IN after[Len(x.r.chain)]

(* ap_invoke_handler: other modules insert a content filter (other), the   *)
(* configuration an apreq filter (SetInputFilter), and every filter's init *)
(* function runs.                                                          *)
ap_invoke_handler(other, setinput) ==
  /\ call = Idle /\ phase = "hooks"
  /\ LET q1 == IF other /\ Other \notin Range(r.chain) THEN OnTop(r, Other) ELSE r
         q2 == IF ~setinput THEN q1
               ELSE [q1 EXCEPT !.chain = Append(@, q1.used + 1), !.used = @ + 1,
                               !.proto = IF @ > 0 THEN @ + 1 ELSE 0]
         ok == q2.used <= MaxFilters
         x  == InitFilters([Now EXCEPT !.r = q2])
     IN /\ ok
        /\ x.r.used <= MaxFilters
        /\ Become(x)
  /\ phase' = "handler"
  /\ UNCHANGED <<content, request, net, delivered, call, found, redirects, sets, broken>>

(* The content handler reads n blocks from the top of the chain.           *)
Delivers(bb) ==
  /\ Become(bb.x)
  /\ net' = LeftOnNet(bb)
  /\ delivered' = IF bb.ok THEN [data |-> delivered.data \o bb.got.data, eos |-> bb.got.eos]
                  ELSE delivered
Read(n) ==
  /\ call = Idle /\ phase = "handler" /\ ~delivered.eos
  /\ \E fresh \in Fresh(n), ok \in BOOLEAN : Delivers(ap_get_brigade(Now, 1, n, fresh, ok))
  /\ UNCHANGED <<content, request, phase, call, found, redirects, sets, broken>>

(* ap_internal_redirect: a new request, with the protocol filters.         *)
ap_internal_redirect(q) ==
  /\ call = Idle /\ phase = "handler" /\ redirects < MaxRedirects
  /\ redirects' = redirects + 1
  /\ request' = [q EXCEPT !.cl = request.cl, !.ct = request.ct]
  /\ r' = [r EXCEPT !.chain = SubSeq(@, Len(@) - r.proto + 1, Len(@)), !.f = None]
  /\ phase' = "hooks"
  /\ UNCHANGED <<content, ctxOf, ctx, net, delivered, call, found, sets, broken>>

Init ==
  /\ content \in Bodies
  /\ request \in {q \in Requests : q.method = "POST"}
  /\ r = [chain |-> <<>>, proto |-> 0, f |-> None, used |-> 0]
  /\ ctxOf = [f \in Filters |-> 0]
  /\ ctx = [f \in Filters |-> NewContext(NoLimit)]
  /\ phase = "hooks"
  /\ net = [i \in 1 .. Len(content) |-> i]
  /\ delivered = NoBrigade
  /\ call = Idle /\ found = None
  /\ redirects = 0 /\ sets = 0 /\ broken = FALSE

Call == apreq_handle_apache2 \/ apache2_body \/ \E name \in Names : apache2_body_get(name)
Work ==
  \/ apache2_body_loop \/ apache2_body_get_first \/ apache2_body_get_look
  \/ apache2_body_get_scan \/ apache2_body_get_leave
Configure ==
  \/ apache2_parser_set \/ apache2_spool_setting
  \/ \E h \in Hooks : apache2_hook_add(h)
  \/ \E l \in Limits : apache2_read_limit_set(l)
Server ==
  \/ \E other, setinput \in BOOLEAN : ap_invoke_handler(other, setinput)
  \/ \E n \in 1 .. ReadBlock : Read(n)
  \/ \E q \in Requests : ap_internal_redirect(q)
Next == Call \/ Work \/ Configure \/ Server
Spec == Init /\ [][Next]_vars

(***************************************************************************)
(* Properties                                                              *)
(***************************************************************************)
Positions(from, n) == [i \in 1 .. n |-> from + i]

(* Whatever is parsed, prefetched, interrupted, stolen or redirected, the  *)
(* content handlers read the client's body: what they have read, what the  *)
(* spools down the chain hold and what is still on the connection is the   *)
(* body, in order, once, and its end comes last (filter.c:283, 358-368,    *)
(* 492-510).  A spool that could not be written is the one way to lose it  *)
(* for handlers that read in AP_MODE_READBYTES, the mode that is modelled. *)
SpoolOf(f) == IF HasContext(Now, f) THEN CtxOf(Now, f).spool.data ELSE <<>>
DownstreamExact ==
  LET spools == FlattenSeq([i \in DOMAIN r.chain |-> SpoolOf(r.chain[i])])
  IN ~broken =>
       /\ delivered.data \o spools \o net = Positions(0, Len(content))
       /\ delivered.eos => Len(delivered.data) = Len(content)

(* A parser is given consecutive blocks, and a body it calls complete has  *)
(* been given to it up to the last block or the closing boundary, also     *)
(* when one filter prefetched a part of it, another took its context over  *)
(* and the content handler read the rest (filter.c:254-401), all of them   *)
(* in AP_MODE_READBYTES.                                                   *)
ParserContiguous ==
  \A f \in Filters :
    LET c == ctx[f]
    IN c.shown # <<>> =>
         /\ c.shown = Positions(c.shown[1] - 1, Len(c.shown))
         /\ c.status = APR_SUCCESS =>
              \/ Last(c.shown) = Len(content)
              \/ \E p \in Range(c.shown) : content[p].kind = "last"

(* No parser is shown more blocks than the read limit its context then has,*)
(* whoever read them and whatever the limit was before (filter.c:309, 385).*)
ReadLimitKept ==
  [][\A f \in Filters : ctx'[f].shown # ctx[f].shown =>
        Len(ctx'[f].shown) <= ctx'[f].read_limit]_vars

(* A context, in whichever filter it is, keeps the promise of LazyBody; an *)
(* interrupted one only waits to be taken over (filter.c:241, 482).        *)
View(f) == IF ctx[f].status = INTERRUPT THEN APR_INCOMPLETE ELSE ctx[f].status
Lazily(f) == INSTANCE LazyBody WITH status <- View(f), table <- ctx[f].body,
  Refusals <- {NODATA, BADHEADER, OVERLIMIT, NOPARSER, NOHEADER},
  Verdicts <- {APR_SUCCESS, GENERAL, OVERLIMIT}
KeepsPromise ==
  /\ \A f \in Filters : Lazily(f)!Init
  /\ [][\A f \in Filters : Lazily(f)!Next \/ UNCHANGED <<View(f), ctx[f].body>>]_vars

-----------------------------------------------------------------------------
(* Why they hold.  World is the type of what a call changes, and the       *)
(* predicates below are about such an x, so that they also speak of the    *)
(* states inside a step.                                                   *)
Statuses ==
  {APR_EINIT, APR_INCOMPLETE, APR_SUCCESS, GENERAL, OVERLIMIT, NODATA, NOPARSER, NOHEADER,
   BADHEADER, INTERRUPT}
Places == 1 .. Len(content)
Brigades == [data : Seq(Places), eos : BOOLEAN]
Context ==
  [status : Statuses, spool : Brigades, parser : Parser \cup {None}, hook_queue : Seq(AnyHook),
   body : Seq(Param), filter_error : BOOLEAN, bytes_read : Nat, read_limit : Nat, shown : Seq(Places)]
Chain == [chain : Seq(Nat \cup {Other}), proto : Nat, f : Nat \cup {None}, used : Nat]
World == [r : Chain, of : [Filters -> {0} \cup Filters], ctx : [Filters -> Context]]

TypeOK ==
  /\ content \in Bodies /\ request \in Request
  /\ Now \in World /\ r.used <= MaxFilters
  /\ phase \in {"hooks", "handler"}
  /\ net \in Seq(Places) /\ delivered \in Brigades
  /\ call \in [op : {"idle", "body", "first", "look", "scan", "leave"}, name : Names \cup {None}]
  /\ found \in Param \cup {None}
  /\ redirects \in 0 .. MaxRedirects /\ sets \in 0 .. MaxSettings /\ broken \in BOOLEAN

(* The chain holds filters that were made, each once.                      *)
Chained(q) ==
  /\ \A t \in DOMAIN q.chain : q.chain[t] = Other \/ q.chain[t] \in 1 .. q.used
  /\ \A t, u \in DOMAIN q.chain : q.chain[t] = q.chain[u] => t = u
  /\ q.proto <= Len(q.chain)

(* A context belongs to the filter that made it, and to no two filters of  *)
(* the chain.                                                              *)
Owned(x) ==
  /\ \A f \in Filters : x.of[f] # 0 => f <= x.r.used /\ x.of[x.of[f]] = x.of[f]
  /\ \A f \in Filters : x.of[f] = 0 => x.ctx[f].status = APR_EINIT
  /\ \A t, u \in DOMAIN x.r.chain :
       /\ HasContext(x, x.r.chain[t]) /\ HasContext(x, x.r.chain[u])
       /\ x.of[x.r.chain[t]] = x.of[x.r.chain[u]]
       => t = u

(* The handle's filter is in the chain, with no other apreq filter above   *)
(* it, or has done its work.                                               *)
Finished == {APR_SUCCESS, GENERAL, OVERLIMIT, NODATA, NOPARSER, NOHEADER, BADHEADER}
Handled(x) ==
  x.r.f # None =>
    /\ x.r.f \in 1 .. x.r.used
    /\ x.r.f \in Range(x.r.chain) \/ (HasContext(x, x.r.f) /\ CtxOf(x, x.r.f).status \in Finished)
    /\ HasContext(x, x.r.f) => CtxOf(x, x.r.f).status # INTERRUPT
    /\ \A t, u \in DOMAIN x.r.chain : x.r.chain[u] = x.r.f /\ t < u => x.r.chain[t] = Other

(* What a context has to say about its parser: nothing was read before it  *)
(* was set up, what it was shown are consecutive blocks that it counted,   *)
(* and it is complete only after the last one.                             *)
Consecutive(s) == s # <<>> => s = Positions(s[1] - 1, Len(s))
SawTheEnd(s) == Last(s) = Len(content) \/ \E p \in Range(s) : content[p].kind = "last"
Sound(c) ==
  /\ c.status = APR_EINIT => c.spool = NoBrigade /\ c.body = <<>> /\ c.shown = <<>>
  /\ c.status \in {APR_INCOMPLETE, INTERRUPT} => c.parser # None
  /\ c.status \in {APR_EINIT, APR_INCOMPLETE, INTERRUPT} /\ c.parser # None =>
       c.parser.st # "complete"
  /\ c.filter_error => c.status = GENERAL
  /\ Len(c.shown) <= c.bytes_read
  /\ Consecutive(c.shown)
  /\ c.status = APR_SUCCESS /\ c.shown # <<>> => SawTheEnd(c.shown)

(* Only protocol filters hold blocks, and the first of them is at work.    *)
FirstProto(q) == q.chain[Len(q.chain) - q.proto + 1]
Kept(x) ==
  /\ \A t \in DOMAIN x.r.chain :
       t <= Len(x.r.chain) - x.r.proto /\ HasContext(x, x.r.chain[t]) =>
         CtxOf(x, x.r.chain[t]).spool.data = <<>>
  /\ x.r.proto > 0 /\ FirstProto(x.r) # Other =>
       HasContext(x, FirstProto(x.r)) /\ CtxOf(x, FirstProto(x.r)).status # APR_EINIT

(* What the others notice of a filter.                                     *)
Seen(x, f) ==
  IF HasContext(x, f)
  THEN LET c == CtxOf(x, f)
       IN [data |-> c.spool.data, eos |-> c.spool.eos, err |-> c.filter_error,
           parsing |-> c.status \in {APR_INCOMPLETE, INTERRUPT}, shown |-> c.shown]
  ELSE [data |-> <<>>, eos |-> FALSE, err |-> FALSE, parsing |-> FALSE, shown |-> <<>>]
Sights(x) == [t \in 1 .. Len(x.r.chain) |-> Seen(x, x.r.chain[t])]

(* A filter whose spool begins after from blocks of the body, when the one *)
(* below it goes on after to blocks.  Blocks are missing between the two   *)
(* only below a filter that reports an error, and none are when whole.     *)
Stretch(w, from, to, size, whole) ==
  /\ w.data = Positions(from, Len(w.data))
  /\ from + Len(w.data) <= to
  /\ whole \/ ~w.err => from + Len(w.data) = to
  /\ w.eos => from + Len(w.data) = size
  /\ w.parsing /\ w.shown # <<>> => Last(w.shown) = to

(* Down the chain the spools are stretches of the body.  p[t] is where the *)
(* t-th begins; m blocks are on their way up and have reached the h-th.    *)
Above(p, h, m, t) == IF t = h THEN p[t] - m ELSE p[t]
Cuts(v, p, a, b, h, m, size, whole) ==
  /\ p \in [1 .. (Len(v) + 1) -> 0 .. size]
  /\ p[Len(v) + 1] = b
  /\ whole => Above(p, h, m, 1) = a
  /\ \A t \in 1 .. Len(v) : Stretch(v[t], p[t], Above(p, h, m, t + 1), size, whole)
Flows(x, a, b, h, m) ==
  \E p \in [1 .. (Len(x.r.chain) + 1) -> 0 .. Len(content)] :
    Cuts(Sights(x), p, a, b, h, m, Len(content), ~broken)

CallInv ==
  /\ call.op = "idle" => call = Idle
  /\ call.op # "idle" =>
       /\ r.f # None /\ HasContext(Now, r.f) /\ CtxOf(Now, r.f).parser # None
       /\ call.op \in {"body", "first"} => CtxOf(Now, r.f).status = APR_INCOMPLETE
       /\ call.op \in {"scan", "leave"} => CtxOf(Now, r.f).parser.hook # <<>>
StreamInv ==
  /\ net = Positions(Len(content) - Len(net), Len(net)) /\ Len(net) <= Len(content)
  /\ Flows(Now, Len(delivered.data), Len(content) - Len(net), 0, 0)
  /\ ~broken => /\ delivered.data = Positions(0, Len(delivered.data))
                /\ delivered.eos => Len(delivered.data) = Len(content)

IInv ==
  /\ Chained(r) /\ Owned(Now) /\ Handled(Now) /\ Kept(Now)
  /\ \A f \in Filters : Sound(ctx[f])
  /\ CallInv /\ StreamInv
=============================================================================
