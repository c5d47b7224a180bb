----------------------------- MODULE BodyParser -----------------------------
(***************************************************************************)
(* What the request handles of libapreq2 use of a parser: the hook list    *)
(* (parser.c) and the answers of apreq_parser_run.  The parsers themselves *)
(* are modelled byte by byte in FormBody; here a body is a sequence of     *)
(* blocks, the unit the read limit counts, and a block is                  *)
(*   name:  the parameter it completes (None: none),                       *)
(*   mixed: the parameter is in a multipart/mixed part,                    *)
(*   kind:  "data"; "bad", the parser fails on it; "last", the closing     *)
(*          boundary; "open", an escape that the end of the body cuts.     *)
(***************************************************************************)
EXTENDS Naturals, SequencesExt

CONSTANTS None,        \* no name, no directory: NULL
          find_param,  \* the hook apreq_body_get puts in front of the list
          Names,       \* names of parameters
          Hooks        \* hooks a program adds

(* The blocks of a body, parameters with the hooks that ran on them, and   *)
(* parsers with the given brigade limits and temporary directories.        *)
Block == [name : Names \cup {None}, mixed : BOOLEAN, kind : {"data", "bad", "last", "open"}]
AnyHook == Hooks \cup {find_param}
Param == [name : Names, mixed : BOOLEAN, by : SUBSET AnyHook]
Parsers(limits, dirs) ==
  [st : {"reading", "open", "error", "complete"}, hook : Seq(AnyHook), mixhook : Seq(AnyHook),
   run : BOOLEAN, brigade_limit : limits, temp_dir : dirs]
ASSUME NullParam == None \notin Param

(* The status codes the handles tell apart.                                *)
APR_EINIT      == "EINIT"
APR_INCOMPLETE == "INCOMPLETE"
APR_SUCCESS    == "SUCCESS"
GENERAL        == "GENERAL"
OVERLIMIT      == "OVERLIMIT"
NODATA         == "NODATA"
NOPARSER       == "NOPARSER"
NOHEADER       == "NOHEADER"
BADHEADER      == "BADHEADER"
INTERRUPT      == "INTERRUPT"

(* apreq_parser_make.  mixhook is the hook list of the mixed parser, which *)
(* the first call of the multipart parser makes.                           *)
apreq_parser_make(limit, dir, hooks) ==
  [st |-> "reading", hook |-> hooks, mixhook |-> <<>>, run |-> FALSE,
   brigade_limit |-> limit, temp_dir |-> dir]

(* apreq_parser_add_hook: in front of the hooks that are there.            *)
apreq_parser_add_hook(p, hooks) == [p EXCEPT !.hook = hooks \o @]

(* The first of some places of a table, and apr_table_get: the first value *)
(* with that name, or None.                                                *)
FirstAt(t, places) == IF places = {} THEN None ELSE t[Min(places)]
apr_table_get(t, name) == FirstAt(t, {i \in DOMAIN t : t[i].name = name})

(* The blocks in front of the first that ends the parser's work.           *)
Working(blocks) ==
  LET ends == {i \in DOMAIN blocks : blocks[i].kind \in {"bad", "last"}}
  IN IF ends = {} THEN blocks ELSE SubSeq(blocks, 1, Min(ends) - 1)

(* The parameters of some blocks, each with the hooks that ran on it.      *)
Entry(b, p) ==
  [name |-> b.name, mixed |-> b.mixed, by |-> Range(IF b.mixed THEN p.mixhook ELSE p.hook)]
Entries(blocks, p) ==
  FlattenSeq([i \in DOMAIN blocks |->
    IF blocks[i].name = None THEN <<>> ELSE <<Entry(blocks[i], p)>>])

(* apreq_hook_find_param: the first parameter called key it is run on.     *)
apreq_hook_find_param(es, key) ==
  FirstAt(es, {i \in DOMAIN es : find_param \in es[i].by /\ es[i].name = key})

(* apreq_parser_run on blocks, and on the end of the body when eos.  A cut *)
(* escape is APR_INCOMPLETE once more, then an error.                      *)
StaysOpen == [st |-> "open", rv |-> APR_INCOMPLETE]
CutEnd == [st |-> "error", rv |-> APR_INCOMPLETE]
apreq_parser_run(parser, t, blocks, eos, key) ==
  LET p    == IF parser.run THEN parser
              ELSE [parser EXCEPT !.run = TRUE, !.mixhook = parser.hook]
      good == Working(blocks)
      end  == IF Len(good) < Len(blocks) THEN blocks[Len(good) + 1].kind
              ELSE IF ~eos THEN "none"
              ELSE IF p.st = "open" \/ \E i \in DOMAIN good : good[i].kind = "open"
              THEN "cut" ELSE "last"
      es   == Entries(good, p)
      Answer(st, rv) == [parser |-> [p EXCEPT !.st = st], t |-> t \o es, rv |-> rv,
                         found |-> apreq_hook_find_param(es, key)]
  IN CASE p.st = "error"    -> [parser |-> parser, t |-> t, rv |-> GENERAL, found |-> None]
       [] p.st = "complete" -> [parser |-> parser, t |-> t, rv |-> APR_SUCCESS, found |-> None]
       [] OTHER ->
            CASE end = "bad"  -> Answer("error", GENERAL)
              [] end = "last" -> Answer("complete", APR_SUCCESS)
              [] end = "cut"  -> Answer(CutEnd.st, CutEnd.rv)
              [] end = "none" ->
                   Answer(IF \E i \in DOMAIN good : good[i].kind = "open" THEN "open" ELSE p.st,
                          APR_INCOMPLETE)
=============================================================================
