----------------------------- MODULE BodyLemmas -----------------------------
(***************************************************************************)
(* What the parsers of BodyParser do, for any blocks and hooks: facts that *)
(* the proofs about both kinds of request handles rest on.                 *)
(***************************************************************************)
EXTENDS BodyParser, ListLemmas

-----------------------------------------------------------------------------
(* Parsers.                                                                *)

\* The entries of some blocks are parameters; a hook has run on them when it was in
\* the list of the parser that made them.
LEMMA EntriesType ==
  ASSUME NEW limits, NEW dirs, NEW p \in Parsers(limits, dirs), NEW blocks \in Seq(Block)
  PROVE  Entries(blocks, p) \in
           Seq({e \in Param : e.by = Range(IF e.mixed THEN p.mixhook ELSE p.hook)})
<1>. DEFINE T == {e \in Param : e.by = Range(IF e.mixed THEN p.mixhook ELSE p.hook)}
            s == [i \in DOMAIN blocks |->
                    IF blocks[i].name = None THEN <<>> ELSE <<Entry(blocks[i], p)>>]
<1>1. p.hook \in Seq(AnyHook) /\ p.mixhook \in Seq(AnyHook)
  BY DEF Parsers
<1>2. Range(p.hook) \subseteq AnyHook /\ Range(p.mixhook) \subseteq AnyHook
  BY <1>1 DEF Range
<1>3. ASSUME NEW b \in Block, b.name # None PROVE Entry(b, p) \in T
  <2>1. b.name \in Names /\ b.mixed \in BOOLEAN
    BY <1>3 DEF Block
  <2>2. Entry(b, p) \in Param
    <3>1. Range(IF b.mixed THEN p.mixhook ELSE p.hook) \in SUBSET AnyHook
      BY <1>2, <2>1
    <3>. QED  BY <2>1, <3>1 DEF Entry, Param
  <2>3. Entry(b, p).by = Range(IF Entry(b, p).mixed THEN p.mixhook ELSE p.hook)
    BY DEF Entry
  <2>. QED  BY <2>2, <2>3
<1>4. ASSUME NEW i \in DOMAIN blocks PROVE s[i] \in Seq(T)
  <2>. HIDE DEF T
  <2>1. blocks[i] \in Block
    OBVIOUS
  <2>2. CASE blocks[i].name = None
    BY <2>2
  <2>3. CASE blocks[i].name # None
    <3>1. Entry(blocks[i], p) \in T
      BY <1>3, <2>1, <2>3
    <3>. QED  BY <2>3, <3>1
  <2>. QED  BY <2>2, <2>3
<1>5. s \in Seq(Seq(T))
  <2>1. DOMAIN blocks = 1..Len(blocks) /\ Len(blocks) \in Nat
    OBVIOUS
  <2>2. s = [i \in 1..Len(blocks) |-> s[i]]
    BY <2>1
  <2>3. \A i \in 1..Len(blocks) : s[i] \in Seq(T)
    BY <1>4, <2>1
  <2>. HIDE DEF T, s
  <2>. QED  BY <2>1, <2>2, <2>3
<1>6. FlattenSeq(s) \in Seq(T)
  <2>. HIDE DEF T, s
  <2>. QED  BY <1>5, FlattenType
<1>. QED  BY <1>6 DEF Entries

\* The blocks a parser works on are blocks.
LEMMA WorkingType ==
  ASSUME NEW blocks \in Seq(Block)
  PROVE  Working(blocks) \in Seq(Block) /\ Len(Working(blocks)) \in Nat
<1>. DEFINE ends == {i \in DOMAIN blocks : blocks[i].kind \in {"bad", "last"}}
<1>1. CASE ends = {}
  BY <1>1 DEF Working
<1>2. CASE ends # {}
  <2>1. ends \subseteq Nat
    OBVIOUS
  <2>2. Min(ends) \in ends
    <3>. HIDE DEF ends
    <3>. QED  BY <1>2, <2>1, LeastIndex
  <2>3. Min(ends) \in 1..Len(blocks)
    BY <2>2
  <2>4. Working(blocks) = SubSeq(blocks, 1, Min(ends) - 1)
    BY <1>2 DEF Working
  <2>5. PICK m \in 1..Len(blocks) : m = Min(ends)
    BY <2>3
  <2>6. SubSeq(blocks, 1, m - 1) \in Seq(Block)
    OBVIOUS
  <2>. QED  BY <2>4, <2>5, <2>6
<1>. QED  BY <1>1, <1>2

\* What a run of a parser does: it adds entries, each with the hooks that ran on it,
\* and leaves the list of hooks, the limit and the directory alone.
RunAdds(p, t, key, run, es) ==
  /\ run.t = t \o es
  /\ run.found = apreq_hook_find_param(es, key)
  /\ \A i \in 1..Len(es) : es[i].by = Range(IF es[i].mixed THEN run.parser.mixhook ELSE p.hook)
RunKeeps(p, run) ==
  /\ run.parser.hook = p.hook /\ run.parser.brigade_limit = p.brigade_limit
  /\ run.parser.temp_dir = p.temp_dir
  /\ run.parser.mixhook = p.mixhook \/ (~p.run /\ run.parser.mixhook = p.hook)
  /\ run.rv = APR_INCOMPLETE => run.parser.run

\* A parser says that it is complete when it was, at the closing boundary or at the
\* end of the body.
RunEnds(p, blocks, eos, run) ==
  /\ run.parser.st = "complete" => run.rv = APR_SUCCESS
  /\ run.rv = APR_SUCCESS =>
       p.st = "complete" \/ eos \/ \E i \in DOMAIN blocks : blocks[i].kind = "last"

LEMMA ParserRun ==
  ASSUME NEW limits, NEW dirs, NEW p \in Parsers(limits, dirs), NEW t \in Seq(Param),
         NEW blocks \in Seq(Block), NEW eos \in BOOLEAN, NEW key
  PROVE  LET run == apreq_parser_run(p, t, blocks, eos, key)
         IN /\ run.parser \in Parsers(limits, dirs)
            /\ run.rv \in {GENERAL, APR_SUCCESS, APR_INCOMPLETE}
            /\ RunKeeps(p, run) /\ RunEnds(p, blocks, eos, run)
            /\ \E es \in Seq(Param) : RunAdds(p, t, key, run, es)
<1>. DEFINE run == apreq_parser_run(p, t, blocks, eos, key)
            q    == IF p.run THEN p ELSE [p EXCEPT !.run = TRUE, !.mixhook = p.hook]
            good == Working(blocks)
            es   == Entries(good, q)
            Answer(st, rv) == [parser |-> [q EXCEPT !.st = st], t |-> t \o es, rv |-> rv,
                               found |-> apreq_hook_find_param(es, key)]
            States == {"reading", "open", "error", "complete"}
            AtEnd == eos \/ \E i \in DOMAIN blocks : blocks[i].kind = "last"
            Fits(st, rv) == (st = "complete" => rv = APR_SUCCESS) /\ (rv = APR_SUCCESS => AtEnd)
<1>1. q \in Parsers(limits, dirs) /\ q.run /\ q.hook = p.hook /\ q.brigade_limit = p.brigade_limit
      /\ q.temp_dir = p.temp_dir /\ q.st = p.st
      /\ (q.mixhook = p.mixhook \/ (~p.run /\ q.mixhook = p.hook))
  BY DEF Parsers
<1>2. good \in Seq(Block)
  BY WorkingType
<1>3. \/ p.st = "error" /\ run = [parser |-> p, t |-> t, rv |-> GENERAL, found |-> None]
      \/ p.st = "complete" /\ run = [parser |-> p, t |-> t, rv |-> APR_SUCCESS, found |-> None]
      \/ \E st \in States, rv \in {GENERAL, APR_SUCCESS, APR_INCOMPLETE} :
           run = Answer(st, rv) /\ Fits(st, rv)
  <2>. DEFINE end == IF Len(good) < Len(blocks) THEN blocks[Len(good) + 1].kind
              ELSE IF ~eos THEN "none"
              ELSE IF q.st = "open" \/ \E i \in DOMAIN good : good[i].kind = "open"
              THEN "cut" ELSE "last"
  <2>1. CASE q.st \in {"error", "complete"}
    BY <1>1, <2>1 DEF apreq_parser_run
  <2>2. CASE q.st \notin {"error", "complete"}
    <3>1. end \in {"bad", "last", "cut", "none"}
      <4>1. CASE Len(good) < Len(blocks)
        <5>. DEFINE ends == {i \in DOMAIN blocks : blocks[i].kind \in {"bad", "last"}}
        <5>1. ends # {}
          BY <4>1 DEF Working
        <5>2. ends \subseteq Nat
          OBVIOUS
        <5>3. Min(ends) \in ends
          <6>. HIDE DEF ends
          <6>. QED  BY <5>1, <5>2, LeastIndex
        <5>4. PICK m \in 1..Len(blocks) : m = Min(ends) /\ blocks[m].kind \in {"bad", "last"}
          <6>1. \A i \in ends : i \in 1..Len(blocks) /\ blocks[i].kind \in {"bad", "last"}
            OBVIOUS
          <6>. HIDE DEF ends
          <6>. QED  BY <5>3, <6>1
        <5>5. good = SubSeq(blocks, 1, m - 1)
          BY <5>1, <5>4 DEF Working
        <5>6. Len(good) = m - 1
          BY <5>5
        <5>7. Len(good) + 1 = m
          BY <5>6
        <5>. HIDE DEF good
        <5>8. end = blocks[m].kind
          BY <4>1, <5>7
        <5>. QED  BY <5>4, <5>8
      <4>2. CASE ~(Len(good) < Len(blocks))
        BY <4>2
      <4>. QED  BY <4>1, <4>2
    <3>2. run = CASE end = "bad"  -> Answer("error", GENERAL)
              [] end = "last" -> Answer("complete", APR_SUCCESS)
              [] end = "cut"  -> Answer(CutEnd.st, CutEnd.rv)
              [] end = "none" ->
                   Answer(IF \E i \in DOMAIN good : good[i].kind = "open" THEN "open" ELSE q.st,
                          APR_INCOMPLETE)
      BY <2>2 DEF apreq_parser_run
    <3>3. q.st \in States /\ CutEnd.st \in States /\ CutEnd.rv = APR_INCOMPLETE
      BY <1>1 DEF Parsers, CutEnd
    <3>4. end = "last" => AtEnd
      <4>1. CASE Len(good) < Len(blocks)
        <5>1. Len(good) + 1 \in DOMAIN blocks
          <6>. HIDE DEF good
          <6>. QED  BY <1>2, <4>1
        <5>. QED  BY <4>1, <5>1
      <4>2. CASE ~(Len(good) < Len(blocks))
        BY <4>2
      <4>. QED  BY <4>1, <4>2
    <3>. HIDE DEF end, good, q, run, Answer, AtEnd
    <3>5. CASE end = "bad"
      <4>1. run = Answer("error", GENERAL)
        BY <3>2, <3>5
      <4>2. Fits("error", GENERAL)
        BY DEF GENERAL, APR_SUCCESS
      <4>. QED  BY <4>1, <4>2
    <3>6. CASE end = "last"
      <4>1. run = Answer("complete", APR_SUCCESS)
        BY <3>2, <3>6
      <4>2. Fits("complete", APR_SUCCESS)
        BY <3>4, <3>6
      <4>. QED  BY <4>1, <4>2
    <3>7. CASE end = "cut"
      <4>1. run = Answer("error", APR_INCOMPLETE)
        BY <3>2, <3>7 DEF CutEnd
      <4>2. Fits("error", APR_INCOMPLETE)
        BY DEF APR_INCOMPLETE, APR_SUCCESS
      <4>. QED  BY <4>1, <4>2
    <3>8. CASE end = "none"
      <4>. DEFINE st == IF \E i \in DOMAIN good : good[i].kind = "open" THEN "open" ELSE q.st
      <4>1. run = Answer(st, APR_INCOMPLETE)
        BY <3>2, <3>8
      <4>2. st \in States /\ st # "complete"
        BY <2>2, <3>3
      <4>. HIDE DEF st
      <4>3. Fits(st, APR_INCOMPLETE)
        BY <4>2 DEF APR_INCOMPLETE, APR_SUCCESS
      <4>. QED  BY <4>1, <4>2, <4>3
    <3>. QED  BY <3>1, <3>5, <3>6, <3>7, <3>8
  <2>. QED  BY <2>1, <2>2
<1>. HIDE DEF run, q, good
<1>4. CASE \/ p.st = "error" /\ run = [parser |-> p, t |-> t, rv |-> GENERAL, found |-> None]
           \/ p.st = "complete" /\ run = [parser |-> p, t |-> t, rv |-> APR_SUCCESS, found |-> None]
  <2>1. /\ run.parser = p /\ run.t = t /\ run.found = None
        /\ run.rv \in {GENERAL, APR_SUCCESS} /\ (run.rv = APR_SUCCESS <=> p.st = "complete")
    BY <1>4 DEF GENERAL, APR_SUCCESS
  <2>2. apreq_hook_find_param(<<>>, key) = None
    BY DEF apreq_hook_find_param, FirstAt
  <2>3. t = t \o <<>> /\ <<>> \in Seq(Param) /\ 1..Len(<<>>) = {}
    OBVIOUS
  <2>4. RunAdds(p, t, key, run, <<>>)
    BY <2>1, <2>2, <2>3 DEF RunAdds
  <2>5. RunKeeps(p, run)
    BY <2>1 DEF RunKeeps, APR_INCOMPLETE, GENERAL, APR_SUCCESS
  <2>6. RunEnds(p, blocks, eos, run)
    BY <2>1 DEF RunEnds
  <2>. QED  BY <2>1, <2>3, <2>4, <2>5, <2>6 DEF run
<1>5. ASSUME NEW st \in States, NEW rv \in {GENERAL, APR_SUCCESS, APR_INCOMPLETE},
             run = Answer(st, rv), Fits(st, rv)
      PROVE  /\ run.parser \in Parsers(limits, dirs)
             /\ run.rv \in {GENERAL, APR_SUCCESS, APR_INCOMPLETE}
             /\ RunKeeps(p, run) /\ RunEnds(p, blocks, eos, run)
             /\ \E x \in Seq(Param) : RunAdds(p, t, key, run, x)
  <2>1. /\ run.parser = [q EXCEPT !.st = st] /\ run.t = t \o es /\ run.rv = rv
        /\ run.found = apreq_hook_find_param(es, key)
    BY <1>5
  <2>2. /\ run.parser \in Parsers(limits, dirs) /\ run.parser.hook = q.hook /\ run.parser.mixhook = q.mixhook
        /\ run.parser.brigade_limit = q.brigade_limit /\ run.parser.temp_dir = q.temp_dir
        /\ run.parser.run = q.run
    BY <1>1, <2>1 DEF Parsers
  <2>3. es \in Seq({e \in Param : e.by = Range(IF e.mixed THEN q.mixhook ELSE q.hook)})
    BY <1>1, <1>2, EntriesType
  <2>. HIDE DEF es
  <2>4. es \in Seq(Param) /\ \A i \in 1..Len(es) : es[i].by = Range(IF es[i].mixed THEN q.mixhook ELSE q.hook)
    BY <2>3
  <2>5. RunAdds(p, t, key, run, es)
    BY <1>1, <2>1, <2>2, <2>4 DEF RunAdds
  <2>6. RunKeeps(p, run)
    BY <1>1, <2>2 DEF RunKeeps
  <2>7. RunEnds(p, blocks, eos, run)
    <3>1. run.parser.st = st
      BY <1>1, <2>1 DEF Parsers
    <3>. QED  BY <1>5, <2>1, <3>1 DEF RunEnds
  <2>. QED  BY <2>1, <2>2, <2>4, <2>5, <2>6, <2>7
<1>. QED  BY <1>3, <1>4, <1>5 DEF run

-----------------------------------------------------------------------------
(* The first of some places of a table.                                    *)

LEMMA FirstPlace ==
  ASSUME NEW t \in Seq(Param), NEW I \in SUBSET (1..Len(t))
  PROVE  /\ FirstAt(t, I) \in Param \cup {None}
         /\ FirstAt(t, I) = None <=> I = {}
         /\ I # {} => \E m \in I : FirstAt(t, I) = t[m] /\ \A j \in I : m <= j
         /\ \A m \in I : (\A j \in I : m <= j) => FirstAt(t, I) = t[m]
<1>1. CASE I = {}
  BY <1>1 DEF FirstAt
<1>2. CASE I # {}
  <2>1. I \subseteq Nat /\ I \subseteq Int
    OBVIOUS
  <2>2. Min(I) \in I /\ \A j \in I : Min(I) <= j
    BY <1>2, <2>1, LeastIndex
  <2>3. PICK n \in I : n = Min(I) /\ n \in 1..Len(t) /\ \A j \in I : n <= j
    BY <2>2
  <2>4. FirstAt(t, I) = t[n] /\ t[n] \in Param
    BY <1>2, <2>3 DEF FirstAt
  <2>5. ASSUME NEW m \in I, \A j \in I : m <= j PROVE m = n
    <3>1. m <= n /\ n <= m /\ m \in Int /\ n \in Int
      BY <2>1, <2>3, <2>5
    <3>. QED  BY <3>1
  <2>. QED  BY <1>2, <2>3, <2>4, <2>5, NullParam
<1>. QED  BY <1>1, <1>2

\* A table without the name, and with it.
LEMMA TableGet ==
  ASSUME NEW t \in Seq(Param), NEW name
  PROVE  /\ apr_table_get(t, name) \in Param \cup {None}
         /\ apr_table_get(t, name) = None <=> \A i \in 1..Len(t) : t[i].name # name
         /\ apreq_hook_find_param(t, name) \in Param \cup {None}
<1>. DEFINE I == {i \in DOMAIN t : t[i].name = name}
            J == {i \in DOMAIN t : find_param \in t[i].by /\ t[i].name = name}
<1>1. I \in SUBSET (1..Len(t)) /\ J \in SUBSET (1..Len(t))
  OBVIOUS
<1>2. I = {} <=> \A i \in 1..Len(t) : t[i].name # name
  OBVIOUS
<1>3. apr_table_get(t, name) = FirstAt(t, I) /\ apreq_hook_find_param(t, name) = FirstAt(t, J)
  BY DEF apr_table_get, apreq_hook_find_param
<1>. HIDE DEF I, J
<1>. QED  BY <1>1, <1>2, <1>3, FirstPlace

=============================================================================
