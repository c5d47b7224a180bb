---------------------------- MODULE StartupProofs ---------------------------
(***************************************************************************)
(* The properties of Startup, for any configurations, any number of        *)
(* children and of restarts.                                               *)
(***************************************************************************)
EXTENDS Startup, ListLemmas

-----------------------------------------------------------------------------
(* Directives.                                                             *)

\* The lines of the configurations.
Lines == UNION {Range(f) : f \in Configs}
LEMMA LinesOf ==
  /\ \A f \in Configs : f \in Seq(Lines) /\ DOMAIN f = 1..Len(f) /\ Len(f) \in Nat
  /\ \A f \in Configs : \A i \in 1..Len(f) : f[i] \in Lines
  /\ \A l \in Lines : l.cmd \in Commands /\ l.code \in Codes /\ l.pkg \in Codes
<1>1. ASSUME NEW f \in Configs
      PROVE  f \in Seq(Lines) /\ DOMAIN f = 1..Len(f) /\ Len(f) \in Nat
  <2>1. f \in Seq(Range(f)) /\ Range(f) \subseteq Lines
    BY ConfigLines DEF Lines
  <2>2. f \in Seq(Lines)
    BY <2>1, SeqMonotonic
  <2>. QED  BY <2>2, LenProperties
<1>2. \A f \in Configs : \A i \in 1..Len(f) : f[i] \in Lines
  BY <1>1, ElementOfSeq
<1>3. ASSUME NEW l \in Lines PROVE l.cmd \in Commands /\ l.code \in Codes /\ l.pkg \in Codes
  <2>1. l.cmd \in Commands
    BY ConfigLines DEF Lines
  <2>2. l.code \in Codes /\ l.pkg \in Codes
    BY DEF Codes, Lines
  <2>. QED  BY <2>1, <2>2
<1>. QED  BY <1>1, <1>2, <1>3

\* What a line adds does not depend on its section, is startup code, and, when the
\* line is accepted, is what the line asks for or code that must fail.
LEMMA LineAdds ==
  ASSUME NEW l \in Lines, NEW c
  PROVE  /\ Command(l, c, 2).add = Added(l)
         /\ Added(l) \in Seq(Items)
         /\ ~Command(l, c, 2).err => Fits(l)
<1>. USE DEF Command, AP_cmd_RHandler, AP_cmd_RFileHandler, AP_cmd_REval, AP_cmd_RFileEval,
             AP_cmd_REvalOnStartup, AP_cmd_RSourceOnStartup, Added
<1>1. l.cmd \in Commands /\ l.code \in Codes /\ l.pkg \in Codes /\ Bad \in Codes
  BY LinesOf DEF Codes
<1>2. /\ \A how \in {"e", "p"}, what \in Codes : Entry(how, what) \in Items
      /\ Library(l) \in Seq(Items)
  <2>1. \A how \in {"e", "p"}, what \in Codes : Entry(how, what) \in Items
    BY DEF Entry, Items
  <2>2. Library(l) \in Seq(Items)
    BY <1>1, <2>1 DEF Library
  <2>. QED  BY <2>1, <2>2
<1>. HIDE DEF Library
<1>3. Command(l, c, 2).add = Added(l)
  BY <1>1 DEF Commands
<1>4. Added(l) \in Seq(Items)
  BY <1>1, <1>2 DEF Commands
<1>5. ~Command(l, c, 2).err => Fits(l)
  BY <1>1 DEF Commands, Fits, Wanted
<1>. QED  BY <1>3, <1>4, <1>5

\* The startup code of the first lines.
LEMMA CollectedType ==
  ASSUME NEW f \in Configs, NEW n \in 0..Len(f)
  PROVE  /\ [i \in 1..n |-> Added(f[i])] \in Seq(Seq(Items))
         /\ Collected(f, n) \in Seq(Items)
<1>. DEFINE s == [i \in 1..n |-> Added(f[i])]
<1>0. n \in Nat /\ \A i \in 1..n : f[i] \in Lines
  BY LinesOf
<1>1. \A i \in 1..n : Added(f[i]) \in Seq(Items)
  BY <1>0, LineAdds
<1>2. s \in Seq(Seq(Items))
  BY <1>0, <1>1
<1>3. FlattenSeq(s) \in Seq(Items)
  <2>. HIDE DEF s
  <2>. QED  BY <1>2, FlattenType
<1>. QED  BY <1>2, <1>3 DEF Collected

\* A line more.
LEMMA CollectedStep ==
  ASSUME NEW f \in Configs, NEW n \in 1..Len(f)
  PROVE  Collected(f, n) = Collected(f, n - 1) \o Added(f[n])
<1>. DEFINE s == [i \in 1..(n - 1) |-> Added(f[i])]
            t == [i \in 1..n |-> Added(f[i])]
<1>1. n - 1 \in 0..Len(f) /\ f[n] \in Lines /\ n \in Nat
  BY LinesOf
<1>2. s \in Seq(Seq(Items)) /\ Added(f[n]) \in Seq(Items)
  BY <1>1, CollectedType, LineAdds
<1>3. t = Append(s, Added(f[n]))
  <2>1. Len(s) = n - 1
    BY <1>1
  <2>. QED  BY <1>1, <1>2, <2>1
<1>4. FlattenSeq(Append(s, Added(f[n]))) = FlattenSeq(s) \o Added(f[n])
  <2>. HIDE DEF s
  <2>. QED  BY <1>2, FlattenAppend
<1>. QED  BY <1>3, <1>4 DEF Collected

-----------------------------------------------------------------------------
(* The steps of a child.                                                   *)

\* libapreq2's table keeps its type.
LEMMA RegistryTypes ==
  ASSUME NEW g \in Registries
  PROVE  /\ apreq_pre_initialize(g) \in Registries /\ apreq_post_initialize(g) \in Registries
         /\ apreq_initialize(g) \in Registries /\ apreq_register_parser(g, Extra) \in Registries
         /\ NoRegistry \in Registries
<1>1. \A h \in Registries : apreq_pre_initialize(h) \in Registries /\ apreq_post_initialize(h) \in Registries
  BY DEF Registries, apreq_pre_initialize, apreq_post_initialize
<1>2. apreq_register_parser(g, Extra) \in Registries /\ NoRegistry \in Registries
  BY DEF Registries, apreq_register_parser, NoRegistry
<1>. QED  BY <1>1, <1>2 DEF apreq_initialize

\* A step of one child: the others stay as they are.
Only(k) == child' \in [Children -> Child] /\ \A n \in Children : n # k => child'[n] = child[n]

LEMMA CallbackEffect ==
  ASSUME TypeOK, NEW k \in Children, OnStartupCallback(k)
  PROVE  \E e \in Items :
           /\ Only(k)
           /\ child[k].st = "init" /\ child[k].todo # <<>> /\ e = Head(child[k].todo)
           /\ child'[k] = [child[k] EXCEPT !.todo = Tail(@), !.done = Append(@, e),
                                           !.st = IF e.what = Bad THEN "none" ELSE @]
<1>1. child[k] \in Child /\ child[k].st = "init" /\ child[k].todo # <<>>
  BY DEF TypeOK, OnStartupCallback
<1>2. child[k].todo \in Seq(Items) /\ child[k].done \in Seq(Items)
  BY <1>1 DEF Child
<1>3. Head(child[k].todo) \in Items /\ Tail(child[k].todo) \in Seq(Items)
  BY <1>1, <1>2, HeadTailProperties
<1>4. PICK e \in Items : e = Head(child[k].todo)
  BY <1>3
<1>5. Append(child[k].done, e) \in Seq(Items)
  BY <1>2, AppendProperties
<1>. DEFINE c == [child[k] EXCEPT !.todo = Tail(@), !.done = Append(@, e),
                                  !.st = IF e.what = Bad THEN "none" ELSE @]
<1>6. child' = [child EXCEPT ![k] = c]
  BY <1>4 DEF TypeOK, OnStartupCallback
<1>7. c \in Child
  <2>1. (IF e.what = Bad THEN "none" ELSE child[k].st) \in {"none", "init", "serving", "exit"}
    BY <1>1
  <2>2. \A x, y \in Seq(Items), z \in {"none", "init", "serving", "exit"} :
          [child[k] EXCEPT !.todo = x, !.done = y, !.st = z] \in Child
    BY <1>1 DEF Child
  <2>. QED  BY <1>3, <1>5, <2>1, <2>2
<1>. HIDE DEF c
<1>8. Only(k) /\ child'[k] = c
  <2>1. child \in [Children -> Child]
    BY DEF TypeOK
  <2>. QED  BY <1>6, <1>7, <2>1 DEF Only
<1>. QED  BY <1>1, <1>4, <1>8 DEF c

LEMMA ForkEffect ==
  ASSUME TypeOK, StartupInv, NEW k \in Children, Fork(k)
  PROVE  /\ Only(k)
         /\ child'[k] = [st |-> "init", todo |-> MR_OnStartup, done |-> <<>>, registry |-> registry,
                         reads |-> config, gen |-> readings, init |-> 1]
<1>. DEFINE c == [st |-> "init", todo |-> MR_OnStartup, done |-> <<>>, registry |-> registry,
                  reads |-> config, gen |-> readings, init |-> 1]
<1>1. MR_OnStartup \in Seq(Items)
  <2>1. MR_OnStartup = Collected(config, Len(config)) /\ Len(config) \in 0..Len(config)
    BY LinesOf DEF Fork, StartupInv, TypeOK
  <2>. QED  BY <2>1, CollectedType DEF TypeOK
<1>2. c \in Child
  BY <1>1 DEF Child, TypeOK
<1>3. child' = [child EXCEPT ![k] = c]
  BY DEF Fork
<1>. HIDE DEF c
<1>4. Only(k) /\ child'[k] = c
  BY <1>2, <1>3 DEF TypeOK, Only
<1>. QED  BY <1>4 DEF c

LEMMA FinishEffect ==
  ASSUME TypeOK, NEW k \in Children, FinishInit(k)
  PROVE  /\ Only(k)
         /\ child[k].st = "init" /\ child[k].todo = <<>>
         /\ child'[k] = [child[k] EXCEPT !.st = "serving", !.registry = apreq_initialize(@)]
<1>. DEFINE c == [child[k] EXCEPT !.st = "serving", !.registry = apreq_initialize(@)]
<1>1. child[k] \in Child /\ child[k].st = "init" /\ child[k].todo = <<>>
  BY DEF TypeOK, FinishInit
<1>2. c \in Child
  BY <1>1, RegistryTypes DEF Child
<1>3. child' = [child EXCEPT ![k] = c]
  BY DEF FinishInit, TypeOK
<1>. HIDE DEF c
<1>4. Only(k) /\ child'[k] = c
  BY <1>2, <1>3 DEF TypeOK, Only
<1>. QED  BY <1>1, <1>4 DEF c

LEMMA RegisterEffect ==
  ASSUME TypeOK, NEW k \in Children, RegisterInChild(k)
  PROVE  /\ Only(k)
         /\ child[k].st = "serving"
         /\ child'[k] = [child[k] EXCEPT !.registry = apreq_register_parser(@, Extra)]
<1>. DEFINE c == [child[k] EXCEPT !.registry = apreq_register_parser(@, Extra)]
<1>1. child[k] \in Child /\ child[k].st = "serving"
  BY DEF TypeOK, RegisterInChild
<1>2. c \in Child
  BY <1>1, RegistryTypes DEF Child
<1>3. child' = [child EXCEPT ![k] = c]
  BY DEF RegisterInChild, TypeOK
<1>. HIDE DEF c
<1>4. Only(k) /\ child'[k] = c
  BY <1>2, <1>3 DEF TypeOK, Only
<1>. QED  BY <1>1, <1>4 DEF c

LEMMA ExitEffect ==
  ASSUME TypeOK, NEW k \in Children, NEW own \in BOOLEAN, AP_child_exit(k, own)
  PROVE  /\ Only(k)
         /\ child[k].st = "serving"
         /\ child'[k] \in {child[k], [child[k] EXCEPT !.init = 0, !.st = "exit"]}
<1>. DEFINE c == [child[k] EXCEPT !.init = 0, !.st = "exit"]
<1>1. child[k] \in Child /\ child[k].st = "serving"
  BY DEF TypeOK, AP_child_exit
<1>2. c \in Child
  BY <1>1 DEF Child
<1>3. CASE own
  <2>1. child' = [child EXCEPT ![k] = c]
    BY <1>3 DEF AP_child_exit, TypeOK
  <2>. HIDE DEF c
  <2>2. Only(k) /\ child'[k] = c
    BY <1>2, <2>1 DEF TypeOK, Only
  <2>. QED  BY <1>1, <2>2 DEF c
<1>4. CASE ~own
  <2>1. child' = child
    BY <1>1, <1>4 DEF AP_child_exit, TypeOK, Child
  <2>. QED  BY <1>1, <2>1 DEF TypeOK, Only
<1>. QED  BY <1>3, <1>4

LEMMA GoneEffect ==
  ASSUME TypeOK, NEW k \in Children, Gone(k)
  PROVE  Only(k) /\ child'[k] = NoChild
<1>1. NoChild \in Child
  <2>1. NoRegistry \in Registries
    BY RegistryTypes DEF TypeOK
  <2>. QED  BY <2>1 DEF NoChild, Child
<1>2. child' = [child EXCEPT ![k] = NoChild]
  BY DEF Gone
<1>. HIDE DEF NoChild
<1>. QED  BY <1>1, <1>2 DEF TypeOK, Only

-----------------------------------------------------------------------------
(* Every step keeps TypeOK and StartupInv.                                 *)

\* A step of a child is right when the child stays on course.
LEMMA ChildStep ==
  ASSUME TypeOK, StartupInv, NEW k \in Children, Only(k), UNCHANGED <<parent, registry>>,
         child'[k].st # "none" => OnCourse(child'[k])
  PROVE  TypeOK' /\ StartupInv'
<1>. USE DEF parent
<1>1. TypeOK'
  BY DEF TypeOK, Only
<1>2. ASSUME NEW n \in Children, Alive(n)' PROVE OnCourse(child'[n])
  <2>1. CASE n = k
    BY <1>2, <2>1 DEF Alive
  <2>2. CASE n # k
    <3>1. child'[n] = child[n]
      BY <2>2 DEF Only
    <3>2. OnCourse(child[n])
      BY <1>2, <3>1 DEF StartupInv, Alive
    <3>. QED  BY <3>1, <3>2
  <2>. QED  BY <2>1, <2>2
<1>3. StartupInv'
  BY <1>2 DEF StartupInv
<1>. QED  BY <1>1, <1>3

\* A line of the file is read.
LEMMA ReadLineStep ==
  ASSUME TypeOK, StartupInv, ReadLine
  PROVE  TypeOK' /\ StartupInv'
<1>. DEFINE l    == config[line]
            pass == IF l.server \notin servers THEN init_config_pass(cfg_pass) ELSE MR_ConfigPass
            c    == IF l.section = Null THEN NoDirective ELSE conf[l.section]
<1>1. /\ config \in Configs /\ Len(config) \in Nat /\ line \in 1..Len(config) /\ l \in Lines
      /\ config' = config /\ readings' = readings /\ line' = line + 1
      /\ registry' = registry /\ modapreq' = modapreq /\ child' = child
  BY LinesOf DEF TypeOK, ReadLine
<1>2. /\ pass \in {1, 2} /\ (readings > 1 => pass = 2)
      /\ MR_ConfigPass' = pass
      /\ cfg_pass' \in {pass, cfg_pass}
  BY DEF ReadLine, TypeOK, StartupInv, init_config_pass
<1>3. /\ state = "reading"
      /\ MR_OnStartup' = MR_OnStartup \o Command(l, c, pass).add
      /\ state' = IF Command(l, c, pass).err THEN "failed" ELSE state
  BY DEF ReadLine
<1>. HIDE DEF l, pass, c
<1>4. TypeOK'
  <2>1. line' \in 1..(Len(config') + 1) /\ state' \in ParentStates /\ cfg_pass' \in {1, 2}
    BY <1>1, <1>2, <1>3 DEF TypeOK, ParentStates
  <2>. QED  BY <1>1, <1>2, <2>1 DEF TypeOK
<1>5. ASSUME readings > 1, state' # "failed"
      PROVE  /\ MR_OnStartup' = Collected(config, line)
             /\ \A i \in 1..line : Fits(config[i])
  <2>1. MR_OnStartup = Collected(config, line - 1) /\ \A i \in 1..(line - 1) : Fits(config[i])
    BY <1>3, <1>5 DEF StartupInv
  <2>2. pass = 2 /\ ~Command(l, c, 2).err
    BY <1>2, <1>3, <1>5
  <2>3. Command(l, c, 2).add = Added(l) /\ Fits(l)
    BY <1>1, <2>2, LineAdds
  <2>4. MR_OnStartup' = Collected(config, line - 1) \o Added(config[line])
    BY <1>3, <2>1, <2>2, <2>3 DEF l
  <2>5. \A i \in 1..line : i \in 1..(line - 1) \/ i = line
    BY <1>1
  <2>. QED  BY <1>1, <2>1, <2>3, <2>4, <2>5, CollectedStep DEF l
<1>6. StartupInv'
  <2>1. line' - 1 = line
    BY <1>1
  <2>2. \A k \in Children : Alive(k)' => OnCourse(child'[k])
    BY <1>1 DEF StartupInv, Alive
  <2>3. readings' > 1 => cfg_pass' = 2 /\ MR_ConfigPass' = 2
    BY <1>1, <1>2 DEF StartupInv
  <2>4. state' # "configured"
    BY <1>3
  <2>. QED  BY <1>1, <1>5, <2>1, <2>2, <2>3, <2>4 DEF StartupInv
<1>. QED  BY <1>4, <1>6

LEMMA StartupStep ==
  ASSUME TypeOK, StartupInv, [Next]_vars
  PROVE  TypeOK' /\ StartupInv'
<1>1. CASE ReadLine
  BY <1>1, ReadLineStep
<1>2. ASSUME NEW r \in BOOLEAN, PostConfig(r) PROVE TypeOK' /\ StartupInv'
  <2>. USE <1>2 DEF PostConfig
  <2>1. registry' \in Registries
    BY RegistryTypes DEF TypeOK
  <2>2. TypeOK'
    BY <2>1 DEF TypeOK, ParentStates
  <2>3. \A k \in Children : Alive(k)' => OnCourse(child'[k])
    BY DEF StartupInv, Alive
  <2>4. line' = Len(config') + 1
    BY LinesOf DEF TypeOK
  <2>5. StartupInv'
    BY <2>3, <2>4 DEF StartupInv
  <2>. QED  BY <2>2, <2>5
<1>3. ASSUME NEW f \in Configs, ReadAgain(f) PROVE TypeOK' /\ StartupInv'
  <2>. USE <1>3 DEF ReadAgain, Load
  <2>1. /\ readings' \in Nat /\ readings' > 1 /\ state' = "reading" /\ line' = 1 /\ config' = f
        /\ cfg_pass' = 2 /\ MR_ConfigPass' = 2 /\ MR_OnStartup' = <<>>
        /\ registry' = NoRegistry /\ modapreq' = modapreq /\ child' = child
    BY DEF TypeOK, init_config_pass, apreq_parsers_cleanup
  <2>2. TypeOK'
    <3>1. NoRegistry \in Registries
      BY RegistryTypes DEF TypeOK
    <3>2. 1 \in 1..(Len(f) + 1)
      BY LinesOf
    <3>. QED  BY <2>1, <3>1, <3>2 DEF TypeOK, ParentStates
  <2>3. \A k \in Children : Alive(k)' => OnCourse(child'[k])
    BY <2>1 DEF StartupInv, Alive
  <2>4. Collected(f, 0) = <<>>
    <3>1. Len([i \in 1..0 |-> Added(f[i])]) = 0
      OBVIOUS
    <3>. QED  BY <3>1 DEF Collected, FlattenSeq
  <2>5. StartupInv'
    <3>1. line' - 1 = 0 /\ state' # "configured" /\ 1..(line' - 1) = {}
      BY <2>1
    <3>. HIDE <1>3 DEF ReadAgain, Load
    <3>. QED  BY <2>1, <2>3, <2>4, <3>1 DEF StartupInv
  <2>. QED  BY <2>2, <2>5
<1>4. ASSUME NEW k \in Children, Fork(k) PROVE TypeOK' /\ StartupInv'
  <2>1. /\ MR_OnStartup = Collected(config, Len(config)) /\ config \in Configs
        /\ \A i \in 1..Len(config) : Fits(config[i])
        /\ Len(config) \in Nat
    BY <1>4, LinesOf DEF Fork, StartupInv, TypeOK
  <2>2. MR_OnStartup \in Seq(Items)
    <3>1. Len(config) \in 0..Len(config)
      BY <2>1
    <3>. QED  BY <2>1, <3>1, CollectedType
  <2>3. <<>> \o MR_OnStartup = MR_OnStartup
    BY <2>2
  <2>4. OnCourse(child'[k])
    <3>1. /\ child'[k].todo = MR_OnStartup /\ child'[k].done = <<>> /\ child'[k].reads = config
          /\ child'[k].st = "init"
      BY <1>4, ForkEffect
    <3>2. 1..Len(<<>>) = {}
      OBVIOUS
    <3>. QED  BY <2>1, <2>3, <3>1, <3>2 DEF OnCourse
  <2>. QED  BY <1>4, <2>4, ForkEffect, ChildStep DEF Fork
<1>5. ASSUME NEW k \in Children, OnStartupCallback(k) PROVE TypeOK' /\ StartupInv'
  <2>1. PICK e \in Items :
           /\ Only(k)
           /\ child[k].st = "init" /\ child[k].todo # <<>> /\ e = Head(child[k].todo)
           /\ child'[k] = [child[k] EXCEPT !.todo = Tail(@), !.done = Append(@, e),
                                           !.st = IF e.what = Bad THEN "none" ELSE @]
    BY <1>5, CallbackEffect
  <2>2. /\ child[k].todo \in Seq(Items) /\ child[k].done \in Seq(Items)
        /\ OnCourse(child[k])
    BY <2>1 DEF TypeOK, Child, StartupInv, Alive
  <2>3. /\ child'[k].todo = Tail(child[k].todo) /\ child'[k].done = Append(child[k].done, e)
        /\ child'[k].reads = child[k].reads
        /\ child'[k].st = IF e.what = Bad THEN "none" ELSE "init"
    BY <2>1 DEF TypeOK, Child
  <2>4. Append(child[k].done, e) \o Tail(child[k].todo) = child[k].done \o child[k].todo
    <3>1. PICK s, t \in Seq(Items) : s = child[k].done /\ t = child[k].todo
      BY <2>2
    <3>2. Append(s, Head(t)) \o Tail(t) = s \o t
      <4>1. t # <<>>
        BY <2>1, <3>1
      <4>. QED  BY <4>1, HandOver, Zenon
    <3>. QED  BY <2>1, <3>1, <3>2
  <2>5. e.what # Bad => \A i \in 1..Len(Append(child[k].done, e)) : Append(child[k].done, e)[i].what # Bad
    BY <2>2 DEF OnCourse
  <2>6. child'[k].st # "none" => OnCourse(child'[k])
    BY <2>2, <2>3, <2>4, <2>5 DEF OnCourse
  <2>. QED  BY <1>5, <2>1, <2>6, ChildStep DEF OnStartupCallback
<1>6. ASSUME NEW k \in Children, FinishInit(k) PROVE TypeOK' /\ StartupInv'
  <2>1. /\ Only(k) /\ child[k] \in Child /\ child[k].st = "init" /\ child[k].todo = <<>>
        /\ child'[k] = [child[k] EXCEPT !.st = "serving", !.registry = apreq_initialize(@)]
    BY <1>6, FinishEffect DEF TypeOK
  <2>2. /\ OnCourse(child[k])
        /\ child'[k].todo = <<>> /\ child'[k].done = child[k].done /\ child'[k].reads = child[k].reads
    BY <2>1 DEF Child, StartupInv, Alive
  <2>3. OnCourse(child'[k])
    BY <2>1, <2>2 DEF OnCourse
  <2>. QED  BY <1>6, <2>1, <2>3, ChildStep DEF FinishInit
<1>7. ASSUME NEW k \in Children, RegisterInChild(k) PROVE TypeOK' /\ StartupInv'
  <2>1. /\ Only(k) /\ child[k] \in Child /\ child[k].st = "serving"
        /\ child'[k] = [child[k] EXCEPT !.registry = apreq_register_parser(@, Extra)]
    BY <1>7, RegisterEffect DEF TypeOK
  <2>2. /\ OnCourse(child[k])
        /\ child'[k].todo = child[k].todo /\ child'[k].done = child[k].done
        /\ child'[k].reads = child[k].reads /\ child'[k].st = "serving"
    BY <2>1 DEF Child, StartupInv, Alive
  <2>3. OnCourse(child'[k])
    BY <2>1, <2>2 DEF OnCourse
  <2>. QED  BY <1>7, <2>1, <2>3, ChildStep DEF RegisterInChild
<1>8. ASSUME NEW k \in Children, NEW own \in BOOLEAN, AP_child_exit(k, own)
      PROVE  TypeOK' /\ StartupInv'
  <2>1. /\ Only(k) /\ child[k] \in Child /\ child[k].st = "serving"
        /\ child'[k] \in {child[k], [child[k] EXCEPT !.init = 0, !.st = "exit"]}
    BY <1>8, ExitEffect DEF TypeOK
  <2>2. /\ OnCourse(child[k])
        /\ child'[k].todo = child[k].todo /\ child'[k].done = child[k].done
        /\ child'[k].reads = child[k].reads /\ child'[k].st # "init"
    BY <2>1 DEF Child, StartupInv, Alive
  <2>3. OnCourse(child'[k])
    BY <2>1, <2>2 DEF OnCourse
  <2>. QED  BY <1>8, <2>1, <2>3, ChildStep DEF AP_child_exit
<1>9. ASSUME NEW k \in Children, Gone(k) PROVE TypeOK' /\ StartupInv'
  <2>1. Only(k) /\ child'[k].st = "none"
    BY <1>9, GoneEffect DEF NoChild
  <2>. QED  BY <1>9, <2>1, ChildStep DEF Gone
<1>10. CASE UNCHANGED vars
  <2>1. TypeOK'
    BY <1>10 DEF TypeOK, vars, parent
  <2>2. \A k \in Children : Alive(k)' => OnCourse(child'[k])
    BY <1>10 DEF StartupInv, Alive, vars
  <2>3. StartupInv'
    BY <1>10, <2>2 DEF StartupInv, vars, parent
  <2>. QED  BY <2>1, <2>3
<1>. QED  BY <1>1, <1>2, <1>3, <1>4, <1>5, <1>6, <1>7, <1>8, <1>9, <1>10 DEF Next

-----------------------------------------------------------------------------
(* Every step keeps RegistryInv.                                           *)

\* To initialise a table twice, or to register a parser late, changes nothing.
LEMMA Tables ==
  ASSUME NEW g \in Registries
  PROVE  /\ Settled(g) => Settled(apreq_initialize(g))
         /\ apreq_initialize(g) # NoRegistry
         /\ apreq_initialize(apreq_initialize(g)) = apreq_initialize(g)
         /\ Settled(g) /\ g # NoRegistry => apreq_initialize(g) = g /\ apreq_register_parser(g, Extra) = g
<1>. USE DEF apreq_initialize, apreq_pre_initialize, apreq_post_initialize, apreq_register_parser,
             Settled, NoRegistry, Registries
<1>1. apreq_initialize(g).pool /\ apreq_initialize(g).lock
  OBVIOUS
<1>2. apreq_initialize(g) # NoRegistry
  BY <1>1
<1>3. Settled(g) => Settled(apreq_initialize(g))
  OBVIOUS
<1>4. apreq_initialize(apreq_initialize(g)) = apreq_initialize(g)
  OBVIOUS
<1>5. Settled(g) /\ g # NoRegistry => apreq_initialize(g) = g /\ apreq_register_parser(g, Extra) = g
  OBVIOUS
<1>. QED  BY <1>2, <1>3, <1>4, <1>5

\* The two hooks of mod_apreq2 leave a complete table, whatever comes between.
LEMMA PostConfigTable ==
  ASSUME TypeOK, registry = NoRegistry, NEW r \in BOOLEAN, PostConfig(r)
  PROVE  Settled(registry')
<1>. USE DEF apreq_pre_initialize, apreq_post_initialize, apreq_register_parser, Settled, NoRegistry
<1>1. CASE modapreq
  BY <1>1 DEF PostConfig
<1>2. CASE ~modapreq
  BY <1>2 DEF PostConfig
<1>. QED  BY <1>1, <1>2

\* A step of a child is right when its table stays what it was.
LEMMA ChildTable ==
  ASSUME TypeOK, RegistryInv, NEW k \in Children, Only(k), UNCHANGED <<parent, registry>>,
         child'[k].st # "none" =>
           /\ Alive(k)
           /\ child'[k].gen = child[k].gen
           /\ Settled(child'[k].registry)
           /\ apreq_initialize(child'[k].registry) = apreq_initialize(child[k].registry)
           /\ child'[k].st # "init" => child'[k].registry # NoRegistry
  PROVE  RegistryInv'
<1>. USE DEF parent
<1>1. ASSUME NEW n \in Children, child'[n].st # "none"
      PROVE  /\ Alive(n)
             /\ child'[n].gen = child[n].gen
             /\ Settled(child'[n].registry)
             /\ apreq_initialize(child'[n].registry) = apreq_initialize(child[n].registry)
             /\ child'[n].st # "init" => child'[n].registry # NoRegistry
  <2>1. CASE n = k
    BY <1>1, <2>1
  <2>2. CASE n # k
    <3>1. child'[n] = child[n]
      BY <2>2 DEF Only
    <3>. QED  BY <1>1, <3>1 DEF RegistryInv, Alive
  <2>. QED  BY <2>1, <2>2
<1>2. \A n \in Children : Alive(n)' <=> child'[n].st # "none"
  BY DEF Alive
<1>3. registry' = registry /\ state' = state /\ readings' = readings
  OBVIOUS
<1>. HIDE DEF parent
<1>4. (state' # "configured" => registry' = NoRegistry) /\ Settled(registry')
  BY <1>3 DEF RegistryInv
<1>5. ASSUME NEW n \in Children, child'[n].st # "none"
      PROVE  /\ child'[n].gen <= readings'
             /\ child'[n].gen = readings' =>
                  /\ state' = "configured"
                  /\ apreq_initialize(child'[n].registry) = apreq_initialize(registry')
  BY <1>1, <1>3, <1>5 DEF RegistryInv
<1>6. ASSUME NEW m \in Children, NEW n \in Children, child'[m].st # "none", child'[n].st # "none",
             child'[m].gen = child'[n].gen
      PROVE  apreq_initialize(child'[m].registry) = apreq_initialize(child'[n].registry)
  BY <1>1, <1>6 DEF RegistryInv
<1>. QED  BY <1>1, <1>2, <1>4, <1>5, <1>6 DEF RegistryInv

LEMMA RegistryStep ==
  ASSUME TypeOK, StartupInv, RegistryInv, [Next]_vars
  PROVE  RegistryInv'
<1>1. CASE ReadLine
  <2>1. child' = child /\ registry' = registry /\ readings' = readings
        /\ state = "reading" /\ state' \in {"reading", "failed"}
    BY <1>1 DEF ReadLine
  <2>. QED  BY <2>1 DEF RegistryInv, Alive
<1>2. ASSUME NEW r \in BOOLEAN, PostConfig(r) PROVE RegistryInv'
  <2>1. child' = child /\ readings' = readings /\ state = "reading" /\ state' = "configured"
        /\ registry = NoRegistry
    BY <1>2 DEF PostConfig, RegistryInv
  <2>2. Settled(registry')
    BY <1>2, <2>1, PostConfigTable
  <2>. QED  BY <2>1, <2>2 DEF RegistryInv, Alive
<1>3. ASSUME NEW f \in Configs, ReadAgain(f) PROVE RegistryInv'
  <2>1. child' = child /\ readings' = readings + 1 /\ state' = "reading" /\ registry' = NoRegistry
    BY <1>3 DEF ReadAgain, Load, apreq_parsers_cleanup
  <2>2. Settled(NoRegistry)
    BY DEF Settled
  <2>3. \A k \in Children : Alive(k) => child[k].gen < readings'
    <3>1. \A k \in Children : child[k].gen \in Nat
      BY DEF TypeOK, Child
    <3>. QED  BY <2>1, <3>1 DEF RegistryInv, TypeOK
  <2>4. \A k \in Children : Alive(k) => child[k].gen <= readings' /\ child[k].gen # readings'
    <3>1. \A k \in Children : child[k].gen \in Nat
      BY DEF TypeOK, Child
    <3>. QED  BY <2>1, <2>3, <3>1 DEF TypeOK
  <2>. QED  BY <2>1, <2>2, <2>4 DEF RegistryInv, Alive
<1>4. ASSUME NEW k \in Children, Fork(k) PROVE RegistryInv'
  <2>1. /\ Only(k) /\ child'[k].st = "init" /\ child'[k].registry = registry
        /\ child'[k].gen = readings
    BY <1>4, ForkEffect
  <2>2. registry' = registry /\ state' = state /\ readings' = readings /\ state = "configured"
        /\ readings \in Nat
    BY <1>4 DEF Fork, parent, TypeOK
  <2>3. \A n \in Children : Alive(n)' <=> child'[n].st # "none"
    BY DEF Alive
  <2>4. \A n \in Children : n # k => child'[n] = child[n]
    BY <2>1 DEF Only
  <2>5. \A n \in Children : child'[n].st # "none" =>
          /\ Settled(child'[n].registry)
          /\ child'[n].st # "init" => child'[n].registry # NoRegistry
          /\ child'[n].gen <= readings
          /\ child'[n].gen = readings =>
                 apreq_initialize(child'[n].registry) = apreq_initialize(registry)
    BY <2>1, <2>2, <2>4 DEF RegistryInv, Alive
  <2>6. \A m, n \in Children : child'[m].st # "none" /\ child'[n].st # "none"
                              /\ child'[m].gen = child'[n].gen =>
          apreq_initialize(child'[m].registry) = apreq_initialize(child'[n].registry)
    <3>1. ASSUME NEW m \in Children, NEW n \in Children, m # k, n # k,
                 child'[m].st # "none", child'[n].st # "none", child'[m].gen = child'[n].gen
          PROVE  apreq_initialize(child'[m].registry) = apreq_initialize(child'[n].registry)
      BY <2>4, <3>1 DEF RegistryInv, Alive
    <3>. QED  BY <2>1, <2>5, <3>1
  <2>. QED  BY <2>2, <2>3, <2>5, <2>6 DEF RegistryInv
<1>5. ASSUME NEW k \in Children, OnStartupCallback(k) PROVE RegistryInv'
  <2>1. PICK e \in Items :
           /\ Only(k)
           /\ child[k].st = "init" /\ child[k].todo # <<>> /\ e = Head(child[k].todo)
           /\ child'[k] = [child[k] EXCEPT !.todo = Tail(@), !.done = Append(@, e),
                                           !.st = IF e.what = Bad THEN "none" ELSE @]
    BY <1>5, CallbackEffect
  <2>2. /\ child'[k].gen = child[k].gen /\ child'[k].registry = child[k].registry
        /\ child'[k].st \in {"none", "init"} /\ Alive(k)
    BY <2>1 DEF TypeOK, Child, Alive
  <2>3. Settled(child[k].registry)
    BY <2>2 DEF RegistryInv
  <2>. QED  BY <1>5, <2>1, <2>2, <2>3, ChildTable DEF OnStartupCallback
<1>6. ASSUME NEW k \in Children, FinishInit(k) PROVE RegistryInv'
  <2>1. /\ Only(k) /\ child[k] \in Child /\ child[k].st = "init"
        /\ child'[k] = [child[k] EXCEPT !.st = "serving", !.registry = apreq_initialize(@)]
    BY <1>6, FinishEffect DEF TypeOK
  <2>2. /\ child'[k].gen = child[k].gen /\ child'[k].registry = apreq_initialize(child[k].registry)
        /\ child[k].registry \in Registries /\ Alive(k)
    BY <2>1 DEF Child, Alive
  <2>3. Settled(child[k].registry)
    BY <2>2 DEF RegistryInv
  <2>4. /\ Settled(child'[k].registry) /\ child'[k].registry # NoRegistry
        /\ apreq_initialize(child'[k].registry) = apreq_initialize(child[k].registry)
    BY <2>2, <2>3, Tables
  <2>. QED  BY <1>6, <2>1, <2>2, <2>4, ChildTable DEF FinishInit
<1>7. ASSUME NEW k \in Children, RegisterInChild(k) PROVE RegistryInv'
  <2>1. /\ Only(k) /\ child[k] \in Child /\ child[k].st = "serving"
        /\ child'[k] = [child[k] EXCEPT !.registry = apreq_register_parser(@, Extra)]
    BY <1>7, RegisterEffect DEF TypeOK
  <2>2. /\ child'[k].gen = child[k].gen
        /\ child'[k].registry = apreq_register_parser(child[k].registry, Extra)
        /\ child[k].registry \in Registries /\ Alive(k)
    BY <2>1 DEF Child, Alive
  <2>3. Settled(child[k].registry) /\ child[k].registry # NoRegistry
    BY <2>1, <2>2 DEF RegistryInv
  <2>4. child'[k].registry = child[k].registry
    BY <2>2, <2>3, Tables
  <2>. QED  BY <1>7, <2>1, <2>2, <2>3, <2>4, ChildTable DEF RegisterInChild
<1>8. ASSUME NEW k \in Children, NEW own \in BOOLEAN, AP_child_exit(k, own) PROVE RegistryInv'
  <2>1. /\ Only(k) /\ child[k] \in Child /\ child[k].st = "serving"
        /\ child'[k] \in {child[k], [child[k] EXCEPT !.init = 0, !.st = "exit"]}
    BY <1>8, ExitEffect DEF TypeOK
  <2>2. /\ child'[k].gen = child[k].gen /\ child'[k].registry = child[k].registry /\ Alive(k)
    BY <2>1 DEF Child, Alive
  <2>3. Settled(child[k].registry) /\ child[k].registry # NoRegistry
    BY <2>1, <2>2 DEF RegistryInv
  <2>. QED  BY <1>8, <2>1, <2>2, <2>3, ChildTable DEF AP_child_exit
<1>9. ASSUME NEW k \in Children, Gone(k) PROVE RegistryInv'
  <2>1. Only(k) /\ child'[k].st = "none"
    BY <1>9, GoneEffect DEF NoChild
  <2>. QED  BY <1>9, <2>1, ChildTable DEF Gone
<1>10. CASE UNCHANGED vars
  BY <1>10 DEF RegistryInv, Alive, vars, parent
<1>. QED  BY <1>1, <1>2, <1>3, <1>4, <1>5, <1>6, <1>7, <1>8, <1>9, <1>10 DEF Next

-----------------------------------------------------------------------------
(* The theorems.                                                           *)

LEMMA StartupInit ==
  ASSUME Init
  PROVE  TypeOK /\ StartupInv /\ RegistryInv
<1>1. NoRegistry \in Registries /\ NoChild \in Child /\ Settled(NoRegistry)
  BY DEF NoRegistry, NoChild, Registries, Child, Settled
<1>2. \A k \in Children : child[k] = NoChild /\ ~Alive(k)
  BY DEF Init, Alive, NoChild
<1>3. TypeOK
  <2>1. 1 \in 1..(Len(config) + 1)
    BY LinesOf DEF Init
  <2>. HIDE DEF NoChild
  <2>. QED  BY <1>1, <2>1 DEF Init, TypeOK, ParentStates, init_config_pass
<1>4. StartupInv
  BY <1>2 DEF Init, StartupInv
<1>5. RegistryInv
  BY <1>1, <1>2 DEF Init, RegistryInv
<1>. QED  BY <1>3, <1>4, <1>5

\* The parent and its children keep their types: the startup code a child is given
\* (MR_OnStartup) and has run is code of the configuration, the table of parsers
\* holds parsers (AP_cmd_*, init_R, OnStartupCallback, apreq_register_parser); and
\* what the reading of the configuration and the tables rely on.
THEOREM StartupCorrect == Spec => [](TypeOK /\ StartupInv /\ RegistryInv)
<1>1. Init => TypeOK /\ StartupInv /\ RegistryInv
  BY StartupInit
<1>2. TypeOK /\ StartupInv /\ RegistryInv /\ [Next]_vars => (TypeOK /\ StartupInv /\ RegistryInv)'
  BY StartupStep, RegistryStep
<1>. QED  BY <1>1, <1>2, PTL DEF Spec

\* Code that did not fail is the code that was asked for.
LEMMA RunsWanted ==
  ASSUME NEW f \in Configs, \A i \in 1..Len(f) : Fits(f[i]),
         \A i \in 1..Len(Collected(f, Len(f))) : Collected(f, Len(f))[i].what # Bad
  PROVE  Collected(f, Len(f)) = WantedAll(f)
<1>. DEFINE s == [i \in 1..Len(f) |-> Added(f[i])]
<1>1. Len(f) \in 0..Len(f) /\ Len(f) \in Nat /\ DOMAIN f = 1..Len(f)
  BY LinesOf
<1>2. s \in Seq(Seq(Items)) /\ Collected(f, Len(f)) = FlattenSeq(s)
  BY <1>1, CollectedType DEF Collected
<1>3. ASSUME NEW i \in 1..Len(f) PROVE Added(f[i]) = Wanted(f[i])
  <2>1. SUFFICES ASSUME Added(f[i]) = <<Entry("e", Bad)>> PROVE FALSE
    BY DEF Fits
  <2>2. s[i] = <<Entry("e", Bad)>> /\ Len(s) = Len(f)
    BY <1>1, <2>1
  <2>. HIDE DEF s
  <2>3. Entry("e", Bad) \in Range(s[i])
    BY <2>2 DEF Range
  <2>4. Entry("e", Bad) \in Range(FlattenSeq(s))
    BY <1>2, <2>2, <2>3, FlattenContains
  <2>5. FlattenSeq(s) \in Seq(Items)
    BY <1>2, FlattenType
  <2>6. PICK j \in 1..Len(FlattenSeq(s)) : FlattenSeq(s)[j] = Entry("e", Bad)
    BY <2>4, <2>5 DEF Range
  <2>. QED  BY <1>2, <2>6 DEF Entry
<1>4. s = [i \in DOMAIN f |-> Wanted(f[i])]
  BY <1>1, <1>3
<1>. QED  BY <1>2, <1>4 DEF WantedAll

\* A child that serves has run the startup code of its configuration, all of it and
\* in order, however many readings and restarts there were and whatever the lines
\* (init_config_pass, AP_cmd_RSourceOnStartup, OnStartupCallback).
THEOREM StartupInOrderCorrect == Spec => []StartupInOrder
<1>1. TypeOK /\ StartupInv => StartupInOrder
  <2>1. SUFFICES ASSUME TypeOK, StartupInv, NEW k \in Children, child[k].st = "serving"
                 PROVE  /\ child[k].done = WantedAll(child[k].reads)
                        /\ \A i \in DOMAIN child[k].done : child[k].done[i].what # Bad
    BY DEF StartupInOrder
  <2>2. OnCourse(child[k]) /\ child[k].done \in Seq(Items)
    BY <2>1 DEF StartupInv, Alive, TypeOK, Child
  <2>3. child[k].done \o <<>> = child[k].done /\ DOMAIN child[k].done = 1..Len(child[k].done)
    BY <2>2
  <2>4. child[k].done = Collected(child[k].reads, Len(child[k].reads))
    BY <2>1, <2>2, <2>3 DEF OnCourse
  <2>5. child[k].done = WantedAll(child[k].reads)
    BY <2>2, <2>4, RunsWanted DEF OnCourse
  <2>. QED  BY <2>2, <2>3, <2>5 DEF OnCourse
<1>. QED  BY <1>1, StartupCorrect, PTL

\* The children of one generation find the same parsers, and libapreq2's own among
\* them, for any number of children, restarts and attempts to register another one
\* (apreq_initialize, apreq_register_parser, apreq_parser).
THEOREM ParsersAgreeCorrect == Spec => []ParsersAgree
<1>1. TypeOK /\ RegistryInv => ParsersAgree
  <2>1. SUFFICES ASSUME TypeOK, RegistryInv, NEW k \in Children, NEW n \in Children,
                        child[k].st = "serving", child[n].st = "serving"
                 PROVE  /\ \A p \in Defaults : apreq_parser(child[k].registry, p) = p
                        /\ child[k].gen = child[n].gen =>
                             apreq_parser(child[k].registry, Extra) = apreq_parser(child[n].registry, Extra)
    BY DEF ParsersAgree
  <2>2. \A c \in {k, n} : /\ child[c].registry \in Registries /\ Settled(child[c].registry)
                          /\ child[c].registry # NoRegistry /\ Alive(c)
    BY <2>1 DEF TypeOK, Child, RegistryInv, Alive
  <2>3. \A c \in {k, n} : apreq_initialize(child[c].registry) = child[c].registry
    BY <2>2, Tables
  <2>4. child[k].gen = child[n].gen => child[k].registry = child[n].registry
    <3>1. child[k].gen = child[n].gen =>
            apreq_initialize(child[k].registry) = apreq_initialize(child[n].registry)
      BY <2>1 DEF RegistryInv, Alive
    <3>. QED  BY <2>3, <3>1
  <2>5. \A p \in Defaults : apreq_parser(child[k].registry, p) = p
    BY <2>2 DEF Settled, apreq_parser
  <2>. QED  BY <2>4, <2>5
<1>. QED  BY <1>1, StartupCorrect, PTL
=============================================================================
