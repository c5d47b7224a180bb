------------------------------ MODULE Startup -------------------------------
(***************************************************************************)
(* mod_R from the first line of the configuration to a child that serves.  *)
(* Apache reads its configuration twice and loads the module anew for each *)
(* reading, so only what hangs on the process pool is left of the first;   *)
(* a restart reads it once more.  Directives collect the startup code of R *)
(* (MR_OnStartup); every child runs it in init_R and exits when a piece of *)
(* it fails.  libapreq2 keeps a table of parsers that modules fill between *)
(* apreq_pre_initialize and apreq_post_initialize; mod_apreq2, when it is  *)
(* loaded, does that in the parent, and mod_R in the child.                *)
(***************************************************************************)
EXTENDS Integers, SequencesExt, FiniteSets

CONSTANTS Configs,      \* configurations: sequences of lines
          Children,     \* child processes
          Null,         \* NULL
          Defaults,     \* the parsers libapreq2 registers itself
          Extra,        \* a parser of another module
          Bad,          \* R code that fails when it is evaluated
          MaxReadings   \* bound: readings of the configuration

\* The directives (MR_cmds) that take an argument, and the lines of a file.
Commands == {"RHandler", "RFileHandler", "REval", "RFileEval", "REvalOnStartup", "RSourceOnStartup"}
ASSUME ConfigLines ==
  \A f \in Configs : f \in Seq(Range(f)) /\ \A l \in Range(f) : l.cmd \in Commands

VARIABLES config,    \* the file: lines [cmd, server, section, file, pkg, code, there]
          line,      \* the next line of the current reading
          state,     \* the parent: "reading", "configured", "failed"
          readings,  \* readings of the configuration begun
          cfg_pass,  \* user data "R_language" of the process pool; 0: none
          MR_ConfigPass, MR_OnStartup, \* the module's own variables
          conf,      \* the RApacheDirective of each section
          servers,   \* servers that have a configuration of the module
          registry,  \* libapreq2 in the parent: [pool, lock, parsers]
          modapreq,  \* mod_apreq2 is loaded
          child      \* the children: [st, todo, done, registry, reads, gen, init]
parent == <<config, line, state, readings, cfg_pass, MR_ConfigPass, MR_OnStartup, conf, servers,
            modapreq>>
vars == <<parent, registry, child>>

NoRegistry == [pool |-> FALSE, lock |-> FALSE, parsers |-> {}]
NoChild == [st |-> "none", todo |-> <<>>, done |-> <<>>, registry |-> NoRegistry,
            reads |-> <<>>, gen |-> 0, init |-> 0]
NoDirective == [file |-> Null, function |-> Null, evalcode |-> Null, package |-> Null,
                handlerKey |-> Null]
SectionsOf(f) == {f[i].section : i \in DOMAIN f} \ {Null}

(***************************************************************************)
(* Directives.  Each adds startup code, changes the section's directive,   *)
(* or refuses the configuration.  "e" code is evaluated, "p" code parsed.  *)
(***************************************************************************)
Entry(how, what) == [how |-> how, what |-> what]
Library(l) == IF l.pkg = Null THEN <<>> ELSE <<Entry("e", l.pkg)>>
Key(l) == <<l.file, l.pkg, l.code>>

AP_cmd_RHandler(l, c) ==
  [add |-> Library(l), err |-> FALSE,
   c |-> [c EXCEPT !.handlerKey = Key(l), !.function = l.code,
                   !.package = IF l.pkg = Null THEN @ ELSE l.pkg]]

AP_cmd_RFileHandler(l, c) ==
  [add |-> <<>>, err |-> ~l.there,
   c |-> [c EXCEPT !.handlerKey = Key(l), !.file = l.file,
                   !.function = IF l.code = Null THEN @ ELSE l.code]]

AP_cmd_REval(l, c) ==
  [add |-> Library(l) \o <<Entry("p", l.code)>>, err |-> FALSE,
   c |-> [c EXCEPT !.handlerKey = Key(l), !.evalcode = l.code,
                   !.package = IF l.pkg = Null THEN @ ELSE l.pkg]]

AP_cmd_RFileEval(l, c) ==
  IF l.code = Null THEN [add |-> <<>>, err |-> TRUE, c |-> [c EXCEPT !.handlerKey = Key(l)]]
  ELSE [add |-> <<Entry("p", l.code)>> \o Library(l), err |-> ~l.there,
        c |-> [c EXCEPT !.handlerKey = Key(l), !.file = l.file, !.evalcode = l.code,
                        !.package = IF l.pkg = Null THEN @ ELSE l.pkg]]

AP_cmd_REvalOnStartup(l, c) == [add |-> <<Entry("e", l.code)>>, err |-> FALSE, c |-> c]

(* The first reading only looks whether the file is there; source() of a   *)
(* missing file fails in the child.                                        *)
AP_cmd_RSourceOnStartup(l, c, pass) ==
  IF pass = 1 THEN [add |-> <<>>, err |-> ~l.there, c |-> c]
  ELSE [add |-> <<Entry("e", IF l.there THEN l.code ELSE Bad)>>, err |-> FALSE, c |-> c]

Command(l, c, pass) ==
  CASE l.cmd = "RHandler"         -> AP_cmd_RHandler(l, c)
    [] l.cmd = "RFileHandler"     -> AP_cmd_RFileHandler(l, c)
    [] l.cmd = "REval"            -> AP_cmd_REval(l, c)
    [] l.cmd = "RFileEval"        -> AP_cmd_RFileEval(l, c)
    [] l.cmd = "REvalOnStartup"   -> AP_cmd_REvalOnStartup(l, c)
    [] l.cmd = "RSourceOnStartup" -> AP_cmd_RSourceOnStartup(l, c, pass)

(***************************************************************************)
(* Reading the configuration                                               *)
(***************************************************************************)
(* init_config_pass, from AP_create_srv_cfg: the first server the process  *)
(* ever configures counts as pass 1, every later one as pass 2.            *)
PassOfPool(pass) == 1
init_config_pass(pass) == IF pass = 0 THEN 1 ELSE 2

(* The module is loaded: its variables are new, and the main server gets   *)
(* its configuration.                                                      *)
Load(file) ==
  /\ config' = file
  /\ MR_OnStartup' = <<>>
  /\ conf' = [s \in SectionsOf(file) |-> NoDirective]
  /\ servers' = {"main"}
  /\ cfg_pass' = init_config_pass(cfg_pass)
  /\ MR_ConfigPass' = cfg_pass'
  /\ line' = 1
  /\ state' = "reading"
  /\ readings' = readings + 1

(* One line.  A server's first directive makes the server's configuration. *)
ReadLine ==
  /\ state = "reading" /\ line <= Len(config)
  /\ LET l    == config[line]
         new  == l.server \notin servers
         pass == IF new THEN init_config_pass(cfg_pass) ELSE MR_ConfigPass
         c    == IF l.section = Null THEN NoDirective ELSE conf[l.section]
         cmd  == Command(l, c, pass)
     IN /\ servers' = servers \cup {l.server}
        /\ MR_ConfigPass' = pass
        /\ cfg_pass' = IF new THEN pass ELSE cfg_pass
        /\ MR_OnStartup' = MR_OnStartup \o cmd.add
        /\ conf' = IF l.section = Null THEN conf ELSE [conf EXCEPT ![l.section] = cmd.c]
        /\ state' = IF cmd.err THEN "failed" ELSE state
  /\ line' = line + 1
  /\ UNCHANGED <<config, readings, registry, modapreq, child>>

(***************************************************************************)
(* libapreq2's table of parsers (parser.c)                                 *)
(***************************************************************************)
apreq_pre_initialize(g) ==
  IF g.pool THEN g ELSE [pool |-> TRUE, lock |-> FALSE, parsers |-> Defaults]
apreq_post_initialize(g) == IF g.pool THEN [g EXCEPT !.lock = TRUE] ELSE g
apreq_initialize(g) == apreq_post_initialize(apreq_pre_initialize(g))
RegistersLate(g, p) == IF g.pool THEN [g EXCEPT !.parsers = @ \cup {p}] ELSE g
apreq_register_parser(g, p) ==
  IF g.pool /\ ~g.lock THEN [g EXCEPT !.parsers = @ \cup {p}] ELSE g
apreq_parsers_cleanup == NoRegistry

(* The parser of a content type, for a request body.                       *)
apreq_parser(g, p) == IF g.lock /\ p \in g.parsers THEN p ELSE Null

(* post_config: mod_apreq2 first, other modules, mod_apreq2 last.          *)
PostConfig(registers) ==
  /\ state = "reading" /\ line > Len(config)
  /\ LET pre == IF modapreq THEN apreq_pre_initialize(registry) ELSE registry
         mid == IF registers THEN apreq_register_parser(pre, Extra) ELSE pre
     IN registry' = IF modapreq THEN apreq_post_initialize(mid) ELSE mid
  /\ state' = "configured"
  /\ UNCHANGED <<config, line, readings, cfg_pass, MR_ConfigPass, MR_OnStartup, conf, servers,
                 modapreq, child>>

(* The configuration is read again, the second time at startup or at a     *)
(* restart, where the administrator may have changed it.  Its pool goes,   *)
(* with what was registered in it.                                         *)
ReadAgain(file) ==
  /\ state = "configured" /\ readings < MaxReadings
  /\ readings = 1 => file = config
  /\ Load(file)
  /\ registry' = apreq_parsers_cleanup
  /\ UNCHANGED <<modapreq, child>>

(***************************************************************************)
(* Children                                                                *)
(***************************************************************************)
(* fork, then AP_hook_child_init: init_R up to the startup code.           *)
Fork(k) ==
  /\ state = "configured" /\ readings > 1 /\ child[k].st = "none"
  /\ child' = [child EXCEPT ![k] =
       [st |-> "init", todo |-> MR_OnStartup, done |-> <<>>, registry |-> registry,
        reads |-> config, gen |-> readings, init |-> 1]]
  /\ UNCHANGED <<parent, registry>>

(* OnStartupCallback: one piece of startup code; code that fails ends the  *)
(* child.                                                                  *)
OnStartupCallback(k) ==
  /\ child[k].st = "init" /\ child[k].todo # <<>>
  /\ LET e == Head(child[k].todo)
     IN child' = [child EXCEPT
          ![k].todo = Tail(@),
          ![k].done = Append(@, e),
          ![k].st = IF e.what = Bad THEN "none" ELSE @]
  /\ UNCHANGED <<parent, registry>>

(* The rest of init_R: the caches, libapreq2, R's output.                  *)
FinishInit(k) ==
  /\ child[k].st = "init" /\ child[k].todo = <<>>
  /\ child' = [child EXCEPT ![k].st = "serving", ![k].registry = apreq_initialize(@)]
  /\ UNCHANGED <<parent, registry>>

(* Code in a serving child registers a parser.                             *)
RegisterInChild(k) ==
  /\ child[k].st = "serving"
  /\ child' = [child EXCEPT ![k].registry = apreq_register_parser(@, Extra)]
  /\ UNCHANGED <<parent, registry>>

(* AP_child_exit in the child itself, and in a process that it has forked  *)
(* for a CGI program, where getpid() is not MR_pid.                        *)
AP_child_exit(k, own) ==
  /\ child[k].st = "serving"
  /\ child' = [child EXCEPT ![k].init = IF own THEN 0 ELSE @, ![k].st = IF own THEN "exit" ELSE @]
  /\ UNCHANGED <<parent, registry>>

Gone(k) ==
  /\ child[k].st = "exit"
  /\ child' = [child EXCEPT ![k] = NoChild]
  /\ UNCHANGED <<parent, registry>>

Init ==
  /\ config \in Configs
  /\ modapreq \in BOOLEAN
  /\ line = 1 /\ state = "reading" /\ readings = 1
  /\ cfg_pass = init_config_pass(0) /\ MR_ConfigPass = cfg_pass
  /\ MR_OnStartup = <<>>
  /\ conf = [s \in SectionsOf(config) |-> NoDirective]
  /\ servers = {"main"}
  /\ registry = NoRegistry
  /\ child = [k \in Children |-> NoChild]

Next ==
  \/ ReadLine
  \/ \E r \in BOOLEAN : PostConfig(r)
  \/ \E f \in Configs : ReadAgain(f)
  \/ \E k \in Children :
       \/ Fork(k)
       \/ OnStartupCallback(k)
       \/ FinishInit(k)
       \/ RegisterInChild(k)
       \/ \E own \in BOOLEAN : AP_child_exit(k, own)
       \/ Gone(k)

Spec == Init /\ [][Next]_vars

(***************************************************************************)
(* Properties                                                              *)
(***************************************************************************)
(* The startup code a configuration asks for, whatever pass reads it.      *)
Wanted(l) ==
  CASE l.cmd = "RFileHandler" -> <<>>
    [] l.cmd = "RHandler" -> Library(l)
    [] l.cmd = "REval" -> Library(l) \o <<Entry("p", l.code)>>
    [] l.cmd = "RFileEval" -> <<Entry("p", l.code)>> \o Library(l)
    [] OTHER -> <<Entry("e", l.code)>>
WantedAll(f) == FlattenSeq([i \in DOMAIN f |-> Wanted(f[i])])

(* A child that serves has run all the startup code of the configuration   *)
(* it was forked under, each piece once, in the order of the file, and     *)
(* none of it has failed: however often and in whatever pass the directives *)
(* were read (init_config_pass, AP_cmd_RSourceOnStartup, OnStartupCallback).*)
StartupInOrder ==
  \A k \in Children : child[k].st = "serving" =>
    /\ child[k].done = WantedAll(child[k].reads)
    /\ \A i \in DOMAIN child[k].done : child[k].done[i].what # Bad

(* A child that serves finds libapreq2's own parsers, and all children of  *)
(* one generation find the same ones, with mod_apreq2 and without, and     *)
(* whoever tries to register another parser when (apreq_initialize,        *)
(* apreq_register_parser).                                                 *)
ParsersAgree ==
  \A k, n \in Children : child[k].st = "serving" /\ child[n].st = "serving" =>
    /\ \A p \in Defaults : apreq_parser(child[k].registry, p) = p
    /\ child[k].gen = child[n].gen =>
         apreq_parser(child[k].registry, Extra) = apreq_parser(child[n].registry, Extra)

-----------------------------------------------------------------------------
(* Why they hold.                                                          *)

Registries == [pool : BOOLEAN, lock : BOOLEAN, parsers : SUBSET (Defaults \cup {Extra})]
Codes == {Bad} \cup (UNION {{l.code, l.pkg} : l \in UNION {Range(f) : f \in Configs}})
Items == [how : {"e", "p"}, what : Codes]
Child ==
  [st : {"none", "init", "serving", "exit"}, todo : Seq(Items), done : Seq(Items),
   registry : Registries, reads : Configs \cup {<<>>}, gen : Nat, init : {0, 1}]
ParentStates == {"reading", "configured", "failed"}

TypeOK ==
  /\ config \in Configs /\ line \in 1 .. (Len(config) + 1)
  /\ state \in ParentStates /\ readings \in Nat \ {0}
  /\ cfg_pass \in {1, 2} /\ MR_ConfigPass \in {1, 2}
  /\ registry \in Registries /\ modapreq \in BOOLEAN
  /\ child \in [Children -> Child]

(* A table of parsers has not been made, or is complete and locked.  The   *)
(* children of one generation have copies of one table.                    *)
Alive(k) == child[k].st # "none"
Settled(g) == g = NoRegistry \/ (g.pool /\ g.lock /\ Defaults \subseteq g.parsers)
RegistryInv ==
  /\ state # "configured" => registry = NoRegistry
  /\ Settled(registry)
  /\ \A k \in Children : Alive(k) =>
       /\ Settled(child[k].registry)
       /\ child[k].st # "init" => child[k].registry # NoRegistry
       /\ child[k].gen <= readings
       /\ child[k].gen = readings =>
            /\ state = "configured"
            /\ apreq_initialize(child[k].registry) = apreq_initialize(registry)
  /\ \A k, n \in Children : Alive(k) /\ Alive(n) /\ child[k].gen = child[n].gen =>
       apreq_initialize(child[k].registry) = apreq_initialize(child[n].registry)

(* What a line adds from the second reading on, and what n lines add.      *)
Added(l) == Command(l, NoDirective, 2).add
Collected(f, n) == FlattenSeq([i \in 1 .. n |-> Added(f[i])])

(* A line that was accepted adds what it should, or code that must fail.   *)
Fits(l) == Added(l) \in {Wanted(l), <<Entry("e", Bad)>>}

(* A child has the code of its configuration behind it or before it.       *)
OnCourse(c) ==
  /\ c.reads \in Configs
  /\ \A i \in 1 .. Len(c.reads) : Fits(c.reads[i])
  /\ c.done \o c.todo = Collected(c.reads, Len(c.reads))
  /\ \A i \in 1 .. Len(c.done) : c.done[i].what # Bad
  /\ c.st # "init" => c.todo = <<>>

(* From the second reading on every line counts.                           *)
StartupInv ==
  /\ readings > 1 => cfg_pass = 2 /\ MR_ConfigPass = 2
  /\ state = "configured" => line = Len(config) + 1
  /\ readings > 1 /\ state # "failed" =>
       /\ MR_OnStartup = Collected(config, line - 1)
       /\ \A i \in 1 .. (line - 1) : Fits(config[i])
  /\ \A k \in Children : Alive(k) => OnCourse(child[k])
=============================================================================
