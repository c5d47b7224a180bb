---------------------------- MODULE HandlerCache ----------------------------
(***************************************************************************)
(* How a directive becomes R code, src/mod_R.c: GetHandlerFromRequest,     *)
(* PrepareFileExprs, PrepareHandlerExpr and the part of                    *)
(* AP_hook_request_handler that calls them.  A child keeps two caches for  *)
(* its whole life: MR_HandlerCache, from the text of a directive to a      *)
(* parsed call and the environment it runs in, and MR_ParsedFileCache,     *)
(* from a file name to its parsed expressions, the environment they were   *)
(* evaluated in and the modification time they were parsed at.             *)
(*                                                                         *)
(* MR_mutex serialises requests (RequestCycle), so one request is served   *)
(* at a time here.  What interleaves with it is the world outside: files   *)
(* are edited, and R's garbage collector frees every object that is not on *)
(* the precious list (R_PreserveObject).  Objects have an address, so that *)
(* two pointers can name the same one and a stale pointer can name another.*)
(***************************************************************************)
EXTENDS Integers, FiniteSets

CONSTANTS
  Keys,        \* texts of directives (handlerKey)
  Files,       \* R files the directives name
  Directives,  \* the directives of the configuration, each a record: see below
  Types,       \* handlers that requests ask for: "r-handler", "r-script"
  Scripts,     \* r->filename of the requests
  BadTexts,    \* functions and scripts whose call R cannot parse
  Contents,    \* kinds of contents the files take: see Kinds
  Monotone,    \* an edit always gives a file a later modification time
  MaxVersion,  \* bound on the number of edits of a file
  MaxObject,   \* bound on the number of R objects
  Null

\* good: defines what the directives need.  nofun: evaluates, but does not
\* define the function.  fails: parses, but its evaluation stops half way.
\* syntax: parse() fails.  missing: there is no such file.
Kinds == {"good", "nofun", "fails", "syntax", "missing"}

\* A directive as AP_cmd_RHandler, AP_cmd_RFileHandler, AP_cmd_REval and
\* AP_cmd_RFileEval leave it; package is folded into the function's name.
Texts == (UNION {{d.function, d.evalcode} : d \in Directives}) \ {Null}

ASSUME HandlerCacheAssumption ==
  /\ \A d \in Directives :
       /\ DOMAIN d = {"key", "file", "function", "evalcode", "package"}
       /\ d.key \in Keys /\ d.file \in Files \cup {Null} /\ d.package \in BOOLEAN
       /\ d.file # Null \/ d.function # Null \/ d.evalcode # Null
  /\ Types \subseteq {"r-handler", "r-script"}
  /\ Contents \subseteq Kinds
  /\ Monotone \in BOOLEAN
  /\ MaxVersion \in Nat \ {0} /\ MaxObject \in Nat \ {0}
  /\ Null \notin 0..MaxObject /\ Null \notin Files

VARIABLES
  disk,       \* each file's contents: version, kind and modification time
  parsed,     \* MR_ParsedFileCache
  handlers,   \* MR_HandlerCache
  heap,       \* the R objects
  precious,   \* how often each object is on R's precious list
  pc, cur,    \* the request being served and how far it got
  finfo,      \* apr_stat of its file: modification time, version
  fileParsed  \* the local variable of the hook

vars == <<disk, parsed, handlers, heap, precious, pc, cur, finfo, fileParsed>>
caches == <<parsed, handlers>>
memory == <<heap, precious>>

Addresses == 1..MaxObject
Versions == 1..MaxVersion
Pointers == Addresses \cup {Null}

\* The expression a request needs: f(), code, or f(file='script',envir=.rAenv).
Call(f) == [form |-> "call", text |-> f, script |-> Null]
Code(c) == [form |-> "code", text |-> c, script |-> Null]
ScriptCall(f, s) == [form |-> "script", text |-> f, script |-> s]

Expressions == {Call(f) : f \in Texts} \cup {Code(c) : c \in Texts}
               \cup {ScriptCall(f, s) : f \in Texts, s \in Scripts}

Gone == [what |-> "gone"]
FileExprs == [what : {"exprs"}, version : Versions, kind : Kinds]
HandlerExpr == [what : {"expr"}, expr : Expressions]
\* version 0: no file was evaluated in it; kind "fails": half of one.
Environment == [what : {"env"}, version : 0..MaxVersion, kind : Kinds]

NewEnv == [what |-> "env", version |-> 0, kind |-> "good"]

\* The entries of the two caches, and entries as apr_pcalloc leaves them.
FileEntries == [exprs : Pointers, envir : Pointers, mtime : 0..MaxVersion]
HandlerEntries == [expr : Pointers, envir : Pointers, parsedFile : Files \cup {Null}]
NoFile == [exprs |-> Null, envir |-> Null, mtime |-> 0]
NoHandler == [expr |-> Null, envir |-> Null, parsedFile |-> Null]
NoStat == [mtime |-> 0, version |-> 0]

\* NULL is no entry of a cache.
ASSUME NullAssumption == Null \notin FileEntries \cup HandlerEntries

Requests == [d : Directives, type : Types, script : Scripts]
NoRequest == Null

Init ==
  /\ disk \in [Files -> [version : {1}, kind : Contents, mtime : {1}]]
  /\ parsed = [f \in Files |-> Null]
  /\ handlers = [k \in Keys |-> Null]
  /\ heap = [a \in Addresses |-> Gone]
  /\ precious = [a \in Addresses |-> 0]
  /\ pc = "idle" /\ cur = NoRequest /\ finfo = NoStat /\ fileParsed = FALSE

-----------------------------------------------------------------------------
(* R's memory.                                                             *)

\* Everything mod_R points at.
Referenced ==
  (UNION {{parsed[f].exprs, parsed[f].envir} : f \in {g \in Files : parsed[g] # Null}})
  \cup (UNION {{handlers[k].expr, handlers[k].envir} :
                 k \in {j \in Keys : handlers[j] # Null}})

\* Addresses R may hand out: the lowest that is unused, or any that was freed.
Allocatable ==
  LET unused == {a \in Addresses : a \notin Referenced /\ precious[a] = 0}
  IN {a \in Addresses : heap[a] = Gone /\ precious[a] = 0 /\ a \in Referenced}
     \cup {a \in unused : \A b \in unused : a <= b}

\* An object is allocated; what nothing can reach any more is as good as gone.
Alloc(a, obj) ==
  heap' = [b \in Addresses |-> IF b = a THEN obj
                               ELSE IF b \in Referenced \/ precious[b] > 0 THEN heap[b]
                               ELSE Gone]

Released(count, p) ==
  IF p = Null \/ count[p] = 0 THEN count ELSE [count EXCEPT ![p] = @ - 1]

Preserved(count, p) == [count EXCEPT ![p] = @ + 1]

\* The collector runs whenever R allocates.
CollectGarbage ==
  /\ pc # "idle"
  /\ \E a \in Addresses :
       /\ a \in Referenced /\ precious[a] = 0 /\ heap[a] # Gone
       /\ heap' = [heap EXCEPT ![a] = Gone]
  /\ UNCHANGED <<disk, caches, precious, pc, cur, finfo, fileParsed>>

-----------------------------------------------------------------------------
(* The files.                                                              *)

Edit(f) ==
  /\ disk[f].version < MaxVersion
  /\ \E kind \in Contents, m \in Versions :
       /\ Monotone => m > disk[f].mtime
       /\ disk' = [disk EXCEPT ![f] =
                     [version |-> disk[f].version + 1, kind |-> kind, mtime |-> m]]
  /\ UNCHANGED <<caches, memory, pc, cur, finfo, fileParsed>>

-----------------------------------------------------------------------------
(* The request.                                                            *)

\* MR_HandlerCache is keyed by the text of the directive alone.
CacheKey(d) == d.key

handler == handlers[CacheKey(cur.d)]
SetHandler(h) == handlers' = [handlers EXCEPT ![CacheKey(cur.d)] = h]
SetParsed(f, p) == parsed' = [parsed EXCEPT ![f] = p]

\* The hook returns, with a response or through RApacheResponseError.
EndRequest == pc' = "idle" /\ cur' = NoRequest /\ finfo' = NoStat /\ fileParsed' = FALSE

GetHandlerFromRequest(rq) ==
  /\ pc = "idle"
  /\ cur' = rq
  /\ LET k == CacheKey(rq.d) IN
     handlers' = IF handlers[k] = Null
                 THEN [handlers EXCEPT ![k] = NoHandler] ELSE handlers
  /\ pc' = IF rq.d.file # Null THEN "stat" ELSE "newenv"
  /\ UNCHANGED <<disk, parsed, memory, finfo, fileParsed>>

\* A directive without a file runs in a new environment on every request.
NewHandlerEnv ==
  /\ pc = "newenv"
  /\ \E a \in Allocatable :
       /\ Alloc(a, NewEnv)
       /\ precious' = Preserved(Released(precious, handler.envir), a)
       /\ SetHandler([handler EXCEPT !.envir = a])
  /\ pc' = "expr"
  /\ UNCHANGED <<disk, parsed, cur, finfo, fileParsed>>

-----------------------------------------------------------------------------
(* PrepareFileExprs, and the evaluation of the file.                       *)

StatFails ==
  /\ pc = "stat" /\ disk[cur.d.file].kind = "missing"
  /\ EndRequest
  /\ UNCHANGED <<disk, caches, memory>>

Stale(cached, now) == cached < now

\* Up to the comparison of the modification times.  The file is this directive's;
\* the entry is the handler's, if it has one, and so may be that of another file
\* when two directives with the same text name different files.
StatFile ==
  LET f == IF handler.parsedFile # Null THEN handler.parsedFile ELSE cur.d.file
      entry == IF parsed[f] = Null THEN NoFile ELSE parsed[f]
      now == disk[cur.d.file]
  IN
  /\ pc = "stat" /\ now.kind # "missing"
  /\ finfo' = [mtime |-> now.mtime, version |-> now.version]
  /\ SetParsed(f, entry)
  /\ SetHandler([handler EXCEPT !.parsedFile = f])
  /\ fileParsed' = Stale(entry.mtime, now.mtime)
  /\ pc' = IF fileParsed' THEN "parse" ELSE "file"
  /\ UNCHANGED <<disk, memory, cur>>

\* parse('file') reads what is on disk by now; the old expressions were
\* released, and the modification time is not recorded.
ParseFails ==
  LET f == handler.parsedFile IN
  /\ pc = "parse" /\ disk[cur.d.file].kind \in {"syntax", "missing"}
  /\ precious' = Released(precious, parsed[f].exprs)
  /\ SetParsed(f, [parsed[f] EXCEPT !.exprs = Null])
  /\ EndRequest
  /\ UNCHANGED <<disk, handlers, heap>>

\* Mutant: the file is parsed first and its modification time taken later.
ParseResult_LateStat(f) ==
  [version |-> finfo.version, kind |-> disk[f].kind, mtime |-> disk[f].mtime]

\* What is parsed, and the modification time it is recorded under.
ParseResult(f) ==
  [version |-> disk[f].version, kind |-> disk[f].kind, mtime |-> finfo.mtime]

\* Mutants: the new expressions are not preserved, the old ones not released.
KeepExprs_NotPreserved(old, new) == Released(precious, old)
KeepExprs_NotReleased(old, new) == Preserved(precious, new)

KeepExprs(old, new) == Preserved(Released(precious, old), new)

ParseFile ==
  LET f == handler.parsedFile
      res == ParseResult(cur.d.file)
  IN
  /\ pc = "parse" /\ disk[cur.d.file].kind \notin {"syntax", "missing"}
  /\ \E a \in Allocatable :
       /\ Alloc(a, [what |-> "exprs", version |-> res.version, kind |-> res.kind])
       /\ precious' = KeepExprs(parsed[f].exprs, a)
       /\ SetParsed(f, [parsed[f] EXCEPT !.exprs = a, !.mtime = res.mtime])
  /\ pc' = "file"
  /\ UNCHANGED <<disk, handlers, cur, finfo, fileParsed>>

HasExpr(d) == d.function # Null \/ d.evalcode # Null

\* The file was evaluated before and is not evaluated again.
ReuseFile ==
  /\ pc = "file" /\ ~fileParsed /\ HasExpr(cur.d)
  /\ SetHandler([handler EXCEPT !.envir = parsed[handler.parsedFile].envir])
  /\ pc' = "expr"
  /\ UNCHANGED <<disk, parsed, memory, cur, finfo, fileParsed>>

NewFileEnv ==
  LET f == handler.parsedFile IN
  /\ pc = "file" /\ (fileParsed \/ ~HasExpr(cur.d))
  /\ \E a \in Allocatable :
       /\ Alloc(a, NewEnv)
       /\ precious' = Preserved(Released(precious, parsed[f].envir), a)
       /\ SetParsed(f, [parsed[f] EXCEPT !.envir = a])
  /\ pc' = "evalfile"
  /\ UNCHANGED <<disk, handlers, cur, finfo, fileParsed>>

\* EvalExprs of the file's expressions in its new environment.
EvalFile ==
  LET p == parsed[handler.parsedFile] IN
  /\ pc = "evalfile" /\ p.exprs # Null /\ heap[p.exprs].what = "exprs"
  /\ LET e == heap[p.exprs] IN
     /\ heap' = [heap EXCEPT ![p.envir] = [what |-> "env", version |-> e.version,
                   kind |-> e.kind]]
     /\ \/ /\ e.kind # "fails" /\ HasExpr(cur.d)
           /\ SetHandler([handler EXCEPT !.envir = p.envir])
           /\ pc' = "expr" /\ UNCHANGED <<cur, finfo, fileParsed>>
        \/ /\ e.kind # "fails" /\ ~HasExpr(cur.d)
           /\ SetHandler([handler EXCEPT !.envir = p.envir])
           /\ EndRequest
        \/ /\ e.kind = "fails"
           /\ EndRequest /\ UNCHANGED handlers
  /\ UNCHANGED <<disk, parsed, precious>>

-----------------------------------------------------------------------------
(* PrepareHandlerExpr.                                                     *)

\* MyfindFun is asked when the directive names a file and a function without a
\* package.  In an environment whose file failed half way either may happen.
FindsFun(d, kinds) ==
  d.file # Null /\ d.function # Null /\ ~d.package =>
    /\ handler.envir # Null
    /\ heap[handler.envir].what = "env" /\ heap[handler.envir].kind \in kinds

MayFindFun(d) == FindsFun(d, {"good", "fails"})
MustFindFun(d) == FindsFun(d, {"good"})

\* The text parsed when h->expr is NULL.
PlainExpr(d) == IF d.function # Null THEN Call(d.function) ELSE Code(d.evalcode)

\* Mutant: the call is left to the garbage collector.
KeepCall_NotPreserved(count, a) == count

\* A call that parsed is preserved.
KeepCall(count, a) == Preserved(count, a)

\* h->expr is parsed from a text and preserved, or the request fails.
ParsePlain(count) ==
  LET e == PlainExpr(cur.d) IN
  \/ /\ MayFindFun(cur.d) /\ e.text \notin BadTexts
     /\ \E a \in Allocatable :
          /\ Alloc(a, [what |-> "expr", expr |-> e])
          /\ precious' = KeepCall(count, a)
          /\ SetHandler([handler EXCEPT !.expr = a])
     /\ pc' = "evalexpr" /\ UNCHANGED <<cur, finfo, fileParsed>>
  \/ /\ ~MustFindFun(cur.d) \/ e.text \in BadTexts
     /\ SetHandler([handler EXCEPT !.expr = Null])
     /\ precious' = count
     /\ EndRequest /\ UNCHANGED heap

\* Mutant: a script's call is kept like any other.
Reusable_Scripts(type) == handler.expr # Null

\* The cached call is used again by an r-handler, whatever put it there.
Reusable(type) == type = "r-handler" /\ handler.expr # Null

PrepareHandlerExpr ==
  /\ pc = "expr"
  /\ \/ /\ Reusable(cur.type)
        /\ pc' = "evalexpr"
        /\ UNCHANGED <<handlers, memory, cur, finfo, fileParsed>>
     \/ cur.type = "r-handler" /\ handler.expr = Null /\ ParsePlain(precious)
  /\ UNCHANGED <<disk, parsed>>

\* For a script the call is parsed anew, and not preserved; if that fails
\* h->expr is NULL and the plain call is parsed instead.
PrepareScriptExpr ==
  LET kept == Released(precious, handler.expr)
      e == ScriptCall(cur.d.function, cur.script)
  IN
  /\ pc = "expr" /\ cur.type = "r-script" /\ cur.d.function # Null
  /\ \/ /\ {e.text, e.script} \cap BadTexts = {}
        /\ \E a \in Allocatable :
             /\ Alloc(a, [what |-> "expr", expr |-> e])
             /\ SetHandler([handler EXCEPT !.expr = a])
        /\ precious' = kept
        /\ pc' = "evalexpr" /\ UNCHANGED <<cur, finfo, fileParsed>>
     \/ {e.text, e.script} \cap BadTexts # {} /\ ParsePlain(kept)
  /\ UNCHANGED <<disk, parsed>>

\* EvalExprs of h->expr in h->envir.
EvalExpr ==
  /\ pc = "evalexpr" /\ handler.expr # Null /\ heap[handler.expr] # Gone
  /\ EndRequest
  /\ UNCHANGED <<disk, caches, memory>>

\* NULL or a freed object is evaluated, or strlen(NULL) taken for a script of
\* an REval directive.
Crashes ==
  \/ pc = "expr" /\ cur.type = "r-script" /\ cur.d.function = Null
  \/ pc = "evalfile" /\ LET p == parsed[handler.parsedFile]
                        IN p.exprs = Null \/ heap[p.exprs].what # "exprs"
  \/ pc = "evalexpr" /\ (handler.expr = Null \/ heap[handler.expr] = Gone)

\* A child that crashed is replaced by one with empty caches.
Crash ==
  /\ Crashes
  /\ parsed' = [f \in Files |-> Null]
  /\ handlers' = [k \in Keys |-> Null]
  /\ heap' = [a \in Addresses |-> Gone]
  /\ precious' = [a \in Addresses |-> 0]
  /\ EndRequest
  /\ UNCHANGED disk

Serve ==
  \/ NewHandlerEnv
  \/ StatFails \/ StatFile \/ ParseFails \/ ParseFile
  \/ ReuseFile \/ NewFileEnv \/ EvalFile
  \/ PrepareHandlerExpr \/ PrepareScriptExpr \/ EvalExpr
  \/ Crash

Next ==
  \/ \E rq \in Requests : GetHandlerFromRequest(rq)
  \/ Serve
  \/ CollectGarbage
  \/ \E f \in Files : Edit(f)

Spec == Init /\ [][Next]_vars

-----------------------------------------------------------------------------
(* Properties                                                              *)

\* The type of every variable.
TypeOK ==
  /\ disk \in [Files -> [version : Versions, kind : Kinds, mtime : Versions]]
  /\ parsed \in [Files -> FileEntries \cup {Null}]
  /\ handlers \in [Keys -> HandlerEntries \cup {Null}]
  /\ heap \in [Addresses -> FileExprs \cup HandlerExpr \cup Environment \cup {Gone}]
  /\ precious \in [Addresses -> 0..MaxObject]
  /\ pc \in {"idle", "newenv", "stat", "parse", "file", "evalfile", "expr", "evalexpr"}
  /\ IF pc = "idle" THEN cur = NoRequest ELSE cur \in Requests
  /\ finfo \in [mtime : 0..MaxVersion, version : 0..MaxVersion]
  /\ fileParsed \in BOOLEAN

\* The expression the request asks for.
Wanted(rq) ==
  IF rq.type = "r-script" THEN ScriptCall(rq.d.function, rq.script)
  ELSE PlainExpr(rq.d)

\* Whatever was cached before, replaced or collected, the expression evaluated for
\* a request was parsed for a directive with the same text: h->expr never names an
\* object that was made for another key, or something else than a call.  When no
\* other directive has its text, that is the request's own expression.
ExpressionOfKey ==
  pc = "evalexpr" /\ handler.expr # Null /\ heap[handler.expr] # Gone =>
    \E d \in Directives :
      d.key = cur.d.key /\ heap[handler.expr] = [what |-> "expr", expr |-> PlainExpr(d)]

\* The expression evaluated for a request is the one its own directive and handler
\* ask for.  The code does not have this: RHandler x and REval x share an entry,
\* and so do an r-script and an r-handler under one directive.
OwnExpression ==
  pc = "evalexpr" /\ handler.expr # Null /\ heap[handler.expr] # Gone =>
    heap[handler.expr] = [what |-> "expr", expr |-> Wanted(cur)]

\* The expression evaluated for a script is a call of its own function, and names
\* this request's script or none: never the script of an earlier request.
OwnScript ==
  pc = "evalexpr" /\ cur.type = "r-script" /\ heap[handler.expr] # Gone =>
    LET e == heap[handler.expr].expr
    IN e.text = cur.d.function /\ e.script \in {cur.script, Null}

\* A handler of a file runs in an environment in which the file was evaluated, in
\* the version that was on disk when the request came or a later one: an edit is
\* seen by the next request, also one made between stat and parse, and after a
\* version that did not parse.  (Not: that all of it was evaluated.  A version that
\* fails half way is recorded as parsed, and the next request uses what it left.)
FreshEnvironment ==
  pc = "evalexpr" /\ cur.d.file # Null =>
    /\ handler.envir # Null
    /\ heap[handler.envir].what = "env"
    /\ heap[handler.envir].version >= finfo.version

\* The expressions of a file that are evaluated are of that version too.
FreshFile ==
  pc = "evalfile" =>
    LET p == parsed[handler.parsedFile]
    IN /\ p.exprs # Null
       /\ heap[p.exprs].what = "exprs"
       /\ heap[p.exprs].version >= finfo.version

\* Whatever a request evaluates is at least as new as the file was when the request
\* looked at it (PrepareFileExprs).
FreshCode == FreshEnvironment /\ FreshFile

\* What the hook is about to evaluate, and the environment it does so in, are on
\* the precious list: the garbage collector cannot have freed them.
NothingDangling ==
  /\ pc = "evalfile" => /\ precious[parsed[handler.parsedFile].exprs] > 0
                        /\ precious[parsed[handler.parsedFile].envir] > 0
  /\ pc = "evalexpr" => precious[handler.expr] > 0 /\ precious[handler.envir] > 0

\* No request makes mod_R evaluate NULL or an object that was freed.
NoCrash == ~Crashes

\* Objects are released when they are replaced: everything on the precious list
\* is there once and still in one of the caches.
NothingLeaks ==
  \A a \in Addresses : precious[a] <= (IF a \in Referenced THEN 1 ELSE 0)

-----------------------------------------------------------------------------
(* Why the properties hold.  They are promises to configurations in which  *)
(* directives with the same text name the same file (or none), and which   *)
(* serve no scripts; those that speak of the age of a file need a clock    *)
(* that never gives an edit an old time (Monotone).                        *)

OneFilePerKey == \A d, e \in Directives : d.key = e.key => d.file = e.file
OnlyHandlers == "r-script" \notin Types

\* The pointers that own their object.  A handler of a file borrows the file's
\* environment; only that of a directive without a file is its own.
OwnsEnvir(k) == \E d \in Directives : d.key = k /\ d.file = Null
Slots == ({"exprs", "envir"} \X Files) \cup ({"call"} \X Keys)
         \cup ({"own"} \X {k \in Keys : OwnsEnvir(k)})
FileEntry(f) == IF parsed[f] = Null THEN NoFile ELSE parsed[f]
HandlerEntry(k) == IF handlers[k] = Null THEN NoHandler ELSE handlers[k]
Pointer(s) ==
  CASE s[1] = "exprs" -> FileEntry(s[2]).exprs
    [] s[1] = "envir" -> FileEntry(s[2]).envir
    [] s[1] = "call" -> HandlerEntry(s[2]).expr
    [] s[1] = "own" -> HandlerEntry(s[2]).envir

\* No two of them own the same object, and what they own is on the precious list
\* once, and nothing else is.
OwnerInv ==
  /\ \A s, t \in Slots : Pointer(s) = Pointer(t) /\ Pointer(s) # Null => s = t
  /\ \A a \in Addresses : precious[a] = IF \E s \in Slots : Pointer(s) = a THEN 1 ELSE 0

\* A handler has the entry of its own file.
KeyInv == \A d \in Directives : HandlerEntry(d.key).parsedFile \in {Null, d.file}

MemoryInv == KeyInv /\ OwnerInv

\* What they own is what they are for.
HeapInv ==
  /\ \A f \in Files :
       /\ FileEntry(f).exprs # Null => heap[FileEntry(f).exprs] \in FileExprs
       /\ FileEntry(f).envir # Null => heap[FileEntry(f).envir] \in Environment
  /\ \A k \in Keys : HandlerEntry(k).expr # Null =>
       \E d \in Directives :
         d.key = k /\ heap[HandlerEntry(k).expr] = [what |-> "expr", expr |-> PlainExpr(d)]

\* The file a handler has parsed is in the other cache.
EntryInv ==
  \A k \in Keys : handlers[k] # Null /\ handlers[k].parsedFile # Null =>
    parsed[handlers[k].parsedFile] # Null

\* How far the request has come.
OfFile == pc \in {"parse", "file", "evalfile"} \/ (pc \in {"expr", "evalexpr"} /\ cur.d.file # Null)
PathInv ==
  /\ pc # "idle" => handler # Null
  /\ pc = "newenv" => cur.d.file = Null
  /\ pc \in {"stat", "parse", "file", "evalfile"} => cur.d.file # Null
  /\ OfFile => handler.parsedFile # Null
  /\ pc = "evalfile" => parsed[handler.parsedFile].envir # Null
  /\ pc \in {"expr", "evalexpr"} =>
       /\ HasExpr(cur.d)
       /\ IF cur.d.file = Null THEN handler.envir # Null
          ELSE handler.envir = parsed[handler.parsedFile].envir
  /\ pc = "evalexpr" => handler.expr # Null

\* An entry with the modification time of the file on disk was made from that
\* version.  While a file is being evaluated its environment is not ready.
At(f, steps) == pc \in steps /\ cur.d.file = f
Evaluating(f) == At(f, {"evalfile"}) \/ (At(f, {"file"}) /\ fileParsed)
ExprsFrom(f, v) == FileEntry(f).exprs # Null /\ heap[FileEntry(f).exprs].version >= v
EnvirFrom(f, v) == FileEntry(f).envir # Null /\ heap[FileEntry(f).envir].version >= v
EntryAge(f) ==
  /\ FileEntry(f).mtime <= disk[f].mtime
  /\ FileEntry(f).mtime = disk[f].mtime =>
       /\ ExprsFrom(f, disk[f].version)
       /\ Evaluating(f) \/ EnvirFrom(f, disk[f].version)

\* What the request saw of its file is no newer than the file, and what it uses is
\* no older.
RequestAge(f) ==
  /\ At(f, {"parse", "file", "evalfile", "expr", "evalexpr"}) =>
       /\ finfo.mtime <= disk[f].mtime
       /\ finfo.version <= disk[f].version
       /\ finfo.mtime = disk[f].mtime => finfo.version = disk[f].version
  /\ At(f, {"parse"}) => fileParsed /\ FileEntry(f).mtime < finfo.mtime
  /\ At(f, {"file", "evalfile"}) => ExprsFrom(f, finfo.version)
  /\ At(f, {"file"}) /\ ~fileParsed => EnvirFrom(f, finfo.version)
  /\ At(f, {"expr", "evalexpr"}) => EnvirFrom(f, finfo.version)

AgeInv == \A f \in Files : EntryAge(f) /\ RequestAge(f)
=============================================================================
