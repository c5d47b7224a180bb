------------------------- MODULE HandlerCacheProofs -------------------------
(***************************************************************************)
(* The properties of HandlerCache, for any files, directives, numbers of   *)
(* edits and numbers of objects.                                           *)
(***************************************************************************)
EXTENDS HandlerCache, TLAPS

\* What the assumptions say of the parts of a directive and of empty entries.
LEMMA Parts ==
  /\ \A d \in Directives : d.key \in Keys /\ (d.file # Null => d.file \in Files)
  /\ \A d \in Directives : d.file = Null => HasExpr(d)
  /\ \A d \in Directives : HasExpr(d) => PlainExpr(d) \in Expressions
  /\ \A d \in Directives, s \in Scripts : d.function # Null => ScriptCall(d.function, s) \in Expressions
  /\ NoFile \in FileEntries /\ NoHandler \in HandlerEntries
  /\ NoStat \in [mtime : 0..MaxVersion, version : 0..MaxVersion]
  /\ NewEnv \in Environment
<1>. USE HandlerCacheAssumption
<1>1. \A d \in Directives : d.key \in Keys /\ (d.file # Null => d.file \in Files)
  OBVIOUS
<1>2. \A d \in Directives : d.file = Null => HasExpr(d)
  BY DEF HasExpr
<1>3. \A d \in Directives : /\ d.function # Null => d.function \in Texts
                            /\ d.evalcode # Null => d.evalcode \in Texts
  BY DEF Texts
<1>4. \A d \in Directives : HasExpr(d) => PlainExpr(d) \in Expressions
  BY <1>3 DEF HasExpr, PlainExpr, Expressions
<1>5. \A d \in Directives, s \in Scripts : d.function # Null => ScriptCall(d.function, s) \in Expressions
  BY <1>3 DEF Expressions
<1>6. NoFile \in FileEntries /\ NoHandler \in HandlerEntries
  BY DEF NoFile, NoHandler, FileEntries, HandlerEntries, Pointers
<1>7. NoStat \in [mtime : 0..MaxVersion, version : 0..MaxVersion] /\ NewEnv \in Environment
  BY DEF NoStat, NewEnv, Environment, Kinds
<1>. QED  BY <1>1, <1>2, <1>4, <1>5, <1>6, <1>7

\* An address that R hands out is not on the precious list.
LEMMA AllocatableIsFree ==
  ASSUME NEW a \in Allocatable
  PROVE  a \in Addresses /\ precious[a] = 0 /\ a \in Pointers /\ a # Null
  BY HandlerCacheAssumption DEF Allocatable, Addresses, Pointers

\* The precious list keeps its type.
Counts == [Addresses -> 0..MaxObject]
LEMMA CountTypes ==
  ASSUME NEW count \in Counts, NEW p \in Pointers
  PROVE  /\ Released(count, p) \in Counts
         /\ \A a \in Addresses : Released(count, p)[a] <= count[a]
         /\ \A a \in Addresses : count[a] = 0 => Released(count, p)[a] = 0
         /\ \A a \in Addresses : count[a] = 0 =>
              Preserved(count, a) \in Counts /\ Preserved(Released(count, p), a) \in Counts
<1>1. ASSUME NEW c \in Counts, NEW a \in Addresses, c[a] = 0 PROVE Preserved(c, a) \in Counts
  BY <1>1, HandlerCacheAssumption DEF Counts, Preserved, Addresses
<1>2. /\ Released(count, p) \in Counts
      /\ \A a \in Addresses : Released(count, p)[a] <= count[a]
      /\ \A a \in Addresses : count[a] = 0 => Released(count, p)[a] = 0
  BY HandlerCacheAssumption DEF Counts, Released, Pointers, Addresses
<1>. QED  BY <1>1, <1>2

\* So does the heap when an object is allocated.
Objects == FileExprs \cup HandlerExpr \cup Environment \cup {Gone}
LEMMA AllocType ==
  ASSUME heap \in [Addresses -> Objects], NEW obj \in Objects, NEW a \in Addresses, Alloc(a, obj)
  PROVE  /\ heap' \in [Addresses -> Objects]
         /\ heap'[a] = obj
         /\ \A b \in Addresses : precious[b] > 0 /\ b # a => heap'[b] = heap[b]
<1>1. Gone \in Objects
  BY DEF Objects
<1>. QED  BY <1>1 DEF Alloc

-----------------------------------------------------------------------------
(* Types, and the path of a request through the hook.                      *)

TypeInv == TypeOK /\ EntryInv /\ PathInv

\* No step takes an entry out of the cache of files while a handler has it.
LEMMA EntriesStay ==
  ASSUME TypeOK, EntryInv, \A f \in Files : parsed[f] # Null => parsed'[f] # Null,
         \/ UNCHANGED handlers
         \/ \E k \in Keys, h \in HandlerEntries :
              /\ handlers' = [handlers EXCEPT ![k] = h]
              /\ h.parsedFile # Null => parsed'[h.parsedFile] # Null
  PROVE  EntryInv'
<1>1. \A k \in Keys : handlers[k] # Null /\ handlers[k].parsedFile # Null =>
        parsed'[handlers[k].parsedFile] # Null
  BY DEF TypeOK, EntryInv, HandlerEntries
<1>2. CASE UNCHANGED handlers
  BY <1>1, <1>2 DEF EntryInv
<1>3. ASSUME NEW k \in Keys, NEW h \in HandlerEntries, handlers' = [handlers EXCEPT ![k] = h],
             h.parsedFile # Null => parsed'[h.parsedFile] # Null
      PROVE  EntryInv'
  BY <1>1, <1>3 DEF EntryInv, TypeOK
<1>. QED  BY <1>2, <1>3

\* The entries of the request being served.
LEMMA Serving ==
  ASSUME TypeInv, pc # "idle"
  PROVE  /\ cur \in Requests /\ cur.d \in Directives /\ cur.d.key \in Keys
         /\ handler \in HandlerEntries /\ handler = handlers[cur.d.key]
         /\ cur.d.file # Null => cur.d.file \in Files
         /\ handler.parsedFile # Null =>
              handler.parsedFile \in Files /\ parsed[handler.parsedFile] \in FileEntries
<1>1. cur \in Requests /\ cur.d \in Directives /\ cur.d.key \in Keys
  BY Parts DEF TypeInv, TypeOK, Requests
<1>2. handler \in HandlerEntries /\ handler = handlers[cur.d.key]
  BY <1>1 DEF TypeInv, TypeOK, PathInv, handler, CacheKey
<1>3. handler.parsedFile # Null =>
        handler.parsedFile \in Files /\ parsed[handler.parsedFile] \in FileEntries
  BY <1>1, <1>2, NullAssumption DEF TypeInv, TypeOK, EntryInv, HandlerEntries
<1>. QED  BY <1>1, <1>2, <1>3, Parts

\* PrepareHandlerExpr when h->expr is NULL, with what is on the precious list.
LEMMA ParsePlainType ==
  ASSUME TypeInv, pc = "expr", NEW count \in Counts,
         \A a \in Addresses : precious[a] = 0 => count[a] = 0,
         ParsePlain(count), UNCHANGED <<disk, parsed>>
  PROVE  TypeInv'
<1>. USE HandlerCacheAssumption, NullAssumption, Parts DEF TypeInv, CacheKey
<1>. DEFINE e == PlainExpr(cur.d)
            obj == [what |-> "expr", expr |-> e]
<1>1. /\ handler \in HandlerEntries /\ handler = handlers[cur.d.key] /\ cur.d.key \in Keys
      /\ handler.parsedFile # Null => parsed[handler.parsedFile] # Null
      /\ obj \in Objects
  BY Serving DEF TypeOK, PathInv, handler, Requests, Objects, HandlerExpr
<1>2. ASSUME NEW a \in Allocatable, Alloc(a, obj), precious' = Preserved(count, a),
             SetHandler([handler EXCEPT !.expr = a]), pc' = "evalexpr",
             UNCHANGED <<cur, finfo, fileParsed>>
      PROVE  TypeInv'
  <2>. HIDE DEF obj
  <2>1. a \in Addresses /\ precious[a] = 0 /\ a \in Pointers /\ a # Null
    BY AllocatableIsFree
  <2>2. heap' \in [Addresses -> Objects]
    BY <1>1, <1>2, <2>1, AllocType DEF TypeOK, Objects
  <2>3. precious' \in Counts
    BY <1>2, <2>1, CountTypes
  <2>4. /\ [handler EXCEPT !.expr = a] \in HandlerEntries
        /\ [handler EXCEPT !.expr = a].parsedFile = handler.parsedFile
    BY <1>1, <2>1 DEF HandlerEntries
  <2>7. EntryInv'
    <3>. DEFINE h == [handler EXCEPT !.expr = a]
    <3>1. handlers' = [handlers EXCEPT ![cur.d.key] = h]
      BY <1>2 DEF SetHandler
    <3>. HIDE DEF h
    <3>2. h \in HandlerEntries /\ (h.parsedFile # Null => parsed'[h.parsedFile] # Null)
      BY <1>1, <2>4 DEF h
    <3>. QED  BY <1>1, <3>1, <3>2, EntriesStay
  <2>5. TypeOK'
    BY <1>1, <1>2, <2>2, <2>3, <2>4 DEF TypeOK, Objects, Counts, SetHandler
  <2>6. PathInv'
    BY <1>1, <1>2, <2>1, <2>4 DEF TypeOK, PathInv, OfFile, handler, SetHandler, HandlerEntries
  <2>. QED  BY <2>5, <2>6, <2>7
<1>3. ASSUME SetHandler([handler EXCEPT !.expr = Null]), precious' = count, EndRequest, UNCHANGED heap
      PROVE  TypeInv'
  <2>1. /\ [handler EXCEPT !.expr = Null] \in HandlerEntries
        /\ [handler EXCEPT !.expr = Null].parsedFile = handler.parsedFile
    BY <1>1 DEF HandlerEntries, Pointers
  <2>2. EntryInv'
    <3>. DEFINE h == [handler EXCEPT !.expr = Null]
    <3>1. handlers' = [handlers EXCEPT ![cur.d.key] = h]
      BY <1>3 DEF SetHandler
    <3>. HIDE DEF h
    <3>2. h \in HandlerEntries /\ (h.parsedFile # Null => parsed'[h.parsedFile] # Null)
      BY <1>1, <2>1 DEF h
    <3>. QED  BY <1>1, <3>1, <3>2, EntriesStay
  <2>. QED  BY <1>1, <1>3, <2>1, <2>2 DEF TypeOK, PathInv, OfFile, SetHandler, EndRequest, Counts
<1>. QED  BY <1>2, <1>3 DEF ParsePlain, KeepCall

\* The environment in which a file was evaluated, and its address in an entry.
LEMMA MadeEnvironment ==
  ASSUME NEW e \in FileExprs
  PROVE  [what |-> "env", version |-> e.version, kind |-> e.kind] \in Objects
BY DEF FileExprs, Objects, Environment, Versions
LEMMA WithEnvironment ==
  ASSUME NEW h \in HandlerEntries, NEW a \in Pointers
  PROVE  [h EXCEPT !.envir = a] \in HandlerEntries /\ [h EXCEPT !.envir = a].expr = h.expr
BY DEF HandlerEntries

\* The address of an object is a value a pointer can have.
LEMMA AddressesArePointers == Addresses \subseteq Pointers
BY DEF Pointers

\* Every step keeps them.
LEMMA TypeStep == TypeInv /\ [Next]_vars => TypeInv'
<1>. SUFFICES ASSUME TypeInv, [Next]_vars PROVE TypeInv'
  OBVIOUS
<1>. USE HandlerCacheAssumption, NullAssumption, Parts DEF TypeInv
<1>1. ASSUME NEW rq \in Requests, GetHandlerFromRequest(rq) PROVE TypeInv'
  <2>. USE <1>1 DEF GetHandlerFromRequest, CacheKey, caches, memory
  <2>1. TypeOK'
    BY DEF TypeOK, Requests, NoRequest
  <2>2. PathInv'
    BY DEF TypeOK, PathInv, OfFile, handler, Requests
  <2>3. EntryInv'
    BY DEF TypeOK, EntryInv, NoHandler
  <2>. QED  BY <2>1, <2>2, <2>3
<1>2. CASE NewHandlerEnv
  <2>. USE <1>2 DEF NewHandlerEnv, CacheKey, SetHandler
  <2>1. /\ handler \in HandlerEntries /\ cur.d.key \in Keys
        /\ handler.parsedFile # Null => parsed[handler.parsedFile] # Null
    BY Serving
  <2>2. PICK a \in Allocatable :
          /\ Alloc(a, NewEnv)
          /\ precious' = Preserved(Released(precious, handler.envir), a)
          /\ handlers' = [handlers EXCEPT ![cur.d.key] = [handler EXCEPT !.envir = a]]
    OBVIOUS
  <2>3. a \in Addresses /\ precious[a] = 0 /\ a \in Pointers /\ a # Null
    BY AllocatableIsFree
  <2>4. heap' \in [Addresses -> Objects]
    BY <2>2, <2>3, AllocType DEF TypeOK, Objects
  <2>5. precious' \in Counts
    BY <2>1, <2>2, <2>3, CountTypes DEF TypeOK, Counts, HandlerEntries
  <2>6. [handler EXCEPT !.envir = a] \in HandlerEntries /\ [handler EXCEPT !.envir = a].parsedFile = handler.parsedFile
    BY <2>1, <2>3 DEF HandlerEntries
  <2>7. TypeOK'
    BY <2>1, <2>2, <2>4, <2>5, <2>6 DEF TypeOK, Objects, Counts
  <2>8. PathInv'
    BY <2>1, <2>2, <2>3, <2>6 DEF TypeOK, PathInv, OfFile, handler, Requests, CacheKey, HandlerEntries
  <2>9. EntryInv'
    <3>. DEFINE h == [handler EXCEPT !.envir = a]
    <3>1. handlers' = [handlers EXCEPT ![cur.d.key] = h]
      BY <2>2
    <3>. HIDE DEF h
    <3>2. h \in HandlerEntries /\ (h.parsedFile # Null => parsed'[h.parsedFile] # Null)
      BY <2>1, <2>6 DEF h
    <3>. QED  BY <2>1, <3>1, <3>2, EntriesStay
  <2>. QED  BY <2>7, <2>8, <2>9
<1>3. CASE StatFails
  BY <1>3 DEF StatFails, EndRequest, caches, memory, TypeOK, EntryInv, PathInv, OfFile
<1>4. CASE StatFile
  <2>. DEFINE f == IF handler.parsedFile # Null THEN handler.parsedFile ELSE cur.d.file
              entry == IF parsed[f] = Null THEN NoFile ELSE parsed[f]
              h == [handler EXCEPT !.parsedFile = f]
  <2>1. handler \in HandlerEntries /\ cur.d.key \in Keys /\ f \in Files /\ cur.d.file \in Files /\ pc = "stat"
    BY <1>4, Serving DEF StatFile, PathInv
  <2>2. entry \in FileEntries /\ h \in HandlerEntries /\ h.parsedFile = f
    <3>. HIDE DEF f
    <3>. QED  BY <2>1 DEF TypeOK, HandlerEntries
  <2>3. parsed' = [parsed EXCEPT ![f] = entry] /\ handlers' = [handlers EXCEPT ![cur.d.key] = h]
    BY <1>4 DEF StatFile, CacheKey, SetHandler, SetParsed
  <2>4. /\ finfo' \in [mtime : 0..MaxVersion, version : 0..MaxVersion]
        /\ fileParsed' \in BOOLEAN /\ pc' \in {"parse", "file"}
    BY <1>4, <2>1 DEF StatFile, TypeOK, Versions, Stale
  <2>5. disk' = disk /\ heap' = heap /\ precious' = precious /\ cur' = cur
    BY <1>4 DEF StatFile, memory
  <2>. HIDE DEF f, entry, h
  <2>6. TypeOK'
    BY <2>1, <2>2, <2>3, <2>4, <2>5 DEF TypeOK
  <2>7. EntryInv'
    <3>1. parsed'[f] # Null /\ \A g \in Files : parsed[g] # Null => parsed'[g] # Null
      BY <2>1, <2>2, <2>3 DEF TypeOK
    <3>. QED  BY <2>1, <2>2, <2>3, <3>1, EntriesStay
  <2>8. PathInv'
    <3>1. handler' = h /\ h # Null /\ f # Null /\ cur.d.file # Null
      BY <2>1, <2>2, <2>3, <2>5 DEF TypeOK, handler, CacheKey
    <3>. QED  BY <2>2, <2>4, <2>5, <3>1 DEF PathInv, OfFile
  <2>. QED  BY <2>6, <2>7, <2>8
<1>5. CASE ParseFails
  <2>. USE <1>5 DEF ParseFails, SetParsed, EndRequest
  <2>. DEFINE f == handler.parsedFile
  <2>1. f \in Files /\ parsed[f] \in FileEntries
    BY Serving DEF PathInv, OfFile
  <2>2. [parsed[f] EXCEPT !.exprs = Null] \in FileEntries
    BY <2>1 DEF FileEntries, Pointers
  <2>3. precious' \in Counts
    BY <2>1, CountTypes DEF TypeOK, Counts, FileEntries
  <2>4. TypeOK'
    BY <2>1, <2>2, <2>3 DEF TypeOK, Counts
  <2>5. PathInv'
    BY DEF PathInv, OfFile
  <2>6. EntryInv'
    <3>1. \A g \in Files : parsed[g] # Null => parsed'[g] # Null
      BY <2>1, <2>2 DEF TypeOK
    <3>. QED  BY <3>1, EntriesStay
  <2>. QED  BY <2>4, <2>5, <2>6
<1>6. CASE ParseFile
  <2>. USE <1>6 DEF ParseFile, SetParsed
  <2>. DEFINE f == handler.parsedFile
              now == disk[cur.d.file]
              obj == [what |-> "exprs", version |-> now.version, kind |-> now.kind]
  <2>1. f \in Files /\ parsed[f] \in FileEntries /\ now.version \in Versions /\ now.kind \in Kinds
    BY Serving DEF TypeOK, PathInv, OfFile
  <2>2. PICK a \in Allocatable :
          /\ Alloc(a, obj)
          /\ precious' = Preserved(Released(precious, parsed[f].exprs), a)
          /\ parsed' = [parsed EXCEPT ![f] = [parsed[f] EXCEPT !.exprs = a, !.mtime = finfo.mtime]]
    BY DEF KeepExprs, ParseResult
  <2>3. a \in Addresses /\ precious[a] = 0 /\ a \in Pointers /\ a # Null
    BY AllocatableIsFree
  <2>4. obj \in Objects
    BY <2>1 DEF Objects, FileExprs
  <2>5. heap' \in [Addresses -> Objects]
    BY <2>2, <2>3, <2>4, AllocType DEF TypeOK, Objects
  <2>6. precious' \in Counts
    BY <2>1, <2>2, <2>3, CountTypes DEF TypeOK, Counts, FileEntries
  <2>7. [parsed[f] EXCEPT !.exprs = a, !.mtime = finfo.mtime] \in FileEntries
    BY <2>1, <2>3 DEF TypeOK, FileEntries
  <2>8. TypeOK'
    BY <2>1, <2>2, <2>5, <2>6, <2>7 DEF TypeOK, Objects, Counts
  <2>9. PathInv'
    BY <2>1, <2>2, <2>7 DEF TypeOK, PathInv, OfFile, handler
  <2>10. EntryInv'
    <3>1. \A g \in Files : parsed[g] # Null => parsed'[g] # Null
      BY <2>1, <2>2, <2>7 DEF TypeOK
    <3>. QED  BY <3>1, EntriesStay
  <2>. QED  BY <2>8, <2>9, <2>10
<1>7. CASE ReuseFile
  <2>. USE <1>7 DEF ReuseFile, SetHandler, CacheKey, memory
  <2>. DEFINE h == [handler EXCEPT !.envir = parsed[handler.parsedFile].envir]
  <2>1. /\ cur.d.key \in Keys /\ handler \in HandlerEntries
        /\ handler.parsedFile # Null /\ parsed[handler.parsedFile] \in FileEntries
    BY Serving DEF PathInv, OfFile
  <2>2. /\ h \in HandlerEntries /\ h.parsedFile = handler.parsedFile
        /\ h.envir = parsed[handler.parsedFile].envir
    BY <2>1 DEF HandlerEntries, FileEntries
  <2>3. handlers' = [handlers EXCEPT ![cur.d.key] = h]
    OBVIOUS
  <2>. HIDE DEF h
  <2>4. TypeOK'
    BY <2>1, <2>2, <2>3 DEF TypeOK
  <2>5. EntryInv'
    BY <2>1, <2>2, <2>3, EntriesStay
  <2>6. PathInv'
    <3>1. handler' = h /\ h # Null
      BY <2>1, <2>2, <2>3 DEF TypeOK, handler
    <3>. QED  BY <2>1, <2>2, <3>1 DEF PathInv, OfFile
  <2>. QED  BY <2>4, <2>5, <2>6
<1>8. CASE NewFileEnv
  <2>. USE <1>8 DEF NewFileEnv, SetParsed
  <2>. DEFINE f == handler.parsedFile
  <2>1. f \in Files /\ parsed[f] \in FileEntries
    BY Serving DEF PathInv, OfFile
  <2>2. PICK a \in Allocatable :
          /\ Alloc(a, NewEnv)
          /\ precious' = Preserved(Released(precious, parsed[f].envir), a)
          /\ parsed' = [parsed EXCEPT ![f] = [parsed[f] EXCEPT !.envir = a]]
    OBVIOUS
  <2>3. a \in Addresses /\ precious[a] = 0 /\ a \in Pointers /\ a # Null
    BY AllocatableIsFree
  <2>4. heap' \in [Addresses -> Objects]
    BY <2>2, <2>3, AllocType DEF TypeOK, Objects
  <2>5. precious' \in Counts
    BY <2>1, <2>2, <2>3, CountTypes DEF TypeOK, Counts, FileEntries
  <2>6. [parsed[f] EXCEPT !.envir = a] \in FileEntries
    BY <2>1, <2>3 DEF FileEntries
  <2>7. TypeOK'
    BY <2>1, <2>2, <2>4, <2>5, <2>6 DEF TypeOK, Objects, Counts
  <2>8. PathInv'
    BY <2>1, <2>2, <2>3, <2>6 DEF TypeOK, PathInv, OfFile, handler, FileEntries
  <2>9. EntryInv'
    <3>1. \A g \in Files : parsed[g] # Null => parsed'[g] # Null
      BY <2>1, <2>2, <2>6 DEF TypeOK
    <3>. QED  BY <3>1, EntriesStay
  <2>. QED  BY <2>7, <2>8, <2>9
<1>9. CASE EvalFile
  <2>. USE <1>9 DEF EvalFile, SetHandler, EndRequest, CacheKey
  <2>. DEFINE p == parsed[handler.parsedFile]
              env == [what |-> "env", version |-> heap[p.exprs].version, kind |-> heap[p.exprs].kind]
  <2>1. /\ cur.d.key \in Keys /\ handler \in HandlerEntries /\ handler.parsedFile # Null
        /\ p \in FileEntries /\ p.envir \in Addresses
    BY Serving DEF PathInv, OfFile, FileEntries, Pointers
  <2>2. env \in Objects
    <3>1. heap[p.exprs] \in FileExprs
      BY <2>1 DEF TypeOK, FileEntries, Pointers, HandlerExpr, Environment, Gone
    <3>. QED  BY <3>1, MadeEnvironment, Zenon
  <2>3. heap' = [heap EXCEPT ![p.envir] = env]
    BY Zenon
  <2>4. heap' \in [Addresses -> Objects]
    <3>1. heap \in [Addresses -> Objects]
      BY Zenon DEF TypeOK, Objects
    <3>. HIDE DEF env
    <3>. QED  BY <2>1, <2>2, <2>3, <3>1
  <2>5. [handler EXCEPT !.envir = p.envir] \in HandlerEntries
    <3>1. \A g \in HandlerEntries, a \in Pointers : [g EXCEPT !.envir = a] \in HandlerEntries
      BY WithEnvironment, ZenonT(40)
    <3>. HIDE DEF p
    <3>. QED  BY <2>1, <3>1, AddressesArePointers, Zenon
  <2>6. TypeOK'
    <3>1. handlers' \in [Keys -> HandlerEntries \cup {Null}]
      BY <2>1, <2>5 DEF TypeOK
    <3>2. IF pc' = "idle" THEN cur' = NoRequest ELSE cur' \in Requests
      BY DEF TypeOK
    <3>3. /\ pc' \in {"idle", "expr"} /\ fileParsed' \in BOOLEAN
          /\ finfo' \in [mtime : 0..MaxVersion, version : 0..MaxVersion]
      BY DEF TypeOK
    <3>. QED  BY <2>4, <3>1, <3>2, <3>3 DEF TypeOK, Objects
  <2>7. [handler EXCEPT !.envir = p.envir].parsedFile = handler.parsedFile
    BY <2>1 DEF HandlerEntries
  <2>8. PathInv'
    <3>. DEFINE h == [handler EXCEPT !.envir = p.envir]
    <3>1. CASE pc' = "idle"
      BY <3>1 DEF PathInv, OfFile
    <3>2. CASE pc' = "expr" /\ HasExpr(cur.d) /\ cur' = cur /\ handlers' = [handlers EXCEPT ![cur.d.key] = h]
      <4>0. h # Null
        BY <2>5, Zenon
      <4>1. h # Null /\ h.envir = p.envir /\ h.parsedFile = handler.parsedFile
        <5>1. \A g \in HandlerEntries : \A x : [g EXCEPT !.envir = x].envir = x
          BY DEF HandlerEntries
        <5>2. h.envir = p.envir
          <6>1. \A x : [handler EXCEPT !.envir = x].envir = x
            BY <2>1, <5>1, Zenon
          <6>. QED  BY <6>1, Zenon
        <5>. QED  BY <2>7, <4>0, <5>2, Zenon
      <4>. HIDE DEF h
      <4>2. handler' = h
        BY <2>1, <3>2 DEF TypeOK, handler
      <4>3. cur.d.file # Null /\ parsed' = parsed
        BY DEF PathInv
      <4>. QED  BY <2>1, <3>2, <4>1, <4>2, <4>3 DEF PathInv, OfFile
    <3>. QED  BY <3>1, <3>2
  <2>9. EntryInv'
    <3>. DEFINE h == [handler EXCEPT !.envir = p.envir]
    <3>1. handlers' = [handlers EXCEPT ![cur.d.key] = h] \/ handlers' = handlers
      OBVIOUS
    <3>2. h \in HandlerEntries /\ (h.parsedFile # Null => parsed'[h.parsedFile] # Null)
      BY <2>1, <2>5, <2>7
    <3>. HIDE DEF h
    <3>. QED  BY <2>1, <3>1, <3>2, EntriesStay
  <2>. QED  BY <2>6, <2>8, <2>9
<1>10. CASE PrepareHandlerExpr
  <2>. USE <1>10 DEF PrepareHandlerExpr
  <2>1. CASE pc' = "evalexpr" /\ Reusable(cur.type) /\ UNCHANGED <<handlers, memory, cur, finfo, fileParsed>>
    BY <2>1 DEF TypeOK, EntryInv, PathInv, OfFile, handler, Reusable, memory
  <2>2. CASE ParsePlain(precious)
    BY <2>2, ParsePlainType, CountTypes DEF TypeOK, Counts
  <2>. QED  BY <2>1, <2>2
<1>11. CASE PrepareScriptExpr
  <2>. USE <1>11 DEF PrepareScriptExpr
  <2>. DEFINE kept == Released(precious, handler.expr)
              e == ScriptCall(cur.d.function, cur.script)
              obj == [what |-> "expr", expr |-> e]
  <2>1. /\ handler \in HandlerEntries /\ cur.d.key \in Keys
        /\ handler.parsedFile # Null => parsed[handler.parsedFile] # Null
    BY Serving
  <2>2. kept \in Counts /\ \A a \in Addresses : precious[a] = 0 => kept[a] = 0
    BY <2>1, CountTypes DEF TypeOK, Counts, HandlerEntries
  <2>3. CASE ParsePlain(kept)
    <3>. HIDE DEF kept
    <3>. QED  BY <2>2, <2>3, ParsePlainType
  <2>4. ASSUME NEW a \in Allocatable, Alloc(a, obj), SetHandler([handler EXCEPT !.expr = a]),
               precious' = kept, pc' = "evalexpr", UNCHANGED <<cur, finfo, fileParsed>>
        PROVE  TypeInv'
    <3>1. a \in Addresses /\ precious[a] = 0 /\ a \in Pointers /\ a # Null
      BY AllocatableIsFree
    <3>2. obj \in Objects
      BY DEF TypeOK, Objects, HandlerExpr, Requests
    <3>3. heap' \in [Addresses -> Objects]
      <4>. HIDE DEF obj
      <4>. QED  BY <2>4, <3>1, <3>2, AllocType DEF TypeOK, Objects
    <3>4. /\ [handler EXCEPT !.expr = a] \in HandlerEntries
          /\ [handler EXCEPT !.expr = a].parsedFile = handler.parsedFile
      BY <2>1, <3>1 DEF HandlerEntries
    <3>. HIDE DEF kept
    <3>7. EntryInv'
      <4>. DEFINE h == [handler EXCEPT !.expr = a]
      <4>1. handlers' = [handlers EXCEPT ![cur.d.key] = h]
        BY <2>4 DEF SetHandler, CacheKey
      <4>. HIDE DEF h
      <4>2. h \in HandlerEntries /\ (h.parsedFile # Null => parsed'[h.parsedFile] # Null)
        BY <2>1, <3>4 DEF h
      <4>. QED  BY <2>1, <4>1, <4>2, EntriesStay
    <3>5. TypeOK'
      BY <2>1, <2>2, <2>4, <3>3, <3>4 DEF TypeOK, Objects, Counts, SetHandler, CacheKey
    <3>6. PathInv'
      BY <2>1, <2>4, <3>1, <3>4 DEF TypeOK, PathInv, OfFile, handler, SetHandler, CacheKey, HandlerEntries
    <3>. QED  BY <3>5, <3>6, <3>7
  <2>. QED  BY <2>3, <2>4
<1>12. CASE EvalExpr
  BY <1>12 DEF EvalExpr, EndRequest, caches, memory, TypeOK, EntryInv, PathInv, OfFile
<1>13. CASE Crash
  <2>. USE <1>13 DEF Crash, EndRequest
  <2>1. /\ parsed' \in [Files -> FileEntries \cup {Null}]
        /\ handlers' \in [Keys -> HandlerEntries \cup {Null}]
        /\ heap' \in [Addresses -> Objects] /\ precious' \in [Addresses -> 0..MaxObject]
    BY DEF Objects
  <2>2. pc' = "idle" /\ cur' = NoRequest /\ finfo' = NoStat /\ fileParsed' = FALSE /\ disk' = disk
    OBVIOUS
  <2>3. EntryInv'
    BY DEF EntryInv
  <2>. QED  BY <2>1, <2>2, <2>3 DEF TypeOK, PathInv, OfFile, Objects
<1>14. CASE CollectGarbage
  <2>. USE <1>14 DEF CollectGarbage, caches
  <2>1. heap' \in [Addresses -> Objects]
    BY DEF TypeOK, Objects
  <2>2. TypeOK'
    BY <2>1 DEF TypeOK, Objects
  <2>3. PathInv'
    BY DEF PathInv, OfFile, handler
  <2>. QED  BY <2>2, <2>3 DEF EntryInv
<1>15. ASSUME NEW f \in Files, Edit(f) PROVE TypeInv'
  BY <1>15 DEF Edit, TypeOK, EntryInv, PathInv, OfFile, caches, memory, handler, Versions
<1>16. CASE UNCHANGED vars
  BY <1>16 DEF vars, TypeOK, EntryInv, PathInv, OfFile, handler
<1>. QED
  BY <1>1, <1>2, <1>3, <1>4, <1>5, <1>6, <1>7, <1>8, <1>9, <1>10, <1>11, <1>12, <1>13, <1>14,
     <1>15, <1>16 DEF Next, Serve

\* The types of all variables, and how far a request has come in the hook
\* (AP_hook_request_handler), in every configuration.
THEOREM TypeCorrect == Spec => []TypeInv
<1>1. Init => TypeInv
  <2>. SUFFICES ASSUME Init PROVE TypeInv
    OBVIOUS
  <2>. USE HandlerCacheAssumption, Parts DEF Init
  <2>1. disk \in [Files -> [version : Versions, kind : Kinds, mtime : Versions]]
    BY DEF Versions
  <2>2. /\ parsed \in [Files -> FileEntries \cup {Null}]
        /\ handlers \in [Keys -> HandlerEntries \cup {Null}]
    OBVIOUS
  <2>3. heap \in [Addresses -> Objects] /\ precious \in [Addresses -> 0..MaxObject]
    BY DEF Objects
  <2>. QED  BY <2>1, <2>2, <2>3 DEF TypeInv, TypeOK, EntryInv, PathInv, OfFile, NoRequest, Objects
<1>. QED  BY <1>1, TypeStep, PTL DEF Spec

\* The call that is evaluated for a script names this request's script or none, and
\* calls the directive's own function, in every configuration.
THEOREM OwnScriptCorrect == Spec => []OwnScript
<1>1. Init => OwnScript
  BY DEF Init, OwnScript
<1>2. TypeInv /\ OwnScript /\ [Next]_vars => OwnScript'
  <2>. SUFFICES ASSUME TypeInv, OwnScript, [Next]_vars, pc' = "evalexpr", cur'.type = "r-script",
                       heap'[handler.expr'] # Gone
                PROVE  /\ heap'[handler.expr'].expr.text = cur'.d.function
                       /\ heap'[handler.expr'].expr.script \in {cur'.script, Null}
    BY DEF OwnScript, handler
  <2>1. CASE PrepareScriptExpr
    <3>. DEFINE e == ScriptCall(cur.d.function, cur.script)
    <3>1. cur' = cur /\ cur.d.key \in Keys /\ handler \in HandlerEntries /\ cur.d.function # Null
      BY <2>1, Parts DEF TypeInv, TypeOK, PathInv, PrepareScriptExpr, ParsePlain, EndRequest, Requests,
                  handler, CacheKey
    <3>2. PICK a \in Allocatable :
            /\ Alloc(a, [what |-> "expr", expr |-> e]) \/ Alloc(a, [what |-> "expr", expr |-> PlainExpr(cur.d)])
            /\ SetHandler([handler EXCEPT !.expr = a])
      BY <2>1 DEF PrepareScriptExpr, ParsePlain, EndRequest
    <3>3. a \in Addresses
      BY AllocatableIsFree
    <3>4. handler' = [handler EXCEPT !.expr = a]
      BY <3>1, <3>2 DEF SetHandler, handler, CacheKey, TypeInv, TypeOK
    <3>5. handler'.expr = a
      BY <3>1, <3>4 DEF HandlerEntries
    <3>6. heap'[a] \in {[what |-> "expr", expr |-> e], [what |-> "expr", expr |-> PlainExpr(cur.d)]}
      BY <3>2, <3>3 DEF Alloc
    <3>. QED  BY <3>1, <3>5, <3>6 DEF PlainExpr, Call, ScriptCall
  <2>2. CASE CollectGarbage
    BY <2>2 DEF CollectGarbage, caches, OwnScript, handler, TypeInv, TypeOK
  <2>3. ASSUME NEW f \in Files, Edit(f) PROVE handler' = handler /\ heap' = heap /\ cur' = cur /\ pc' = pc
    BY <2>3 DEF Edit, caches, memory, handler
  <2>4. CASE UNCHANGED vars
    BY <2>4 DEF vars, OwnScript, handler
  <2>5. CASE PrepareHandlerExpr
    BY <2>5 DEF PrepareHandlerExpr, Reusable, ParsePlain, EndRequest
  <2>6. ASSUME NEW rq \in Requests, GetHandlerFromRequest(rq) PROVE FALSE
    BY <2>6 DEF GetHandlerFromRequest
  <2>7. CASE NewHandlerEnv \/ StatFails \/ StatFile \/ ParseFails \/ ParseFile \/ ReuseFile \/ NewFileEnv
    BY <2>7 DEF NewHandlerEnv, StatFails, StatFile, ParseFails, ParseFile, ReuseFile, NewFileEnv, EndRequest
  <2>8. CASE EvalFile \/ EvalExpr \/ Crash
    BY <2>8 DEF EvalFile, EvalExpr, Crash, EndRequest
  <2>. QED
    BY <2>1, <2>2, <2>3, <2>4, <2>5, <2>6, <2>7, <2>8 DEF Next, Serve, OwnScript, handler
<1>. QED  BY <1>1, <1>2, TypeCorrect, PTL DEF Spec

-----------------------------------------------------------------------------
(* Who owns what on the precious list.                                     *)

\* An owner points at an address or nowhere.
LEMMA PointerType ==
  ASSUME TypeInv
  PROVE  /\ \A f \in Files : FileEntry(f) \in FileEntries
         /\ \A k \in Keys : HandlerEntry(k) \in HandlerEntries
         /\ \A s \in Slots : Pointer(s) \in Pointers
<1>1. /\ \A f \in Files : FileEntry(f) \in FileEntries
      /\ \A k \in Keys : HandlerEntry(k) \in HandlerEntries
  BY Parts DEF TypeInv, TypeOK, FileEntry, HandlerEntry
<1>2. \A s \in Slots : Pointer(s) \in Pointers
  BY <1>1 DEF Slots, Pointer, FileEntries, HandlerEntries
<1>. QED  BY <1>1, <1>2

\* Only the owners a step changes point elsewhere after it.
Same(S) ==
  /\ \A f \in Files : <<"exprs", f>> \notin S => FileEntry(f)'.exprs = FileEntry(f).exprs
  /\ \A f \in Files : <<"envir", f>> \notin S => FileEntry(f)'.envir = FileEntry(f).envir
  /\ \A k \in Keys : <<"call", k>> \notin S => HandlerEntry(k)'.expr = HandlerEntry(k).expr
  /\ \A k \in Keys : OwnsEnvir(k) /\ <<"own", k>> \notin S =>
       HandlerEntry(k)'.envir = HandlerEntry(k).envir
LEMMA SamePointers ==
  ASSUME NEW S, Same(S)
  PROVE  \A t \in Slots \ S : Pointer(t)' = Pointer(t)
<1>. SUFFICES ASSUME NEW t \in Slots \ S PROVE Pointer(t)' = Pointer(t)
  OBVIOUS
<1>1. CASE \E f \in Files : t = <<"exprs", f>>
  BY <1>1 DEF Same, Pointer
<1>2. CASE \E f \in Files : t = <<"envir", f>>
  BY <1>2 DEF Same, Pointer
<1>3. CASE \E k \in Keys : t = <<"call", k>>
  BY <1>3 DEF Same, Pointer
<1>4. CASE \E k \in Keys : OwnsEnvir(k) /\ t = <<"own", k>>
  BY <1>4 DEF Same, Pointer
<1>. QED  BY <1>1, <1>2, <1>3, <1>4 DEF Slots

\* An owner releases its object and takes a new one, which nobody owns.
LEMMA ReplaceOwned ==
  ASSUME TypeInv, OwnerInv, NEW s \in Slots, NEW a \in Addresses, precious[a] = 0,
         precious' = Preserved(Released(precious, Pointer(s)), a),
         Pointer(s)' = a, Same({s})
  PROVE  OwnerInv'
<1>. USE HandlerCacheAssumption
<1>1. \A t \in Slots : Pointer(t) \in Pointers
  BY PointerType
<1>2. \A t \in Slots : t # s => Pointer(t)' = Pointer(t)
  BY SamePointers
<1>3. \A t \in Slots : Pointer(t) # a
  BY DEF OwnerInv
<1>4. precious \in [Addresses -> 0..MaxObject]
  BY DEF TypeInv, TypeOK
<1>5. \A t, u \in Slots : Pointer(t)' = Pointer(u)' /\ Pointer(t)' # Null => t = u
  BY <1>2, <1>3 DEF OwnerInv
<1>6. ASSUME NEW b \in Addresses
      PROVE  precious'[b] = IF \E t \in Slots : Pointer(t)' = b THEN 1 ELSE 0
  <2>0. \A t \in Slots : Pointer(t) # Null => precious[Pointer(t)] = 1
    BY <1>1 DEF OwnerInv, Pointers
  <2>1. precious'[b] = IF b = a THEN 1 ELSE IF b = Pointer(s) THEN 0 ELSE precious[b]
    BY <1>1, <1>3, <1>4, <2>0 DEF Released, Preserved, Pointers, Addresses
  <2>2. (\E t \in Slots : Pointer(t)' = b) <=>
          (b = a \/ (b # Pointer(s) /\ \E t \in Slots : Pointer(t) = b))
    <3>1. b # Null
      BY DEF Addresses
    <3>. QED  BY <1>2, <1>3, <3>1 DEF OwnerInv
  <2>3. precious[b] = IF \E t \in Slots : Pointer(t) = b THEN 1 ELSE 0
    BY DEF OwnerInv
  <2>. QED  BY <2>1, <2>2, <2>3
<1>. QED  BY <1>5, <1>6 DEF OwnerInv

\* An owner releases its object.
LEMMA DropOwned ==
  ASSUME TypeInv, OwnerInv, NEW s \in Slots,
         precious' = Released(precious, Pointer(s)), Pointer(s)' = Null, Same({s})
  PROVE  OwnerInv'
<1>. USE HandlerCacheAssumption
<1>1. \A t \in Slots : Pointer(t) \in Pointers
  BY PointerType
<1>2. \A t \in Slots : t # s => Pointer(t)' = Pointer(t)
  BY SamePointers
<1>3. precious \in [Addresses -> 0..MaxObject]
  BY DEF TypeInv, TypeOK
<1>4. \A t, u \in Slots : Pointer(t)' = Pointer(u)' /\ Pointer(t)' # Null => t = u
  BY <1>2 DEF OwnerInv
<1>5. ASSUME NEW b \in Addresses
      PROVE  precious'[b] = IF \E t \in Slots : Pointer(t)' = b THEN 1 ELSE 0
  <2>0. \A t \in Slots : Pointer(t) # Null => precious[Pointer(t)] = 1
    BY <1>1 DEF OwnerInv, Pointers
  <2>1. precious'[b] = IF b = Pointer(s) THEN 0 ELSE precious[b]
    BY <1>1, <1>3, <2>0 DEF Released, Pointers, Addresses
  <2>2. (\E t \in Slots : Pointer(t)' = b) <=> (b # Pointer(s) /\ \E t \in Slots : Pointer(t) = b)
    <3>1. b # Null
      BY DEF Addresses
    <3>. QED  BY <1>2, <3>1 DEF OwnerInv
  <2>3. precious[b] = IF \E t \in Slots : Pointer(t) = b THEN 1 ELSE 0
    BY DEF OwnerInv
  <2>. QED  BY <2>1, <2>2, <2>3
<1>. QED  BY <1>4, <1>5 DEF OwnerInv

\* Nothing changes hands.
LEMMA KeepOwned ==
  ASSUME OwnerInv, precious' = precious, Same({})
  PROVE  OwnerInv'
<1>1. \A t \in Slots : Pointer(t)' = Pointer(t)
  BY SamePointers
<1>. QED  BY <1>1 DEF OwnerInv

\* One entry of a cache is written, the others are left alone.
LEMMA WrittenEntries ==
  ASSUME TypeInv
  PROVE  /\ \A k \in Keys, h \in HandlerEntries : handlers' = [handlers EXCEPT ![k] = h] =>
              \A j \in Keys : HandlerEntry(j)' = IF j = k THEN h ELSE HandlerEntry(j)
         /\ \A f \in Files, p \in FileEntries : parsed' = [parsed EXCEPT ![f] = p] =>
              \A g \in Files : FileEntry(g)' = IF g = f THEN p ELSE FileEntry(g)
         /\ handlers' = handlers => \A j \in Keys : HandlerEntry(j)' = HandlerEntry(j)
         /\ parsed' = parsed => \A g \in Files : FileEntry(g)' = FileEntry(g)
<1>1. ASSUME NEW k \in Keys, NEW h \in HandlerEntries, handlers' = [handlers EXCEPT ![k] = h], NEW j \in Keys
      PROVE  HandlerEntry(j)' = IF j = k THEN h ELSE HandlerEntry(j)
  BY <1>1, NullAssumption DEF TypeInv, TypeOK, HandlerEntry
<1>2. ASSUME NEW f \in Files, NEW p \in FileEntries, parsed' = [parsed EXCEPT ![f] = p], NEW g \in Files
      PROVE  FileEntry(g)' = IF g = f THEN p ELSE FileEntry(g)
  BY <1>2, NullAssumption DEF TypeInv, TypeOK, FileEntry
<1>3. handlers' = handlers => \A j \in Keys : HandlerEntry(j)' = HandlerEntry(j)
  BY DEF HandlerEntry
<1>4. parsed' = parsed => \A g \in Files : FileEntry(g)' = FileEntry(g)
  BY DEF FileEntry
<1>. QED  BY <1>1, <1>2, <1>3, <1>4

\* The same in terms of the entries, and who owns the environment.
LEMMA Current ==
  ASSUME TypeInv, pc # "idle"
  PROVE  /\ cur \in Requests /\ cur.d \in Directives /\ cur.d.key \in Keys
         /\ handler \in HandlerEntries /\ handler = HandlerEntry(cur.d.key)
         /\ cur.d.file # Null => cur.d.file \in Files
         /\ OfFile => /\ cur.d.file # Null /\ handler.parsedFile \in Files
                      /\ parsed[handler.parsedFile] \in FileEntries
                      /\ parsed[handler.parsedFile] = FileEntry(handler.parsedFile)
         /\ OneFilePerKey => (OwnsEnvir(cur.d.key) <=> cur.d.file = Null)
<1>1. handler = HandlerEntry(cur.d.key)
  BY Serving, NullAssumption DEF HandlerEntry
<1>2. OfFile => /\ cur.d.file # Null /\ handler.parsedFile \in Files
                /\ parsed[handler.parsedFile] \in FileEntries
                /\ parsed[handler.parsedFile] = FileEntry(handler.parsedFile)
  BY Serving, NullAssumption DEF TypeInv, PathInv, FileEntry, OfFile
<1>3. OneFilePerKey => (OwnsEnvir(cur.d.key) <=> cur.d.file = Null)
  BY Serving DEF OneFilePerKey, OwnsEnvir
<1>. QED  BY <1>1, <1>2, <1>3, Serving

\* A request that has looked at its file uses the entry of that file.
LEMMA OwnEntry ==
  ASSUME TypeInv, KeyInv, OfFile
  PROVE  handler.parsedFile = cur.d.file
<1>1. pc # "idle"
  BY DEF OfFile
<1>2. handler.parsedFile \in {Null, cur.d.file} /\ handler.parsedFile # Null
  BY <1>1, Current DEF KeyInv, TypeInv, PathInv
<1>. QED  BY <1>2

\* PrepareHandlerExpr when h->expr is NULL: what it parses becomes the handler's.
LEMMA ParsePlainMemory ==
  ASSUME TypeInv, OwnerInv, pc = "expr", handler.expr = Null, ParsePlain(precious),
         UNCHANGED <<disk, parsed>>
  PROVE  OwnerInv'
<1>0. PICK k \in Keys : k = cur.d.key
  BY Current
<1>. DEFINE s == <<"call", k>>
<1>1. handler \in HandlerEntries /\ k = cur.d.key /\ handler = HandlerEntry(k)
  BY <1>0, Current
<1>2. s \in Slots /\ Pointer(s) = Null
  BY <1>1 DEF Slots, Pointer
<1>3. ASSUME NEW a \in Allocatable, precious' = Preserved(precious, a),
             SetHandler([handler EXCEPT !.expr = a])
      PROVE  OwnerInv'
  <2>1. a \in Addresses /\ precious[a] = 0 /\ a \in Pointers /\ a # Null
    BY AllocatableIsFree
  <2>2. [handler EXCEPT !.expr = a] \in HandlerEntries
    BY <1>1, <2>1 DEF HandlerEntries
  <2>3. \A j \in Keys : HandlerEntry(j)' = IF j = k THEN [handler EXCEPT !.expr = a] ELSE HandlerEntry(j)
    BY <1>1, <1>3, <2>2, WrittenEntries DEF SetHandler, CacheKey
  <2>4. \A g \in Files : FileEntry(g)' = FileEntry(g)
    BY WrittenEntries
  <2>5. Same({s})
    BY <1>1, <2>3, <2>4 DEF Same, HandlerEntries
  <2>6. Pointer(s)' = a
    BY <1>1, <2>3 DEF Pointer, HandlerEntries
  <2>7. precious' = Preserved(Released(precious, Pointer(s)), a)
    BY <1>2, <1>3 DEF Released
  <2>. HIDE DEF s
  <2>. QED  BY <1>2, <2>1, <2>5, <2>6, <2>7, ReplaceOwned
<1>4. ASSUME SetHandler([handler EXCEPT !.expr = Null]), precious' = precious
      PROVE  OwnerInv'
  <2>1. [handler EXCEPT !.expr = Null] = handler
    BY <1>1 DEF HandlerEntries
  <2>2. \A j \in Keys : HandlerEntry(j)' = HandlerEntry(j)
    BY <1>1, <1>4, <2>1, WrittenEntries DEF SetHandler, CacheKey
  <2>3. Same({})
    BY <2>2, WrittenEntries DEF Same
  <2>. QED  BY <1>4, <2>3, KeepOwned
<1>. QED  BY <1>3, <1>4 DEF ParsePlain, KeepCall

\* Every step keeps what owns what, and releases what it replaces.
LEMMA OwnerStep ==
  ASSUME OneFilePerKey, OnlyHandlers
  PROVE  TypeInv /\ OwnerInv /\ [Next]_vars => OwnerInv'
<1>. SUFFICES ASSUME TypeInv, OwnerInv, [Next]_vars PROVE OwnerInv'
  OBVIOUS
<1>. USE HandlerCacheAssumption
<1>1. ASSUME NEW rq \in Requests, GetHandlerFromRequest(rq) PROVE OwnerInv'
  <2>. USE <1>1 DEF GetHandlerFromRequest, CacheKey, memory
  <2>1. \A j \in Keys : HandlerEntry(j)' = HandlerEntry(j)
    BY DEF HandlerEntry, TypeInv, TypeOK
  <2>2. Same({})
    BY <2>1, WrittenEntries DEF Same
  <2>. QED  BY <2>2, KeepOwned
<1>2. CASE NewHandlerEnv
  <2>. USE <1>2 DEF NewHandlerEnv, CacheKey, SetHandler
  <2>1. PICK k \in Keys : k = cur.d.key
    BY Current
  <2>. DEFINE s == <<"own", k>>
  <2>2. handler \in HandlerEntries /\ handler = HandlerEntry(k) /\ OwnsEnvir(k)
    BY <2>1, Current DEF TypeInv, PathInv
  <2>3. s \in Slots /\ Pointer(s) = handler.envir
    BY <2>2 DEF Slots, Pointer
  <2>4. PICK a \in Allocatable :
          /\ precious' = Preserved(Released(precious, handler.envir), a)
          /\ handlers' = [handlers EXCEPT ![k] = [handler EXCEPT !.envir = a]]
    BY <2>1
  <2>5. a \in Addresses /\ precious[a] = 0 /\ a \in Pointers
    BY AllocatableIsFree
  <2>6. [handler EXCEPT !.envir = a] \in HandlerEntries
    BY <2>2, <2>5 DEF HandlerEntries
  <2>7. \A j \in Keys : HandlerEntry(j)' = IF j = k THEN [handler EXCEPT !.envir = a] ELSE HandlerEntry(j)
    BY <2>4, <2>6, WrittenEntries
  <2>8. Same({s}) /\ Pointer(s)' = a
    BY <2>2, <2>7, WrittenEntries DEF Same, HandlerEntries, Pointer
  <2>. HIDE DEF s
  <2>. QED  BY <2>3, <2>4, <2>5, <2>8, ReplaceOwned
<1>3. CASE StatFails \/ EvalExpr
  <2>1. precious' = precious /\ parsed' = parsed /\ handlers' = handlers
    BY <1>3 DEF StatFails, EvalExpr, caches, memory
  <2>. QED  BY <2>1, WrittenEntries, KeepOwned DEF Same
<1>4. CASE StatFile
  <2>. DEFINE k == cur.d.key
              f == IF handler.parsedFile # Null THEN handler.parsedFile ELSE cur.d.file
  <2>1. f \in Files /\ k \in Keys /\ handler \in HandlerEntries /\ handler = HandlerEntry(k)
    BY <1>4, Serving, Current DEF StatFile, TypeInv, PathInv
  <2>2. PICK p : p = FileEntry(f) /\ parsed' = [parsed EXCEPT ![f] = p]
    BY <1>4 DEF StatFile, SetParsed, FileEntry
  <2>3. [handler EXCEPT !.parsedFile = f] \in HandlerEntries
    <3>. HIDE DEF f
    <3>. QED  BY <2>1 DEF HandlerEntries
  <2>4. \A g \in Files : FileEntry(g)' = FileEntry(g)
    <3>. HIDE DEF f
    <3>. QED  BY <2>1, <2>2 DEF FileEntry, TypeInv, TypeOK
  <2>. DEFINE h == [handler EXCEPT !.parsedFile = f]
  <2>5. \A j \in Keys : HandlerEntry(j)' = IF j = k THEN h ELSE HandlerEntry(j)
    <3>1. handlers' = [handlers EXCEPT ![k] = h] /\ h \in HandlerEntries
      BY <1>4, <2>3 DEF StatFile, SetHandler, CacheKey
    <3>. HIDE DEF h, f
    <3>. QED  BY <2>1, <3>1, WrittenEntries, Zenon
  <2>6. h.expr = handler.expr /\ h.envir = handler.envir
    <3>. HIDE DEF f
    <3>. QED  BY <2>1 DEF HandlerEntries
  <2>7. Same({})
    <3>. HIDE DEF h
    <3>. QED  BY <2>1, <2>4, <2>5, <2>6 DEF Same
  <2>8. precious' = precious
    BY <1>4 DEF StatFile, memory
  <2>. QED  BY <2>7, <2>8, KeepOwned
<1>5. CASE ParseFails
  <2>. USE <1>5 DEF ParseFails, SetParsed
  <2>1. PICK f \in Files : f = handler.parsedFile
    BY Current DEF OfFile
  <2>. DEFINE s == <<"exprs", f>>
  <2>2. parsed[f] \in FileEntries /\ parsed[f] = FileEntry(f)
    BY <2>1, Current DEF OfFile
  <2>3. [parsed[f] EXCEPT !.exprs = Null] \in FileEntries
    BY <2>2 DEF FileEntries, Pointers
  <2>4. \A g \in Files : FileEntry(g)' = IF g = f THEN [parsed[f] EXCEPT !.exprs = Null] ELSE FileEntry(g)
    BY <2>1, <2>3, WrittenEntries
  <2>5. s \in Slots /\ Pointer(s) = parsed[f].exprs
    BY <2>2 DEF Slots, Pointer
  <2>6. Same({s}) /\ Pointer(s)' = Null
    BY <2>2, <2>4, WrittenEntries DEF Same, FileEntries, Pointer
  <2>7. precious' = Released(precious, Pointer(s))
    BY <2>1, <2>5
  <2>. HIDE DEF s
  <2>. QED  BY <2>5, <2>6, <2>7, DropOwned
<1>6. CASE ParseFile
  <2>. USE <1>6 DEF ParseFile, SetParsed
  <2>1. PICK f \in Files : f = handler.parsedFile
    BY Current DEF OfFile
  <2>. DEFINE s == <<"exprs", f>>
  <2>2. parsed[f] \in FileEntries /\ parsed[f] = FileEntry(f)
    BY <2>1, Current DEF OfFile
  <2>3. PICK a \in Allocatable :
          /\ precious' = Preserved(Released(precious, parsed[f].exprs), a)
          /\ parsed' = [parsed EXCEPT ![f] = [parsed[f] EXCEPT !.exprs = a, !.mtime = finfo.mtime]]
    BY <2>1 DEF KeepExprs, ParseResult
  <2>4. a \in Addresses /\ precious[a] = 0 /\ a \in Pointers
    BY AllocatableIsFree
  <2>. DEFINE p == [parsed[f] EXCEPT !.exprs = a, !.mtime = finfo.mtime]
  <2>5. p \in FileEntries /\ p.exprs = a /\ p.envir = parsed[f].envir
    BY <2>2, <2>4 DEF TypeInv, TypeOK, FileEntries
  <2>6. \A g \in Files : FileEntry(g)' = IF g = f THEN p ELSE FileEntry(g)
    BY <2>3, <2>5, WrittenEntries
  <2>7. s \in Slots /\ Pointer(s) = parsed[f].exprs
    BY <2>2 DEF Slots, Pointer
  <2>8. Same({s}) /\ Pointer(s)' = a
    <3>. HIDE DEF p
    <3>. QED  BY <2>2, <2>5, <2>6, WrittenEntries DEF Same, Pointer
  <2>9. precious' = Preserved(Released(precious, Pointer(s)), a)
    BY <2>3, <2>7
  <2>. HIDE DEF s
  <2>. QED  BY <2>4, <2>7, <2>8, <2>9, ReplaceOwned
<1>7. CASE ReuseFile
  <2>. USE <1>7 DEF ReuseFile, SetHandler, CacheKey, memory
  <2>. DEFINE k == cur.d.key
              h == [handler EXCEPT !.envir = parsed[handler.parsedFile].envir]
  <2>1. /\ k \in Keys /\ handler \in HandlerEntries /\ handler = HandlerEntry(k) /\ ~OwnsEnvir(k)
        /\ parsed[handler.parsedFile] \in FileEntries
    BY Current DEF OfFile
  <2>2. h \in HandlerEntries /\ h.expr = handler.expr
    <3>1. \A e \in FileEntries : e.envir \in Pointers
      BY DEF FileEntries
    <3>2. parsed[handler.parsedFile].envir \in Pointers
      BY <2>1, <3>1, Zenon
    <3>. QED  BY <2>1, <3>2, WithEnvironment, Zenon
  <2>3. \A j \in Keys : HandlerEntry(j)' = IF j = k THEN h ELSE HandlerEntry(j)
    <3>1. handlers' = [handlers EXCEPT ![k] = h]
      OBVIOUS
    <3>. HIDE <1>7 DEF h
    <3>. QED  BY <2>1, <2>2, <3>1, WrittenEntries, Zenon
  <2>4. Same({})
    <3>. HIDE DEF h
    <3>. QED  BY <2>1, <2>2, <2>3, WrittenEntries DEF Same
  <2>. QED  BY <2>4, KeepOwned
<1>8. CASE NewFileEnv
  <2>. USE <1>8 DEF NewFileEnv, SetParsed
  <2>1. PICK f \in Files : f = handler.parsedFile
    BY Current DEF OfFile
  <2>. DEFINE s == <<"envir", f>>
  <2>2. parsed[f] \in FileEntries /\ parsed[f] = FileEntry(f)
    BY <2>1, Current DEF OfFile
  <2>3. PICK a \in Allocatable :
          /\ precious' = Preserved(Released(precious, parsed[f].envir), a)
          /\ parsed' = [parsed EXCEPT ![f] = [parsed[f] EXCEPT !.envir = a]]
    BY <2>1
  <2>4. a \in Addresses /\ precious[a] = 0 /\ a \in Pointers
    BY AllocatableIsFree
  <2>5. [parsed[f] EXCEPT !.envir = a] \in FileEntries
    BY <2>2, <2>4 DEF FileEntries
  <2>6. \A g \in Files : FileEntry(g)' = IF g = f THEN [parsed[f] EXCEPT !.envir = a] ELSE FileEntry(g)
    BY <2>3, <2>5, WrittenEntries
  <2>7. s \in Slots /\ Pointer(s) = parsed[f].envir
    BY <2>2 DEF Slots, Pointer
  <2>8. Same({s}) /\ Pointer(s)' = a
    BY <2>2, <2>6, WrittenEntries DEF Same, FileEntries, Pointer
  <2>9. precious' = Preserved(Released(precious, Pointer(s)), a)
    BY <2>3, <2>7
  <2>. HIDE DEF s
  <2>. QED  BY <2>4, <2>7, <2>8, <2>9, ReplaceOwned
<1>9. CASE EvalFile
  <2>. DEFINE k == cur.d.key
              h == [handler EXCEPT !.envir = parsed[handler.parsedFile].envir]
  <2>1. /\ k \in Keys /\ handler \in HandlerEntries /\ handler = HandlerEntry(k) /\ ~OwnsEnvir(k)
        /\ parsed[handler.parsedFile] \in FileEntries
    BY <1>9, Current DEF EvalFile, OfFile
  <2>2. h \in HandlerEntries /\ h.expr = handler.expr
    <3>1. \A e \in FileEntries : e.envir \in Pointers
      BY DEF FileEntries
    <3>2. parsed[handler.parsedFile].envir \in Pointers
      BY <2>1, <3>1, Zenon
    <3>. QED  BY <2>1, <3>2, WithEnvironment, Zenon
  <2>3. handlers' = [handlers EXCEPT ![k] = h] \/ handlers' = handlers
    BY <1>9 DEF EvalFile, SetHandler, CacheKey
  <2>4. \/ \A j \in Keys : HandlerEntry(j)' = IF j = k THEN h ELSE HandlerEntry(j)
        \/ \A j \in Keys : HandlerEntry(j)' = HandlerEntry(j)
    <3>. HIDE DEF h
    <3>. QED  BY <2>1, <2>2, <2>3, WrittenEntries, Zenon
  <2>5. precious' = precious /\ parsed' = parsed
    BY <1>9 DEF EvalFile
  <2>6. \A g \in Files : FileEntry(g)' = FileEntry(g)
    BY <2>5, WrittenEntries
  <2>7. Same({})
    <3>. HIDE DEF h
    <3>. QED  BY <2>1, <2>2, <2>4, <2>6 DEF Same
  <2>. QED  BY <2>5, <2>7, KeepOwned, Zenon
<1>10. CASE PrepareHandlerExpr
  <2>1. CASE UNCHANGED <<handlers, memory>> /\ UNCHANGED <<disk, parsed>>
    BY <2>1, WrittenEntries, KeepOwned DEF Same, memory
  <2>. QED  BY <1>10, <2>1, ParsePlainMemory DEF PrepareHandlerExpr
<1>11. CASE PrepareScriptExpr
  BY <1>11, Current DEF PrepareScriptExpr, OnlyHandlers, Requests
<1>12. CASE Crash
  <2>1. \A s \in Slots : Pointer(s)' = Null
    BY <1>12 DEF Crash, Slots, Pointer, FileEntry, HandlerEntry, NoFile, NoHandler
  <2>2. \A a \in Addresses : precious'[a] = 0 /\ a # Null
    BY <1>12 DEF Crash, Addresses
  <2>. QED  BY <2>1, <2>2 DEF OwnerInv
<1>13. CASE CollectGarbage \/ (\E f \in Files : Edit(f)) \/ UNCHANGED vars
  <2>1. precious' = precious /\ parsed' = parsed /\ handlers' = handlers
    BY <1>13 DEF CollectGarbage, Edit, vars, caches, memory
  <2>. QED  BY <2>1, WrittenEntries, KeepOwned DEF Same
<1>. QED
  BY <1>1, <1>2, <1>3, <1>4, <1>5, <1>6, <1>7, <1>8, <1>9, <1>10, <1>11, <1>12, <1>13 DEF Next, Serve

\* In a new child nothing is owned.
LEMMA OwnerInit == Init => OwnerInv
<1>. SUFFICES ASSUME Init PROVE OwnerInv
  OBVIOUS
<1>1. \A s \in Slots : Pointer(s) = Null
  BY DEF Init, Slots, Pointer, FileEntry, HandlerEntry, NoFile, NoHandler
<1>2. \A a \in Addresses : precious[a] = 0 /\ a # Null
  BY HandlerCacheAssumption DEF Init, Addresses
<1>. QED  BY <1>1, <1>2 DEF OwnerInv

\* What the owners own is on the precious list, and no environment of a file is
\* anything else as well.
LEMMA Owners ==
  ASSUME TypeInv, MemoryInv
  PROVE  /\ \A s \in Slots : Pointer(s) # Null => Pointer(s) \in Addresses /\ precious[Pointer(s)] = 1
         /\ \A f \in Files : FileEntry(f).exprs # Null =>
              FileEntry(f).exprs \in Addresses /\ precious[FileEntry(f).exprs] = 1
         /\ \A f \in Files : FileEntry(f).envir # Null =>
              /\ FileEntry(f).envir \in Addresses /\ precious[FileEntry(f).envir] = 1
              /\ \A g \in Files : FileEntry(f).envir # FileEntry(g).exprs
              /\ \A g \in Files : f # g => FileEntry(f).envir # FileEntry(g).envir
              /\ \A k \in Keys : FileEntry(f).envir # HandlerEntry(k).expr
         /\ \A k \in Keys : HandlerEntry(k).expr # Null =>
              HandlerEntry(k).expr \in Addresses /\ precious[HandlerEntry(k).expr] = 1
<1>1. ASSUME NEW s \in Slots, Pointer(s) # Null
      PROVE  Pointer(s) \in Addresses /\ precious[Pointer(s)] = 1
  BY <1>1, PointerType DEF MemoryInv, OwnerInv, Pointers
<1>2. \A f \in Files : <<"exprs", f>> \in Slots /\ Pointer(<<"exprs", f>>) = FileEntry(f).exprs
  BY DEF Slots, Pointer
<1>3. \A f \in Files : <<"envir", f>> \in Slots /\ Pointer(<<"envir", f>>) = FileEntry(f).envir
  BY DEF Slots, Pointer
<1>4. \A k \in Keys : <<"call", k>> \in Slots /\ Pointer(<<"call", k>>) = HandlerEntry(k).expr
  BY DEF Slots, Pointer
<1>5. \A f \in Files : FileEntry(f).exprs # Null =>
        FileEntry(f).exprs \in Addresses /\ precious[FileEntry(f).exprs] = 1
  BY <1>1, <1>2
<1>6. \A k \in Keys : HandlerEntry(k).expr # Null =>
        HandlerEntry(k).expr \in Addresses /\ precious[HandlerEntry(k).expr] = 1
  BY <1>1, <1>4
<1>7. ASSUME NEW f \in Files, FileEntry(f).envir # Null
      PROVE  /\ FileEntry(f).envir \in Addresses /\ precious[FileEntry(f).envir] = 1
             /\ \A g \in Files : FileEntry(f).envir # FileEntry(g).exprs
             /\ \A g \in Files : f # g => FileEntry(f).envir # FileEntry(g).envir
             /\ \A k \in Keys : FileEntry(f).envir # HandlerEntry(k).expr
  <2>. DEFINE s == <<"envir", f>>
  <2>1. s \in Slots /\ Pointer(s) = FileEntry(f).envir
    BY <1>3
  <2>2. \A t \in Slots : Pointer(s) = Pointer(t) => s = t
    BY <1>7, <2>1 DEF MemoryInv, OwnerInv
  <2>3. \A g \in Files : FileEntry(f).envir # FileEntry(g).exprs
    <3>1. \A g \in Files : s # <<"exprs", g>>
      OBVIOUS
    <3>. QED  BY <1>2, <2>1, <2>2, <3>1
  <2>4. \A g \in Files : f # g => FileEntry(f).envir # FileEntry(g).envir
    <3>1. \A g \in Files : f # g => s # <<"envir", g>>
      OBVIOUS
    <3>. QED  BY <1>3, <2>1, <2>2, <3>1
  <2>5. \A k \in Keys : FileEntry(f).envir # HandlerEntry(k).expr
    <3>1. \A k \in Keys : s # <<"call", k>>
      OBVIOUS
    <3>. QED  BY <1>4, <2>1, <2>2, <3>1
  <2>. QED  BY <1>1, <1>7, <2>1, <2>3, <2>4, <2>5
<1>. QED  BY <1>1, <1>5, <1>6, <1>7

\* Only PrepareFileExprs gives a handler the entry of a file, that of its directive.
LEMMA KeyStep ==
  ASSUME OneFilePerKey, OnlyHandlers
  PROVE  TypeInv /\ KeyInv /\ [Next]_vars => KeyInv'
<1>. SUFFICES ASSUME TypeInv, KeyInv, [Next]_vars PROVE KeyInv'
  OBVIOUS
<1>1. ASSUME \A k \in Keys : HandlerEntry(k)'.parsedFile = HandlerEntry(k).parsedFile PROVE KeyInv'
  BY <1>1, Parts DEF KeyInv
<1>2. ASSUME pc # "idle", NEW h \in HandlerEntries, handlers' = [handlers EXCEPT ![cur.d.key] = h],
             h.parsedFile = handler.parsedFile
      PROVE  KeyInv'
  <2>1. \A j \in Keys : HandlerEntry(j)' = IF j = cur.d.key THEN h ELSE HandlerEntry(j)
    BY <1>2, Current, WrittenEntries
  <2>. QED  BY <1>1, <1>2, <2>1, Current
<1>3. CASE UNCHANGED handlers
  BY <1>1, <1>3, WrittenEntries
<1>4. ASSUME NEW rq \in Requests, GetHandlerFromRequest(rq) PROVE KeyInv'
  <2>1. \A k \in Keys : HandlerEntry(k)' = HandlerEntry(k)
    BY <1>4 DEF GetHandlerFromRequest, CacheKey, HandlerEntry, TypeInv, TypeOK
  <2>. QED  BY <1>1, <2>1
<1>5. ASSUME pc # "idle", NEW x \in Pointers, SetHandler([handler EXCEPT !.envir = x]) PROVE KeyInv'
  <2>. DEFINE h == [handler EXCEPT !.envir = x]
  <2>1. h \in HandlerEntries /\ h.parsedFile = handler.parsedFile
    BY <1>5, Current DEF HandlerEntries
  <2>2. handlers' = [handlers EXCEPT ![cur.d.key] = h]
    BY <1>5 DEF SetHandler, CacheKey
  <2>. HIDE DEF h
  <2>. QED  BY <1>2, <1>5, <2>1, <2>2
<1>6. ASSUME pc # "idle", NEW x \in Pointers, SetHandler([handler EXCEPT !.expr = x]) PROVE KeyInv'
  <2>. DEFINE h == [handler EXCEPT !.expr = x]
  <2>1. h \in HandlerEntries /\ h.parsedFile = handler.parsedFile
    BY <1>6, Current DEF HandlerEntries
  <2>2. handlers' = [handlers EXCEPT ![cur.d.key] = h]
    BY <1>6 DEF SetHandler, CacheKey
  <2>. HIDE DEF h
  <2>. QED  BY <1>2, <1>6, <2>1, <2>2
<1>7. CASE NewHandlerEnv
  BY <1>5, <1>7, AllocatableIsFree DEF NewHandlerEnv
<1>8. CASE StatFile
  <2>. DEFINE h == [handler EXCEPT !.parsedFile = cur.d.file]
  <2>1. /\ pc = "stat" /\ cur.d \in Directives /\ cur.d.key \in Keys /\ cur.d.file \in Files
        /\ handler \in HandlerEntries /\ handler = HandlerEntry(cur.d.key)
    BY <1>8, Current DEF StatFile, TypeInv, PathInv
  <2>2. handler.parsedFile \in {Null, cur.d.file}
    BY <2>1 DEF KeyInv
  <2>3. handlers' = [handlers EXCEPT ![cur.d.key] = h]
    BY <1>8, <2>2 DEF StatFile, SetHandler, CacheKey
  <2>4. h \in HandlerEntries /\ h.parsedFile = cur.d.file
    BY <2>1 DEF HandlerEntries
  <2>. HIDE DEF h
  <2>5. \A j \in Keys : HandlerEntry(j)' = IF j = cur.d.key THEN h ELSE HandlerEntry(j)
    BY <2>1, <2>3, <2>4, WrittenEntries
  <2>6. ASSUME NEW d \in Directives PROVE HandlerEntry(d.key)'.parsedFile \in {Null, d.file}
    <3>1. CASE d.key = cur.d.key
      BY <2>1, <2>4, <2>5, <3>1 DEF OneFilePerKey
    <3>2. CASE d.key # cur.d.key
      BY <2>5, <3>2, Parts DEF KeyInv
    <3>. QED  BY <3>1, <3>2
  <2>. QED  BY <2>6 DEF KeyInv
<1>9. CASE ReuseFile \/ EvalFile
  <2>1. pc # "idle" /\ parsed[handler.parsedFile].envir \in Pointers
    BY <1>9, Current DEF ReuseFile, EvalFile, OfFile, FileEntries
  <2>. QED  BY <1>3, <1>5, <1>9, <2>1 DEF ReuseFile, EvalFile
<1>10. CASE PrepareHandlerExpr
  <2>1. pc # "idle" /\ Null \in Pointers
    BY <1>10 DEF PrepareHandlerExpr, Pointers
  <2>. QED  BY <1>3, <1>6, <1>10, <2>1, AllocatableIsFree DEF PrepareHandlerExpr, ParsePlain
<1>11. CASE PrepareScriptExpr
  BY <1>11, Current DEF PrepareScriptExpr, OnlyHandlers, Requests
<1>12. CASE Crash
  BY <1>12, Parts DEF Crash, KeyInv, HandlerEntry, NoHandler
<1>. QED
  BY <1>3, <1>4, <1>7, <1>8, <1>9, <1>10, <1>11, <1>12
  DEF Next, Serve, StatFails, ParseFails, ParseFile, NewFileEnv, EvalExpr, CollectGarbage, Edit, vars, caches

\* What owns what, in configurations of handlers only, in which directives with the
\* same text name the same file.
THEOREM MemoryCorrect ==
  ASSUME OneFilePerKey, OnlyHandlers PROVE Spec => [](TypeInv /\ MemoryInv)
<1>1. Init => KeyInv
  BY Parts DEF Init, KeyInv, HandlerEntry, NoHandler
<1>. QED  BY <1>1, KeyStep, OwnerInit, OwnerStep, TypeCorrect, PTL DEF Spec, MemoryInv

\* Every R object that mod_R has preserved is preserved once and still in one of its
\* caches: PrepareFileExprs and PrepareHandlerExpr release what they replace.
THEOREM NothingLeaksCorrect ==
  ASSUME OneFilePerKey, OnlyHandlers PROVE Spec => []NothingLeaks
<1>1. TypeInv /\ MemoryInv => NothingLeaks
  <2>. SUFFICES ASSUME TypeInv, MemoryInv, NEW a \in Addresses, NEW s \in Slots, Pointer(s) = a
                PROVE  a \in Referenced
    BY DEF NothingLeaks, MemoryInv, OwnerInv
  <2>1. a # Null
    BY HandlerCacheAssumption DEF Addresses
  <2>2. ASSUME NEW f \in Files, a \in {FileEntry(f).exprs, FileEntry(f).envir} PROVE a \in Referenced
    <3>1. parsed[f] # Null /\ a \in {parsed[f].exprs, parsed[f].envir}
      BY <2>1, <2>2 DEF FileEntry, NoFile
    <3>. QED  BY <3>1 DEF Referenced
  <2>3. ASSUME NEW k \in Keys, a \in {HandlerEntry(k).expr, HandlerEntry(k).envir} PROVE a \in Referenced
    <3>1. handlers[k] # Null /\ a \in {handlers[k].expr, handlers[k].envir}
      BY <2>1, <2>3 DEF HandlerEntry, NoHandler
    <3>2. a \in UNION {{handlers[j].expr, handlers[j].envir} : j \in {i \in Keys : handlers[i] # Null}}
      BY <3>1
    <3>. QED  BY <3>2 DEF Referenced
  <2>. QED  BY <2>2, <2>3 DEF Slots, Pointer
<1>. QED  BY <1>1, MemoryCorrect, PTL

-----------------------------------------------------------------------------
(* What is in the objects that are owned.                                  *)

\* What a step leaves alone: the objects on the precious list, the entries of the
\* files, the calls of the handlers.
ObjectsKept == \A b \in Addresses : precious[b] > 0 => heap'[b] = heap[b]
FilesKept == \A f \in Files : FileEntry(f)' = FileEntry(f)
CallsKept == \A k \in Keys : HandlerEntry(k)'.expr = HandlerEntry(k).expr

\* Allocation takes an address that is not on the precious list.
LEMMA AllocKeeps ==
  ASSUME NEW a \in Allocatable, NEW obj, Alloc(a, obj)
  PROVE  ObjectsKept /\ a \in Addresses /\ heap'[a] = obj
<1>1. a \in Addresses /\ precious[a] = 0
  BY AllocatableIsFree
<1>. QED  BY <1>1 DEF Alloc, ObjectsKept

\* The steps that do not touch the cache of files.
LEMMA FilesUntouched ==
  ASSUME TypeInv,
         \/ \E rq \in Requests : GetHandlerFromRequest(rq)
         \/ NewHandlerEnv \/ StatFails \/ StatFile \/ ReuseFile \/ PrepareHandlerExpr \/ EvalExpr
         \/ CollectGarbage \/ (\E f \in Files : Edit(f)) \/ UNCHANGED vars
  PROVE  ObjectsKept /\ FilesKept
<1>1. ASSUME UNCHANGED memory PROVE ObjectsKept
  BY <1>1 DEF memory, ObjectsKept
<1>2. ASSUME UNCHANGED parsed PROVE FilesKept
  BY <1>2 DEF FilesKept, FileEntry
<1>3. CASE NewHandlerEnv
  BY <1>2, <1>3, AllocKeeps DEF NewHandlerEnv
<1>4. CASE StatFile
  <2>1. \E f : parsed' = [parsed EXCEPT ![f] = FileEntry(f)]
    BY <1>4 DEF StatFile, SetParsed, FileEntry
  <2>2. FilesKept
    BY <2>1, NullAssumption, Parts DEF FilesKept, FileEntry, TypeInv, TypeOK
  <2>. QED  BY <1>1, <1>4, <2>2 DEF StatFile
<1>5. CASE PrepareHandlerExpr
  <2>1. CASE UNCHANGED memory
    BY <1>1, <1>2, <1>5, <2>1 DEF PrepareHandlerExpr
  <2>2. CASE ParsePlain(precious)
    <3>1. ObjectsKept
      BY <2>2, AllocKeeps DEF ParsePlain, ObjectsKept
    <3>. QED  BY <1>2, <1>5, <3>1 DEF PrepareHandlerExpr
  <2>. QED  BY <1>5, <2>1, <2>2 DEF PrepareHandlerExpr
<1>6. CASE CollectGarbage
  <2>1. ObjectsKept
    BY <1>6 DEF CollectGarbage, ObjectsKept, TypeInv, TypeOK
  <2>. QED  BY <1>2, <1>6, <2>1 DEF CollectGarbage, caches
<1>. QED
  BY <1>1, <1>2, <1>3, <1>4, <1>5, <1>6
  DEF GetHandlerFromRequest, StatFails, ReuseFile, EvalExpr, Edit, vars, memory, caches

\* A version of the file is parsed, and its expressions go into the entry.
LEMMA ParseFileEffect ==
  ASSUME TypeInv, MemoryInv, ParseFile
  PROVE  /\ ObjectsKept
         /\ \E f \in Files, a \in Addresses :
              /\ f = cur.d.file
              /\ heap'[a] = [what |-> "exprs", version |-> disk[f].version, kind |-> disk[f].kind]
              /\ \A g \in Files : FileEntry(g)' =
                   IF g = f THEN [FileEntry(f) EXCEPT !.exprs = a, !.mtime = finfo.mtime] ELSE FileEntry(g)
<1>1. PICK f \in Files : f = cur.d.file
  BY Current DEF ParseFile, OfFile
<1>2. f = handler.parsedFile /\ parsed[f] \in FileEntries /\ parsed[f] = FileEntry(f)
  BY <1>1, Current, OwnEntry DEF ParseFile, OfFile, MemoryInv
<1>3. PICK a \in Allocatable :
        /\ Alloc(a, [what |-> "exprs", version |-> disk[f].version, kind |-> disk[f].kind])
        /\ parsed' = [parsed EXCEPT ![f] = [parsed[f] EXCEPT !.exprs = a, !.mtime = finfo.mtime]]
  BY <1>1, <1>2 DEF ParseFile, SetParsed, ParseResult
<1>4. a \in Addresses /\ a \in Pointers
  BY AllocatableIsFree
<1>5. [FileEntry(f) EXCEPT !.exprs = a, !.mtime = finfo.mtime] \in FileEntries
  BY <1>2, <1>4 DEF TypeInv, TypeOK, FileEntries
<1>6. \A g \in Files : FileEntry(g)' =
        IF g = f THEN [FileEntry(f) EXCEPT !.exprs = a, !.mtime = finfo.mtime] ELSE FileEntry(g)
  BY <1>2, <1>3, <1>5, WrittenEntries
<1>. DEFINE obj == [what |-> "exprs", version |-> disk[f].version, kind |-> disk[f].kind]
<1>7. ObjectsKept /\ heap'[a] = obj
  <2>1. Alloc(a, obj)
    BY <1>3
  <2>. HIDE DEF obj
  <2>. QED  BY <2>1, AllocKeeps
<1>. QED  BY <1>1, <1>4, <1>6, <1>7

\* The old expressions of the file are dropped.
LEMMA ParseFailsEffect ==
  ASSUME TypeInv, MemoryInv, ParseFails
  PROVE  \E f \in Files :
           /\ f = cur.d.file
           /\ \A g \in Files : FileEntry(g)' =
                IF g = f THEN [FileEntry(f) EXCEPT !.exprs = Null] ELSE FileEntry(g)
<1>1. PICK f \in Files : f = cur.d.file
  BY Current DEF ParseFails, OfFile
<1>2. f = handler.parsedFile /\ parsed[f] \in FileEntries /\ parsed[f] = FileEntry(f)
  BY <1>1, Current, OwnEntry DEF ParseFails, OfFile, MemoryInv
<1>3. [FileEntry(f) EXCEPT !.exprs = Null] \in FileEntries
  BY <1>2 DEF FileEntries, Pointers
<1>4. \A g \in Files : FileEntry(g)' = IF g = f THEN [FileEntry(f) EXCEPT !.exprs = Null] ELSE FileEntry(g)
  BY <1>1, <1>2, <1>3, WrittenEntries DEF ParseFails, SetParsed
<1>. QED  BY <1>1, <1>4

\* The file gets a new, empty environment.
LEMMA NewFileEnvEffect ==
  ASSUME TypeInv, MemoryInv, NewFileEnv
  PROVE  /\ ObjectsKept
         /\ \E f \in Files, a \in Addresses :
              /\ f = cur.d.file /\ heap'[a] = NewEnv
              /\ \A g \in Files : FileEntry(g)' =
                   IF g = f THEN [FileEntry(f) EXCEPT !.envir = a] ELSE FileEntry(g)
<1>1. PICK f \in Files : f = cur.d.file
  BY Current DEF NewFileEnv, OfFile
<1>2. f = handler.parsedFile /\ parsed[f] \in FileEntries /\ parsed[f] = FileEntry(f)
  BY <1>1, Current, OwnEntry DEF NewFileEnv, OfFile, MemoryInv
<1>3. PICK a \in Allocatable :
        Alloc(a, NewEnv) /\ parsed' = [parsed EXCEPT ![f] = [parsed[f] EXCEPT !.envir = a]]
  BY <1>2 DEF NewFileEnv, SetParsed
<1>4. a \in Addresses /\ a \in Pointers
  BY AllocatableIsFree
<1>5. [FileEntry(f) EXCEPT !.envir = a] \in FileEntries
  BY <1>2, <1>4 DEF FileEntries
<1>6. \A g \in Files : FileEntry(g)' = IF g = f THEN [FileEntry(f) EXCEPT !.envir = a] ELSE FileEntry(g)
  BY <1>2, <1>3, <1>5, WrittenEntries
<1>. QED  BY <1>1, <1>3, <1>4, <1>6, AllocKeeps

\* The expressions of the file are evaluated in its environment.
LEMMA EvalFileEffect ==
  ASSUME TypeInv, MemoryInv, EvalFile
  PROVE  /\ FilesKept
         /\ \E f \in Files :
              /\ f = cur.d.file /\ FileEntry(f).exprs # Null /\ FileEntry(f).envir # Null
              /\ FileEntry(f).envir \in Addresses
              /\ heap[FileEntry(f).exprs] \in FileExprs
              /\ heap' = [heap EXCEPT ![FileEntry(f).envir] =
                   [what |-> "env", version |-> heap[FileEntry(f).exprs].version,
                    kind |-> heap[FileEntry(f).exprs].kind]]
<1>1. PICK f \in Files : f = cur.d.file
  BY Current DEF EvalFile, OfFile
<1>2. f = handler.parsedFile /\ parsed[f] = FileEntry(f)
  BY <1>1, Current, OwnEntry DEF EvalFile, OfFile, MemoryInv
<1>3. FileEntry(f).exprs # Null /\ FileEntry(f).envir # Null
  BY <1>1, <1>2 DEF EvalFile, TypeInv, PathInv
<1>4. FileEntry(f).exprs \in Addresses /\ FileEntry(f).envir \in Addresses
  BY <1>3, Owners
<1>5. heap[FileEntry(f).exprs] \in FileExprs
  BY <1>1, <1>2, <1>4 DEF EvalFile, TypeInv, TypeOK, HandlerExpr, Environment, Gone
<1>6. FilesKept
  BY DEF EvalFile, FilesKept, FileEntry
<1>. QED  BY <1>1, <1>2, <1>3, <1>4, <1>5, <1>6 DEF EvalFile

\* The steps that do not touch the calls of the handlers.
LEMMA CallsUntouched ==
  ASSUME TypeInv,
         \/ \E rq \in Requests : GetHandlerFromRequest(rq)
         \/ NewHandlerEnv \/ StatFails \/ StatFile \/ ParseFails \/ ParseFile \/ ReuseFile \/ NewFileEnv
         \/ EvalFile \/ EvalExpr \/ CollectGarbage \/ (\E f \in Files : Edit(f)) \/ UNCHANGED vars
  PROVE  CallsKept
<1>1. CASE UNCHANGED handlers
  BY <1>1 DEF CallsKept, HandlerEntry
<1>2. CASE \E rq \in Requests : GetHandlerFromRequest(rq)
  BY <1>2 DEF GetHandlerFromRequest, CacheKey, CallsKept, HandlerEntry, TypeInv, TypeOK
<1>3. ASSUME pc # "idle", NEW x \in Pointers,
             handlers' = [handlers EXCEPT ![cur.d.key] = [handler EXCEPT !.envir = x]]
      PROVE  CallsKept
  <2>. DEFINE h == [handler EXCEPT !.envir = x]
  <2>1. handler \in HandlerEntries /\ handler = HandlerEntry(cur.d.key) /\ cur.d.key \in Keys
    BY <1>3, Current
  <2>2. h \in HandlerEntries /\ h.expr = handler.expr
    BY <2>1 DEF HandlerEntries
  <2>3. \A j \in Keys : HandlerEntry(j)' = IF j = cur.d.key THEN h ELSE HandlerEntry(j)
    BY <1>3, <2>1, <2>2, WrittenEntries
  <2>. HIDE DEF h
  <2>. QED  BY <2>1, <2>2, <2>3 DEF CallsKept
<1>4. CASE StatFile
  <2>. DEFINE f == IF handler.parsedFile # Null THEN handler.parsedFile ELSE cur.d.file
              h == [handler EXCEPT !.parsedFile = f]
  <2>1. handler \in HandlerEntries /\ handler = HandlerEntry(cur.d.key) /\ cur.d.key \in Keys /\ f \in Files
    BY <1>4, Serving, Current DEF StatFile, TypeInv, PathInv
  <2>2. h \in HandlerEntries /\ h.expr = handler.expr
    <3>. HIDE DEF f
    <3>. QED  BY <2>1 DEF HandlerEntries
  <2>4. handlers' = [handlers EXCEPT ![cur.d.key] = h]
    BY <1>4 DEF StatFile, SetHandler, CacheKey
  <2>3. \A j \in Keys : HandlerEntry(j)' = IF j = cur.d.key THEN h ELSE HandlerEntry(j)
    <3>. HIDE DEF h
    <3>. QED  BY <2>1, <2>2, <2>4, WrittenEntries
  <2>. HIDE DEF h
  <2>. QED  BY <2>1, <2>2, <2>3 DEF CallsKept
<1>5. CASE NewHandlerEnv
  BY <1>3, <1>5, AllocatableIsFree DEF NewHandlerEnv, SetHandler, CacheKey
<1>6. CASE ReuseFile \/ EvalFile
  <2>1. parsed[handler.parsedFile].envir \in Pointers /\ pc # "idle"
    BY <1>6, Current DEF ReuseFile, EvalFile, OfFile, FileEntries
  <2>. QED  BY <1>1, <1>3, <1>6, <2>1 DEF ReuseFile, EvalFile, SetHandler, CacheKey
<1>. QED
  BY <1>1, <1>2, <1>4, <1>5, <1>6
  DEF StatFails, ParseFails, ParseFile, NewFileEnv, EvalExpr, CollectGarbage, Edit, vars, caches

\* PrepareHandlerExpr leaves the calls alone, or gives the handler its own.
LEMMA PrepareEffect ==
  ASSUME TypeInv, PrepareHandlerExpr
  PROVE  \/ CallsKept
         \/ \E k \in Keys, a \in Addresses :
              /\ k = cur.d.key
              /\ heap'[a] = [what |-> "expr", expr |-> PlainExpr(cur.d)]
              /\ HandlerEntry(k)'.expr = a
              /\ \A j \in Keys : j # k => HandlerEntry(j)' = HandlerEntry(j)
<1>0. PICK k \in Keys : k = cur.d.key
  BY Current DEF PrepareHandlerExpr
<1>1. handler \in HandlerEntries /\ handler = HandlerEntry(k)
  BY <1>0, Current DEF PrepareHandlerExpr
<1>2. CASE UNCHANGED handlers
  BY <1>2, WrittenEntries DEF CallsKept
<1>3. CASE handler.expr = Null /\ SetHandler([handler EXCEPT !.expr = Null])
  <2>1. [handler EXCEPT !.expr = Null] = handler
    BY <1>1, <1>3 DEF HandlerEntries
  <2>2. \A j \in Keys : HandlerEntry(j)' = HandlerEntry(j)
    BY <1>0, <1>1, <1>3, <2>1, WrittenEntries DEF SetHandler, CacheKey
  <2>. QED  BY <2>2 DEF CallsKept
<1>4. ASSUME NEW a \in Allocatable, Alloc(a, [what |-> "expr", expr |-> PlainExpr(cur.d)]),
             SetHandler([handler EXCEPT !.expr = a])
      PROVE  /\ a \in Addresses
             /\ heap'[a] = [what |-> "expr", expr |-> PlainExpr(cur.d)]
             /\ HandlerEntry(k)'.expr = a
             /\ \A j \in Keys : j # k => HandlerEntry(j)' = HandlerEntry(j)
  <2>1. a \in Addresses /\ a \in Pointers
    BY AllocatableIsFree
  <2>2. [handler EXCEPT !.expr = a] \in HandlerEntries /\ [handler EXCEPT !.expr = a].expr = a
    BY <1>1, <2>1 DEF HandlerEntries
  <2>3. \A j \in Keys : HandlerEntry(j)' = IF j = k THEN [handler EXCEPT !.expr = a] ELSE HandlerEntry(j)
    BY <1>0, <1>4, <2>2, WrittenEntries DEF SetHandler, CacheKey
  <2>. DEFINE obj == [what |-> "expr", expr |-> PlainExpr(cur.d)]
  <2>4. heap'[a] = obj
    <3>1. Alloc(a, obj)
      BY <1>4
    <3>. HIDE DEF obj
    <3>. QED  BY <3>1, AllocKeeps
  <2>. QED  BY <2>1, <2>2, <2>3, <2>4
<1>. QED  BY <1>0, <1>2, <1>3, <1>4 DEF PrepareHandlerExpr, ParsePlain

\* Every step keeps what is in them.
LEMMA HeapStep ==
  ASSUME OneFilePerKey, OnlyHandlers
  PROVE  TypeInv /\ MemoryInv /\ HeapInv /\ [Next]_vars => HeapInv'
<1>. SUFFICES ASSUME TypeInv, MemoryInv, HeapInv, [Next]_vars PROVE HeapInv'
  OBVIOUS
<1>. DEFINE FileOK(f) ==
              /\ FileEntry(f).exprs # Null => heap[FileEntry(f).exprs] \in FileExprs
              /\ FileEntry(f).envir # Null => heap[FileEntry(f).envir] \in Environment
            CallOK(k) == HandlerEntry(k).expr # Null =>
              \E d \in Directives :
                d.key = k /\ heap[HandlerEntry(k).expr] = [what |-> "expr", expr |-> PlainExpr(d)]
<1>1. (\A f \in Files : FileOK(f)) /\ (\A k \in Keys : CallOK(k))
  BY DEF HeapInv
<1>2. ASSUME ObjectsKept, FilesKept PROVE \A f \in Files : FileOK(f)'
  BY <1>1, <1>2, Owners DEF ObjectsKept, FilesKept
<1>3. ASSUME ObjectsKept, CallsKept PROVE \A k \in Keys : CallOK(k)'
  BY <1>1, <1>3, Owners DEF ObjectsKept, CallsKept
<1>4. CASE \/ \E rq \in Requests : GetHandlerFromRequest(rq)
           \/ NewHandlerEnv \/ StatFails \/ StatFile \/ ReuseFile \/ EvalExpr
           \/ CollectGarbage \/ (\E f \in Files : Edit(f)) \/ UNCHANGED vars
  <2>1. ObjectsKept /\ FilesKept
    BY <1>4, FilesUntouched
  <2>2. CallsKept
    BY <1>4, CallsUntouched
  <2>. QED  BY <1>2, <1>3, <2>1, <2>2 DEF HeapInv
<1>5. CASE ParseFails
  <2>1. ObjectsKept
    BY <1>5 DEF ParseFails, ObjectsKept
  <2>2. CallsKept
    BY <1>5, CallsUntouched
  <2>3. PICK f \in Files : \A g \in Files : FileEntry(g)' =
          IF g = f THEN [FileEntry(f) EXCEPT !.exprs = Null] ELSE FileEntry(g)
    BY <1>5, ParseFailsEffect
  <2>4. FileEntry(f) \in FileEntries
    BY PointerType
  <2>5. ASSUME NEW g \in Files PROVE FileOK(g)'
    <3>1. FileEntry(g)'.exprs \in {Null, FileEntry(g).exprs} /\ FileEntry(g)'.envir = FileEntry(g).envir
      BY <2>3, <2>4 DEF FileEntries
    <3>. QED  BY <1>1, <2>1, <3>1, Owners DEF ObjectsKept
  <2>. QED  BY <1>3, <2>1, <2>2, <2>5 DEF HeapInv
<1>6. CASE ParseFile
  <2>1. CallsKept
    BY <1>6, CallsUntouched
  <2>2. ObjectsKept
    BY <1>6, ParseFileEffect
  <2>3. PICK f \in Files, a \in Addresses :
          /\ heap'[a] = [what |-> "exprs", version |-> disk[f].version, kind |-> disk[f].kind]
          /\ \A g \in Files : FileEntry(g)' =
               IF g = f THEN [FileEntry(f) EXCEPT !.exprs = a, !.mtime = finfo.mtime] ELSE FileEntry(g)
    BY <1>6, ParseFileEffect
  <2>4. FileEntry(f) \in FileEntries
    BY PointerType
  <2>5. heap'[a] \in FileExprs
    BY <2>3 DEF FileExprs, TypeInv, TypeOK
  <2>6. ASSUME NEW g \in Files PROVE FileOK(g)'
    <3>1. FileEntry(g)'.exprs \in {a, FileEntry(g).exprs} /\ FileEntry(g)'.envir = FileEntry(g).envir
      BY <2>3, <2>4 DEF FileEntries
    <3>. QED  BY <1>1, <2>2, <2>5, <3>1, Owners DEF ObjectsKept
  <2>. QED  BY <1>3, <2>1, <2>2, <2>6 DEF HeapInv
<1>7. CASE NewFileEnv
  <2>1. CallsKept
    BY <1>7, CallsUntouched
  <2>2. ObjectsKept
    BY <1>7, NewFileEnvEffect
  <2>3. PICK f \in Files, a \in Addresses :
          /\ heap'[a] = NewEnv
          /\ \A g \in Files : FileEntry(g)' =
               IF g = f THEN [FileEntry(f) EXCEPT !.envir = a] ELSE FileEntry(g)
    BY <1>7, NewFileEnvEffect
  <2>4. FileEntry(f) \in FileEntries
    BY PointerType
  <2>5. heap'[a] \in Environment
    BY <2>3, Parts
  <2>6. ASSUME NEW g \in Files PROVE FileOK(g)'
    <3>1. FileEntry(g)'.envir \in {a, FileEntry(g).envir} /\ FileEntry(g)'.exprs = FileEntry(g).exprs
      BY <2>3, <2>4 DEF FileEntries
    <3>. QED  BY <1>1, <2>2, <2>5, <3>1, Owners DEF ObjectsKept
  <2>. QED  BY <1>3, <2>1, <2>2, <2>6 DEF HeapInv
<1>8. CASE EvalFile
  <2>1. FilesKept
    BY <1>8, EvalFileEffect
  <2>2. CallsKept
    BY <1>8, CallsUntouched
  <2>3. PICK f \in Files :
          /\ FileEntry(f).envir # Null /\ FileEntry(f).envir \in Addresses
          /\ heap[FileEntry(f).exprs] \in FileExprs
          /\ heap' = [heap EXCEPT ![FileEntry(f).envir] =
               [what |-> "env", version |-> heap[FileEntry(f).exprs].version,
                kind |-> heap[FileEntry(f).exprs].kind]]
    BY <1>8, EvalFileEffect
  <2>4. heap'[FileEntry(f).envir] \in Environment
    BY <2>3, HandlerCacheAssumption DEF Environment, FileExprs, Versions, TypeInv, TypeOK
  <2>5. \A b \in Addresses : b # FileEntry(f).envir => heap'[b] = heap[b]
    BY <2>3 DEF TypeInv, TypeOK
  <2>6. ASSUME NEW g \in Files PROVE FileOK(g)'
    <3>1. FileEntry(g)' = FileEntry(g)
      BY <2>1 DEF FilesKept
    <3>. QED  BY <1>1, <2>3, <2>4, <2>5, <3>1, Owners
  <2>7. ASSUME NEW k \in Keys PROVE CallOK(k)'
    <3>1. HandlerEntry(k)'.expr = HandlerEntry(k).expr
      BY <2>2 DEF CallsKept
    <3>. QED  BY <1>1, <2>3, <2>5, <3>1, Owners
  <2>. QED  BY <2>6, <2>7 DEF HeapInv
<1>9. CASE PrepareHandlerExpr
  <2>1. ObjectsKept /\ FilesKept
    BY <1>9, FilesUntouched
  <2>2. cur.d \in Directives
    BY <1>9, Current DEF PrepareHandlerExpr
  <2>3. ASSUME NEW k \in Keys, NEW a \in Addresses, k = cur.d.key,
               heap'[a] = [what |-> "expr", expr |-> PlainExpr(cur.d)],
               HandlerEntry(k)'.expr = a,
               \A j \in Keys : j # k => HandlerEntry(j)' = HandlerEntry(j),
               NEW j \in Keys
        PROVE  CallOK(j)'
    <3>1. CASE j = k
      BY <2>2, <2>3, <3>1
    <3>2. CASE j # k
      <4>1. HandlerEntry(j)'.expr = HandlerEntry(j).expr
        BY <2>3, <3>2
      <4>2. HandlerEntry(j).expr # Null => heap'[HandlerEntry(j).expr] = heap[HandlerEntry(j).expr]
        BY <2>1, Owners DEF ObjectsKept
      <4>. QED  BY <1>1, <4>1, <4>2
    <3>. QED  BY <3>1, <3>2
  <2>. QED  BY <1>2, <1>3, <1>9, <2>1, <2>3, PrepareEffect DEF HeapInv
<1>10. CASE PrepareScriptExpr
  BY <1>10, Current DEF PrepareScriptExpr, OnlyHandlers, Requests
<1>11. CASE Crash
  BY <1>11 DEF Crash, HeapInv, FileEntry, HandlerEntry, NoFile, NoHandler
<1>. QED
  BY <1>4, <1>5, <1>6, <1>7, <1>8, <1>9, <1>10, <1>11 DEF Next, Serve

\* What the objects are, under the same hypotheses.
THEOREM HeapCorrect ==
  ASSUME OneFilePerKey, OnlyHandlers PROVE Spec => []HeapInv
<1>1. Init => HeapInv
  BY Parts DEF Init, HeapInv, FileEntry, HandlerEntry, NoFile, NoHandler
<1>. QED  BY <1>1, HeapStep, MemoryCorrect, PTL DEF Spec

\* The expression that is evaluated for a request (EvalExprs of h->expr) was parsed for
\* a directive with the text of its own, whatever earlier requests, replacements and
\* collections left in the caches.
THEOREM ExpressionOfKeyCorrect ==
  ASSUME OneFilePerKey, OnlyHandlers PROVE Spec => []ExpressionOfKey
<1>1. TypeInv /\ HeapInv => ExpressionOfKey
  <2>. SUFFICES ASSUME TypeInv, HeapInv, pc = "evalexpr", handler.expr # Null
                PROVE  \E d \in Directives : d.key = cur.d.key /\
                         heap[handler.expr] = [what |-> "expr", expr |-> PlainExpr(d)]
    BY DEF ExpressionOfKey
  <2>1. handler = HandlerEntry(cur.d.key) /\ cur.d.key \in Keys
    BY Current
  <2>. QED  BY <2>1 DEF HeapInv
<1>. QED  BY <1>1, TypeCorrect, HeapCorrect, PTL

\* A directive whose text no other directive has is served its own expression.
THEOREM OwnExpressionCorrect ==
  ASSUME OneFilePerKey, OnlyHandlers
  PROVE  Spec => [](pc = "evalexpr" /\ (\A d \in Directives : d.key = cur.d.key => d = cur.d)
                    => OwnExpression)
<1>1. TypeInv /\ ExpressionOfKey =>
        (pc = "evalexpr" /\ (\A d \in Directives : d.key = cur.d.key => d = cur.d) => OwnExpression)
  <2>. SUFFICES ASSUME TypeInv, ExpressionOfKey, pc = "evalexpr",
                       \A d \in Directives : d.key = cur.d.key => d = cur.d,
                       handler.expr # Null, heap[handler.expr] # Gone
                PROVE  heap[handler.expr] = [what |-> "expr", expr |-> Wanted(cur)]
    BY DEF OwnExpression
  <2>1. cur.type # "r-script"
    BY Current DEF OnlyHandlers, Requests
  <2>. QED  BY <2>1 DEF ExpressionOfKey, Wanted
<1>. QED  BY <1>1, TypeCorrect, ExpressionOfKeyCorrect, PTL

-----------------------------------------------------------------------------
(* How old the code of a file may be.                                      *)

\* Every step keeps the ages, when an edit gives a file a later time.
LEMMA AgeStep ==
  ASSUME OneFilePerKey, OnlyHandlers, Monotone
  PROVE  TypeInv /\ MemoryInv /\ HeapInv /\ AgeInv /\ [Next]_vars => AgeInv'
<1>. SUFFICES ASSUME TypeInv, MemoryInv, HeapInv, AgeInv, [Next]_vars, NEW f \in Files
              PROVE  EntryAge(f)' /\ RequestAge(f)'
  BY DEF AgeInv
<1>. USE HandlerCacheAssumption
<1>1. /\ EntryAge(f) /\ RequestAge(f) /\ FileEntry(f) \in FileEntries
      /\ disk[f] \in [version : Versions, kind : Kinds, mtime : Versions]
      /\ finfo \in [mtime : 0..MaxVersion, version : 0..MaxVersion]
  BY PointerType DEF AgeInv, TypeInv, TypeOK
<1>3. CASE \/ \E rq \in Requests : GetHandlerFromRequest(rq)
           \/ NewHandlerEnv \/ StatFails \/ ReuseFile \/ PrepareHandlerExpr \/ EvalExpr
           \/ CollectGarbage \/ UNCHANGED vars
  <2>1. ObjectsKept /\ FilesKept
    BY <1>3, FilesUntouched
  <2>2. FileEntry(f)' = FileEntry(f)
    BY <2>1 DEF FilesKept
  <2>3. disk' = disk
    BY <1>3 DEF GetHandlerFromRequest, NewHandlerEnv, StatFails, ReuseFile, PrepareHandlerExpr, EvalExpr,
                CollectGarbage, vars
  <2>4. ExprsFrom(f, disk[f].version) => ExprsFrom(f, disk[f].version)'
    BY <2>1, <2>2, <2>3, Owners DEF ObjectsKept, ExprsFrom
  <2>5. EnvirFrom(f, disk[f].version) => EnvirFrom(f, disk[f].version)'
    BY <2>1, <2>2, <2>3, Owners DEF ObjectsKept, EnvirFrom
  <2>6. \/ pc' \in {"idle", "stat", "newenv"}
        \/ /\ UNCHANGED <<cur, finfo, fileParsed>>
           /\ \/ pc' = pc
              \/ pc' = "evalexpr" /\ pc = "expr"
              \/ pc' = "expr" /\ pc = "newenv"
              \/ pc' = "expr" /\ pc = "file" /\ ~fileParsed
    BY <1>3 DEF GetHandlerFromRequest, NewHandlerEnv, StatFails, ReuseFile, PrepareHandlerExpr, ParsePlain,
                EvalExpr, EndRequest, CollectGarbage, vars
  <2>7. Evaluating(f) => Evaluating(f)'
    BY <1>3 DEF Evaluating, At, GetHandlerFromRequest, NewHandlerEnv, StatFails, ReuseFile,
                PrepareHandlerExpr, ParsePlain, EvalExpr, EndRequest, CollectGarbage, vars
  <2>8. EntryAge(f)'
    BY <1>1, <2>2, <2>3, <2>4, <2>5, <2>7 DEF EntryAge
  <2>9. RequestAge(f)'
    <3>1. CASE pc' \in {"idle", "stat", "newenv"}
      BY <3>1 DEF RequestAge, At
    <3>2. CASE UNCHANGED <<cur, finfo, fileParsed>> /\ pc = "newenv"
      <4>1. cur.d.file = Null /\ f # Null
        BY <3>2 DEF TypeInv, PathInv
      <4>. QED  BY <3>2, <4>1 DEF RequestAge, At
    <3>. QED  BY <1>1, <2>1, <2>2, <2>3, <2>6, <3>1, <3>2, Owners DEF RequestAge, At, ObjectsKept, ExprsFrom, EnvirFrom
  <2>. QED  BY <2>8, <2>9
<1>4. CASE StatFile
  <2>1. ObjectsKept /\ FilesKept /\ disk' = disk /\ cur' = cur
    BY <1>4, FilesUntouched DEF StatFile
  <2>2. FileEntry(f)' = FileEntry(f)
    BY <2>1 DEF FilesKept
  <2>3. ~Evaluating(f)
    BY <1>4 DEF StatFile, Evaluating, At
  <2>4. EntryAge(f)'
    BY <1>1, <2>1, <2>2, <2>3, Owners DEF EntryAge, ObjectsKept, ExprsFrom, EnvirFrom
  <2>5. ASSUME cur.d.file = f
        PROVE  /\ finfo' = [mtime |-> disk[f].mtime, version |-> disk[f].version]
               /\ fileParsed' <=> FileEntry(f).mtime < disk[f].mtime
               /\ pc' = IF fileParsed' THEN "parse" ELSE "file"
    <3>1. handler.parsedFile \in {Null, f}
      BY <1>4, <2>5, Current DEF StatFile, MemoryInv, KeyInv
    <3>. QED  BY <1>4, <2>5, <3>1 DEF StatFile, FileEntry, Stale
  <2>6. RequestAge(f)'
    <3>1. CASE cur.d.file = f /\ fileParsed'
      BY <1>1, <2>1, <2>2, <2>5, <3>1 DEF RequestAge, At, Versions
    <3>2. CASE cur.d.file = f /\ ~fileParsed'
      <4>1. FileEntry(f).mtime = disk[f].mtime
        BY <1>1, <2>5, <3>2 DEF EntryAge, Versions, FileEntries
      <4>2. ExprsFrom(f, disk[f].version) /\ EnvirFrom(f, disk[f].version)
        BY <1>1, <2>3, <4>1 DEF EntryAge
      <4>3. heap'[FileEntry(f).exprs] = heap[FileEntry(f).exprs] /\ heap'[FileEntry(f).envir] = heap[FileEntry(f).envir]
        BY <2>1, <4>2, Owners DEF ObjectsKept, ExprsFrom, EnvirFrom
      <4>. QED  BY <1>1, <2>1, <2>2, <2>5, <3>2, <4>2, <4>3 DEF RequestAge, At, ExprsFrom, EnvirFrom, Versions
    <3>3. CASE cur.d.file # f
      BY <2>1, <3>3 DEF RequestAge, At
    <3>. QED  BY <3>1, <3>2, <3>3
  <2>. QED  BY <2>4, <2>6
<1>5. CASE ParseFails
  <2>1. ObjectsKept /\ disk' = disk /\ pc' = "idle" /\ pc = "parse"
    BY <1>5 DEF ParseFails, EndRequest, ObjectsKept
  <2>2. PICK g \in Files : g = cur.d.file /\
          FileEntry(f)' = IF f = g THEN [FileEntry(g) EXCEPT !.exprs = Null] ELSE FileEntry(f)
    BY <1>5, ParseFailsEffect
  <2>3. ~Evaluating(f)
    BY <2>1 DEF Evaluating, At
  <2>4. CASE f = g
    <3>1. FileEntry(f)'.mtime = FileEntry(f).mtime
      BY <1>1, <2>2, <2>4 DEF FileEntries
    <3>2. FileEntry(f).mtime < disk[f].mtime
      BY <1>1, <2>1, <2>2, <2>4 DEF RequestAge, At, FileEntries, Versions
    <3>3. EntryAge(f)'
      BY <1>1, <2>1, <3>1, <3>2 DEF EntryAge, FileEntries, Versions
    <3>. QED  BY <2>1, <3>3 DEF RequestAge, At
  <2>5. CASE f # g
    <3>1. EntryAge(f)'
      BY <1>1, <2>1, <2>2, <2>3, <2>5, Owners DEF EntryAge, ObjectsKept, ExprsFrom, EnvirFrom
    <3>. QED  BY <2>1, <3>1 DEF RequestAge, At
  <2>. QED  BY <2>4, <2>5
<1>6. CASE ParseFile
  <2>1. /\ ObjectsKept /\ disk' = disk /\ pc = "parse" /\ pc' = "file"
        /\ cur' = cur /\ finfo' = finfo /\ fileParsed' = fileParsed
    BY <1>6, ParseFileEffect DEF ParseFile
  <2>2. PICK g \in Files, a \in Addresses :
          /\ g = cur.d.file
          /\ heap'[a] = [what |-> "exprs", version |-> disk[g].version, kind |-> disk[g].kind]
          /\ FileEntry(f)' =
               IF f = g THEN [FileEntry(g) EXCEPT !.exprs = a, !.mtime = finfo.mtime] ELSE FileEntry(f)
    BY <1>6, ParseFileEffect
  <2>3. ~Evaluating(f)
    BY <2>1 DEF Evaluating, At
  <2>4. CASE f = g
    <3>1. FileEntry(f)'.exprs = a /\ FileEntry(f)'.mtime = finfo.mtime /\ a # Null
      BY <1>1, <2>2, <2>4 DEF FileEntries, Addresses
    <3>2. heap'[a].version = disk[f].version
      BY <2>2, <2>4
    <3>3. /\ fileParsed /\ finfo.mtime <= disk[f].mtime /\ finfo.version <= disk[f].version
          /\ finfo.mtime = disk[f].mtime => finfo.version = disk[f].version
      BY <1>1, <2>1, <2>2, <2>4 DEF RequestAge, At
    <3>4. EntryAge(f)'
      BY <1>1, <2>1, <2>2, <2>4, <3>1, <3>2, <3>3 DEF EntryAge, ExprsFrom, Evaluating, At, Versions
    <3>5. RequestAge(f)'
      BY <1>1, <2>1, <2>2, <2>4, <3>1, <3>2, <3>3 DEF RequestAge, ExprsFrom, At, Versions
    <3>. QED  BY <3>4, <3>5
  <2>5. CASE f # g
    <3>1. EntryAge(f)'
      BY <1>1, <2>1, <2>2, <2>3, <2>5, Owners DEF EntryAge, ObjectsKept, ExprsFrom, EnvirFrom
    <3>. QED  BY <2>1, <2>2, <2>5, <3>1 DEF RequestAge, At
  <2>. QED  BY <2>4, <2>5
<1>7. CASE NewFileEnv
  <2>1. /\ ObjectsKept /\ disk' = disk /\ pc = "file" /\ pc' = "evalfile"
        /\ cur' = cur /\ finfo' = finfo /\ fileParsed' = fileParsed
    BY <1>7, NewFileEnvEffect DEF NewFileEnv
  <2>2. PICK g \in Files, a \in Addresses :
          /\ g = cur.d.file
          /\ FileEntry(f)' = IF f = g THEN [FileEntry(g) EXCEPT !.envir = a] ELSE FileEntry(f)
    BY <1>7, NewFileEnvEffect
  <2>3. CASE f = g
    <3>1. FileEntry(f)'.exprs = FileEntry(f).exprs /\ FileEntry(f)'.mtime = FileEntry(f).mtime
      BY <1>1, <2>2, <2>3 DEF FileEntries
    <3>2. EntryAge(f)'
      BY <1>1, <2>1, <2>2, <2>3, <3>1, Owners DEF EntryAge, ObjectsKept, ExprsFrom, Evaluating, At
    <3>3. RequestAge(f)'
      BY <1>1, <2>1, <2>2, <2>3, <3>1, Owners DEF RequestAge, ObjectsKept, ExprsFrom, At
    <3>. QED  BY <3>2, <3>3
  <2>4. CASE f # g
    <3>1. ~Evaluating(f)
      BY <2>2, <2>4 DEF Evaluating, At
    <3>2. EntryAge(f)'
      BY <1>1, <2>1, <2>2, <2>4, <3>1, Owners DEF EntryAge, ObjectsKept, ExprsFrom, EnvirFrom
    <3>. QED  BY <2>1, <2>2, <2>4, <3>2 DEF RequestAge, At
  <2>. QED  BY <2>3, <2>4
<1>8. CASE EvalFile
  <2>1. /\ disk' = disk /\ pc = "evalfile"
        /\ pc' = "idle" \/ (pc' = "expr" /\ cur' = cur /\ finfo' = finfo /\ fileParsed' = fileParsed)
    BY <1>8 DEF EvalFile, EndRequest
  <2>2. FileEntry(f)' = FileEntry(f)
    BY <1>8, EvalFileEffect DEF FilesKept
  <2>3. PICK g \in Files :
          /\ g = cur.d.file /\ FileEntry(g).exprs # Null
          /\ FileEntry(g).envir # Null /\ FileEntry(g).envir \in Addresses
          /\ heap' = [heap EXCEPT ![FileEntry(g).envir] =
               [what |-> "env", version |-> heap[FileEntry(g).exprs].version,
                kind |-> heap[FileEntry(g).exprs].kind]]
    BY <1>8, EvalFileEffect
  <2>4. \A b \in Addresses : b # FileEntry(g).envir => heap'[b] = heap[b]
    BY <2>3 DEF TypeInv, TypeOK
  <2>5. heap'[FileEntry(g).envir].version = heap[FileEntry(g).exprs].version
    BY <2>3 DEF TypeInv, TypeOK
  <2>6. FileEntry(f).exprs # Null => heap'[FileEntry(f).exprs] = heap[FileEntry(f).exprs]
    BY <2>3, <2>4, Owners
  <2>7. CASE f = g
    <3>1. EntryAge(f)'
      BY <1>1, <2>1, <2>2, <2>3, <2>5, <2>6, <2>7 DEF EntryAge, ExprsFrom, EnvirFrom
    <3>2. RequestAge(f)'
      BY <1>1, <2>1, <2>2, <2>3, <2>5, <2>6, <2>7 DEF RequestAge, At, ExprsFrom, EnvirFrom
    <3>. QED  BY <3>1, <3>2
  <2>8. CASE f # g
    <3>1. FileEntry(f).envir # Null => heap'[FileEntry(f).envir] = heap[FileEntry(f).envir]
      BY <2>3, <2>4, <2>8, Owners
    <3>2. ~Evaluating(f)
      BY <2>1, <2>3, <2>8 DEF Evaluating, At
    <3>3. EntryAge(f)'
      BY <1>1, <2>1, <2>2, <2>6, <3>1, <3>2 DEF EntryAge, ExprsFrom, EnvirFrom
    <3>. QED  BY <2>1, <2>3, <2>8, <3>3 DEF RequestAge, At
  <2>. QED  BY <2>7, <2>8
<1>9. ASSUME NEW g \in Files, Edit(g) PROVE EntryAge(f)' /\ RequestAge(f)'
  <2>1. /\ heap' = heap /\ pc' = pc /\ cur' = cur /\ finfo' = finfo /\ fileParsed' = fileParsed
        /\ FileEntry(f)' = FileEntry(f)
    BY <1>9 DEF Edit, caches, memory, FileEntry
  <2>2. CASE f = g
    <3>1. disk'[f].mtime > disk[f].mtime /\ disk'[f].version = disk[f].version + 1
      BY <1>9, <2>2 DEF Edit, TypeInv, TypeOK
    <3>2. disk'[f].mtime \in Int /\ disk'[f].version \in Int
      BY <1>9, <2>2 DEF Edit, TypeInv, TypeOK, Versions
    <3>3. EntryAge(f)'
      BY <1>1, <2>1, <3>1, <3>2 DEF EntryAge, FileEntries, Versions
    <3>4. RequestAge(f)'
      BY <1>1, <2>1, <3>1, <3>2 DEF RequestAge, At, ExprsFrom, EnvirFrom, Versions
    <3>. QED  BY <3>3, <3>4
  <2>3. CASE f # g
    <3>1. disk'[f] = disk[f]
      BY <1>9, <2>3 DEF Edit, TypeInv, TypeOK
    <3>. QED  BY <1>1, <2>1, <3>1 DEF EntryAge, RequestAge, At, ExprsFrom, EnvirFrom, Evaluating
  <2>. QED  BY <2>2, <2>3
<1>10. CASE PrepareScriptExpr
  BY <1>10, Current DEF PrepareScriptExpr, OnlyHandlers, Requests
<1>11. CASE Crash
  <2>1. FileEntry(f)'.mtime = 0 /\ disk' = disk /\ pc' = "idle"
    BY <1>11 DEF Crash, FileEntry, NoFile, EndRequest
  <2>. QED  BY <1>1, <2>1 DEF EntryAge, RequestAge, At, Versions
<1>. QED
  BY <1>3, <1>4, <1>5, <1>6, <1>7, <1>8, <1>9, <1>10, <1>11 DEF Next, Serve

\* The ages of the entries, under the same hypotheses and a clock that never gives an
\* edit an old time.
THEOREM AgeCorrect ==
  ASSUME OneFilePerKey, OnlyHandlers, Monotone PROVE Spec => []AgeInv
<1>1. Init => AgeInv
  <2>. SUFFICES ASSUME Init, NEW f \in Files PROVE EntryAge(f) /\ RequestAge(f)
    BY DEF AgeInv
  <2>1. FileEntry(f).mtime = 0 /\ disk[f].mtime = 1 /\ pc = "idle"
    BY DEF Init, FileEntry, NoFile
  <2>. QED  BY <2>1 DEF EntryAge, RequestAge, At
<1>. QED  BY <1>1, AgeStep, MemoryCorrect, HeapCorrect, PTL DEF Spec

\* What a request evaluates is no older than the file was when the request looked at
\* it: PrepareFileExprs compares modification times, and an edit between apr_stat and
\* parse() is seen by the next request at the latest.
THEOREM FreshCodeCorrect ==
  ASSUME OneFilePerKey, OnlyHandlers, Monotone PROVE Spec => []FreshCode
<1>1. TypeInv /\ MemoryInv /\ HeapInv /\ AgeInv => FreshCode
  <2>. SUFFICES ASSUME TypeInv, MemoryInv, HeapInv, AgeInv PROVE FreshCode
    OBVIOUS
  <2>1. FreshEnvironment
    <3>. SUFFICES ASSUME pc = "evalexpr", cur.d.file # Null
                  PROVE  /\ handler.envir # Null
                         /\ heap[handler.envir].what = "env"
                         /\ heap[handler.envir].version >= finfo.version
      BY DEF FreshEnvironment
    <3>1. PICK f \in Files : f = cur.d.file /\ handler.envir = FileEntry(f).envir
      BY Current, OwnEntry DEF OfFile, TypeInv, PathInv, MemoryInv
    <3>2. EnvirFrom(f, finfo.version)
      BY <3>1 DEF AgeInv, RequestAge, At
    <3>3. heap[FileEntry(f).envir] \in Environment
      BY <3>2 DEF HeapInv, EnvirFrom
    <3>. QED  BY <3>1, <3>2, <3>3 DEF EnvirFrom, Environment
  <2>2. FreshFile
    <3>. SUFFICES ASSUME pc = "evalfile"
                  PROVE  /\ parsed[handler.parsedFile].exprs # Null
                         /\ heap[parsed[handler.parsedFile].exprs].what = "exprs"
                         /\ heap[parsed[handler.parsedFile].exprs].version >= finfo.version
      BY DEF FreshFile
    <3>1. PICK f \in Files : f = cur.d.file /\ f = handler.parsedFile /\ parsed[f] = FileEntry(f)
      BY Current, OwnEntry DEF OfFile, MemoryInv
    <3>2. ExprsFrom(f, finfo.version)
      BY <3>1 DEF AgeInv, RequestAge, At
    <3>3. heap[FileEntry(f).exprs] \in FileExprs
      BY <3>2 DEF HeapInv, ExprsFrom
    <3>. QED  BY <3>1, <3>2, <3>3 DEF ExprsFrom, FileExprs
  <2>. QED  BY <2>1, <2>2 DEF FreshCode
<1>. QED  BY <1>1, MemoryCorrect, HeapCorrect, AgeCorrect, PTL

\* What the hook is about to evaluate, and the environment it does so in, are on R's
\* precious list, whenever the garbage collector runs.
THEOREM NothingDanglingCorrect ==
  ASSUME OneFilePerKey, OnlyHandlers, Monotone PROVE Spec => []NothingDangling
<1>1. TypeInv /\ MemoryInv /\ AgeInv => NothingDangling
  <2>. SUFFICES ASSUME TypeInv, MemoryInv, AgeInv PROVE NothingDangling
    OBVIOUS
  <2>1. ASSUME pc = "evalfile"
        PROVE  precious[parsed[handler.parsedFile].exprs] > 0 /\ precious[parsed[handler.parsedFile].envir] > 0
    <3>1. PICK f \in Files : f = cur.d.file /\ f = handler.parsedFile /\ parsed[f] = FileEntry(f)
      BY <2>1, Current, OwnEntry DEF OfFile, MemoryInv
    <3>2. FileEntry(f).exprs # Null /\ FileEntry(f).envir # Null
      BY <2>1, <3>1 DEF AgeInv, RequestAge, At, ExprsFrom, TypeInv, PathInv
    <3>. QED  BY <3>1, <3>2, Owners
  <2>2. ASSUME pc = "evalexpr" PROVE precious[handler.expr] > 0 /\ precious[handler.envir] > 0
    <3>1. PICK k \in Keys : k = cur.d.key /\ handler = HandlerEntry(k)
      BY <2>2, Current
    <3>2. precious[handler.expr] > 0
      BY <2>2, <3>1, Owners DEF TypeInv, PathInv
    <3>3. CASE cur.d.file = Null
      <4>. DEFINE s == <<"own", k>>
      <4>1. s \in Slots /\ Pointer(s) = handler.envir /\ handler.envir # Null
        BY <2>2, <3>1, <3>3, Current DEF Slots, Pointer, TypeInv, PathInv
      <4>2. precious[Pointer(s)] = 1
        <5>. HIDE DEF s
        <5>. QED  BY <4>1, Owners
      <4>. QED  BY <3>2, <4>1, <4>2
    <3>4. CASE cur.d.file # Null
      <4>1. PICK f \in Files : f = cur.d.file /\ handler.envir = FileEntry(f).envir
        BY <2>2, <3>4, Current, OwnEntry DEF OfFile, TypeInv, PathInv, MemoryInv
      <4>2. FileEntry(f).envir # Null
        BY <2>2, <4>1 DEF AgeInv, RequestAge, At, EnvirFrom
      <4>. QED  BY <3>2, <4>1, <4>2, Owners
    <3>. QED  BY <3>3, <3>4
  <2>. QED  BY <2>1, <2>2 DEF NothingDangling
<1>. QED  BY <1>1, MemoryCorrect, AgeCorrect, PTL

\* So no request makes mod_R evaluate NULL or an object that was freed.
THEOREM NoCrashCorrect ==
  ASSUME OneFilePerKey, OnlyHandlers, Monotone PROVE Spec => []NoCrash
<1>1. TypeInv /\ HeapInv /\ FreshCode => NoCrash
  <2>. SUFFICES ASSUME TypeInv, HeapInv, FreshCode, Crashes PROVE FALSE
    BY DEF NoCrash
  <2>1. CASE pc = "expr" /\ cur.type = "r-script"
    BY <2>1, Current DEF OnlyHandlers, Requests
  <2>2. CASE pc = "evalfile"
    BY <2>2 DEF Crashes, FreshCode, FreshFile
  <2>3. CASE pc = "evalexpr"
    <3>1. handler.expr # Null /\ handler = HandlerEntry(cur.d.key) /\ cur.d.key \in Keys
      BY <2>3, Current DEF TypeInv, PathInv
    <3>2. PICK d \in Directives : heap[handler.expr] = [what |-> "expr", expr |-> PlainExpr(d)]
      BY <3>1 DEF HeapInv
    <3>. QED  BY <2>3, <3>1, <3>2 DEF Crashes, Gone
  <2>. QED  BY <2>1, <2>2, <2>3 DEF Crashes
<1>. QED  BY <1>1, TypeCorrect, HeapCorrect, FreshCodeCorrect, PTL
=============================================================================
