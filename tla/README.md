# A TLA+ model of rapache

rapache embeds the R interpreter in the Apache web server. `src/mod_R.c` is the
Apache module; it uses the vendored library `src/libapreq2` to parse forms,
cookies and uploads. This directory holds TLA+ modules that model both, TLC
configurations that check them, and TLAPS proofs. `PROJECT.json` maps each
definition to the source lines it models, and lists every run, mutant, finding,
hazard and theorem.

## The system

An Apache child process runs one R interpreter. Apache calls
`AP_hook_request_handler` for each request; under a threaded MPM several worker
threads call it at once and a mutex lets one at a time into R. The hook finds the
directive of the request, turns it into R expressions through two caches, evaluates
them, and sends what R wrote. R code calls back for the query string, cookies, the
body and its form parameters, which libapreq2 parses piece by piece. libapreq2
also brings request handles of its own: one for Apache (an input filter that
parses what passes through it), one for CGI programs, one for programs with their
own input.

| component | state | operations | interacts with |
|---|---|---|---|
| request hook | `MR_Request`, `MR_BBin/out/err`, `MR_mutex`, the working directory | the hook, `SetUpRequest`, `TearDownRequest`, `RApacheResponseError`, `RApacheInfo`, console callbacks, `setStatus` | R calls back into it while the hook waits; Apache destroys `r->pool` after it |
| handler and file caches | `MR_HandlerCache`, `MR_ParsedFileCache`, modification times, R's list of preserved objects | `GetHandlerFromRequest`, `PrepareFileExprs`, `PrepareHandlerExpr`, `EvalExprs` | files edited meanwhile, R's garbage collector |
| request body | `readStarted`, `postParsed`, `postTable`, `filesVar`, the promises `POST`, `FILES` | `ReadRequestBody`, `receiveBin`, `ReadConsole`, `parsePost` | Apache's input filters, the libapreq2 parsers |
| configuration and startup | directives, `MR_ConfigPass`, `MR_OnStartup`, per-process R, the registry of parsers | `AP_cmd_*`, `init_config_pass`, `child_init`, `init_R`, `OnStartupCallback`, `apreq_*initialize`, `apreq_register_parser` | Apache reads its configuration twice, and again on a restart |
| request data for R | `argsTable`, `cookiesTable` | `parseGet`, `parseCookies`, `TableCallback`, `ParamsCallback`, `getServer` | Apache's tables, libapreq2 |
| response headers, binary output, URL coding | `headers_out`, `MR_BBout` | `setHeader`, `setContentType`, `setCookie`, `sendBin`, `encode`, `decode` | the client, which sends cookies back |
| libapreq2 form parsers | a context per parser, kept between brigades | urlencoded, header, multipart, generic | `parsePost` and the handles feed them; hooks see each parameter |
| libapreq2 utilities | none | percent coding, quoting, parameters, cookies, spool brigades | the parsers, mod_R |
| libapreq2 handles: CGI, custom | status and table of the body, parser, hook queue, limits | `body`, `body_get`, `jar`, `args`, `parser_set`, `hook_add`, limits | standard input or a brigade |
| libapreq2 handle and filter in Apache | a filter context: spool, status, table, limits | the same, `apreq_filter`, `apreq_filter_prefetch` | the filter chain, the content handler, internal redirects |
| Apache 1.3 module, Perl glue, build | - | - | not modelled |

What is hard here:

* **threads** that share one set of globals, some of it written outside the mutex;
* **error paths**: the hook has a dozen early returns, each must tear the request
  down once, and R code can start a tear-down from inside;
* **caches** that live as long as the child, of files that change under it, of objects
  that a collector may free, shared by several directives;
* **two readers of one body**, started by R code in any order, fed in pieces of any
  size, with reads that fail;
* **incremental parsers** cut off at any byte, spooling to a disk that may be full;
* **lazy handles**: any order of calls that read, configure and look up, on a body
  that is read only as far as somebody asked;
* **a filter** whose data must survive redirects and other filters;
* **two configuration passes**, virtual hosts and restarts.

What makes each component correct: one request at a time in R and nothing of it left
afterwards (hook); each request runs its own directive's code, as new as the file, and
never a freed object (caches; for which directives this holds, see below); each byte of a
body reaches exactly one reader, in order, within its buffer (body); startup code runs once per child, in order, or the
child does not serve (startup); the result of a parse does not depend on how the input
was cut and is the form that was sent (parsers); what R sends can be read back (data); a
body's status and table only move forward (handles); the content handler reads the
client's body whoever looked at it before (filter).

## The modules

| module | models | run |
|---|---|---|
| `RequestCycle` | the request hook, for a set of threads | `prefork`, `threaded` |
| `HandlerCache` | the caches | `caches`, `scripts` |
| `RequestBody` | the readers of the body | `body` |
| `Startup` | configuration, startup code, registry of parsers | `startup` |
| `RData` | what R and mod_R exchange: GET, COOKIES, headers, cookies, coding, sendBin | `rdata`, `url_decode` |
| `ApreqUtil` | `util.c`: percent coding, quoting, searching, header attributes | used by those below |
| `Brigade` | brigades cut into buckets, and spool brigades | |
| `Cookies` | `cookie.c` | |
| `UrlencodedParser`, `HeaderParser`, `MultipartParser` | one parser each, and `param.c` | |
| `FormBody` | a body on its way through any of the parsers, and the generic one | `parsers`, `folded_header` |
| `BodyParser` | what a handle sees of a parser: hooks, statuses, parameters per block | |
| `LazyBody` | abstract: what a handle promises about the body | |
| `PlainHandle` | the CGI and the custom handle | `handles` |
| `ApacheFilter` | the Apache 2 handle and its filter | `filter` |
| `RequestCycleProofs`, `HandlerCacheProofs`, `RequestBodyProofs`, `StartupProofs`, `PlainHandleProofs`, `ApacheFilterProofs` | theorems about the module named | |
| `ListLemmas` | lemmas on sequences and recursive functions that the proofs share | |
| `BodyLemmas` | lemmas on `BodyParser`: what a parser run returns and adds to a table | |
| `MC*` | values for the constants | |

`RequestCycle`, `HandlerCache` and `RequestBody` are separate because the mutex
separates them in the code: `RequestCycle` shows that a request has R, the caches and
`MR_Request` to itself between `SetUpRequest` and `TearDownRequest` (theorems
`MutualExclusionCorrect` and `OwnRequestCorrect`), which is what the others take for
granted by serving one request at a time. `RequestCycle` leaves open which
expression a directive yields, and `RequestBody` what the parser makes of the bytes: each
takes every outcome as possible. `FormBody` composes the parsers byte by byte;
`PlainHandle` and `ApacheFilter` use `BodyParser`, where a body is a sequence of blocks
that complete a parameter or do not, because what a handle can get wrong is which
blocks it gives to whom.

### RequestCycle

`pc[t]` is where thread `t` is in the hook; a request_rec is identified with its thread.
`MR_r`, `oldwd`, `BBin`, `BBout`, `BBerr`, `mutex` and `cwd` are the shared globals;
`status`, `wire`, `sent` are what the client gets. A buffered brigade is the set of
threads that wrote to it. `oldwd` remembers from whose pool its string came, and the pool
dies after the hook.

`HookEnter` writes `oldwd` before the mutex is taken, as the code does.
`Acquire`/`SetUpRequest`/`SetUpFails` are `SetUpRequest`; `ChdirFails`,
`PrepareFile(Fails)`, `PrepareHandlerExpr`, `HandlerParseFails`, `FunctionNotFound` the
way to the evaluation; `WriteOutput`, `WriteError`, `ReadBody`, `RApache_setStatus`,
`SetWd`, `RApache_RApacheInfo` what R code does meanwhile; `EvalEnds`, `EvalFails`,
`IntegerValue`, `OtherValue`, `TryErrorValue` the end. `TearDownRequest` is two
steps, `TearDownCwd` and `TearDownRest`, because another thread may write `oldwd` between
them. `UsesNull` lists the places that dereference `MR_Request.r` unchecked; there the
child crashes, and Apache starts another. `InfoExecFails` says in which calls of
`RApacheInfo` an `EXEC` may fail: in an `r-info` request, or in `RApacheInfo()` called
from R ("nested").

### HandlerCache

`parsed` and `handlers` are the two caches; entries hold addresses into `heap`, and
`precious` counts how often each object is on R's list of preserved objects. A file on
`disk` has a version, a kind of contents (good, without the function, failing half way,
not parsable, missing) and a modification time. `Edit` changes a file and
`CollectGarbage` frees an object that is not preserved, at any moment between the steps
of a request: `StatFile` and `ParseFile` are separate because a file can change between
`apr_stat` and `parse()`. Addresses are reused, so a stale pointer may name a new object.
Handler entries are found by the text of the directive alone, as in the code (`CacheKey`),
and keep the file entry of whichever directive made them.

### RequestBody

The bytes of a body are its positions `1..body`; `read` and `fed` are what R and the
parser were given. The filters deliver any non-empty piece up to what was asked
(`Pieces`) and may fail (`ReadFails`, `ParseReadFails`). `frame` is the call in progress:
the buffer of `receiveBin`, how much of it is filled, and how much this
`ReadRequestBody` still wants. `StartupCode` and `RApacheInfoFails` let R code run without
a request. `parsePost` is split at each `ap_get_brigade`. Its loop looks for EOS in the
brigade after `apreq_parser_run` has moved the buckets away: `r.parser` says whether the
parser decides on the body and so gives EOS back at the latest when it is shown it again,
or still waits for a boundary and keeps it (`GivesBack`).

### Startup

A configuration is a sequence of lines: a command, the server and section it stands in,
its arguments, and whether the file it names exists. `Load` is the module being loaded
for a reading, `ReadLine` creates the configuration of a server the reading meets
(`init_config_pass` counts them on the process pool) and calls the directive's function;
`PostConfig` ends a reading, `ReadAgain` starts the next, `Fork`, `OnStartupCallback`,
`FinishInit` and `AP_child_exit` are a child. libapreq2's registry is inherited by a
child, or made in it, depending on whether mod_apreq2 is loaded; `RegisterInChild` is
another module's late attempt.

### RData

A program is a sequence of requests, each with the calls its handler makes; TLC takes
every program of `MCPrograms`. Strings are sequences of bytes, tables sequences of
records. The client keeps the cookies of `Set-Cookie` and sends them back in the next
request. Numbers above 255 stand for whole words that the code compares as a whole (an
attribute name, a date). A string that C hands to R ends at a NUL (`CString`); an element that
`encode` or `decode` answers with `R_NilValue`, the empty string among them, is an R error.
`sendBin` makes the bytes of each element, so sizes, narrowing
and byte order can be read back.

### The parsers

`url_decode` keeps the guess of the character set and stops before an escape that is
not complete; `apreq_decodev` and `split_urlword` carry it over buckets. The contexts
(`url_ctx`, `hdr_ctx`, `mfd_ctx`) are records with the code's states. A brigade is a
sequence of buckets; `split_on_bdry` moves over them with a partial match as the code
does, and `apreq_parse_multipart` is one operator per state of its switch. `FormBody.Arrive` delivers any
number of bytes as one or two buckets, with EOS or without; `MaxCuts` bounds the cuts.
`room` is what the temporary directory still takes, so that spooling can fail at once
or half way. What `apreq_header_attribute` finds in the few header values that occur
is given by a table (`AttrOf`); the scanner itself is checked in `rdata`.

### LazyBody, PlainHandle, ApacheFilter

`LazyBody` is the promise of a handle: nothing is parsed before somebody asks, the
table only grows while the status is `APR_INCOMPLETE`, any other status is final.
`PlainHandle` has both handles that own their input (`module` says which); a call that
loops is one step per read, so that it can be seen to end and reads can fail
between. `ApacheFilter` has the chain of filters of the request (apreq filters,
another module's filter, and where the protocol filters begin), one context per
filter, the phase of the request, and `net`, the blocks not read yet. A context may be
stolen by a new filter above it. A read goes down the chain (`PreparedPath`) to the first
filter that can answer or to the connection (`Source`), and what it brings passes the
filters it went through on the way back, the lowest first (`PassBack`), as the nested calls
of `ap_get_brigade` do. Both are shown to implement `LazyBody` (`KeepsPromise`):
`PlainHandle` as a whole, `ApacheFilter` for the context of each filter, where an
interrupted context counts as one that still reads.

## Runs

Between them the passing runs fire every action. Deadlock is checked where the system
never stops; `parsers`, `rdata`, `filter` and `startup` end when a body, a program,
a request or the last restart is over.

| run | shows |
|---|---|
| `prefork` | one worker, `RApacheInfo` failing anywhere: every request is torn down completely, the saved directory is never read from a destroyed pool |
| `threaded` | two workers, no `RApacheInfo` failure: one request at a time in R, its own globals and output; a failed request sends nothing and returns 500; a thread that locked `MR_mutex` unlocks it, whichever early return it takes |
| `caches` | `RFileHandler f` and `RFileHandler f::fun`, the file edited at will, beside `RHandler x` and `REval x`: each request evaluates an expression that a directive of its text asks for, never older than the file it looked at; nothing evaluated was freed, nothing leaks |
| `scripts` | r-script requests: the call never names another request's script |
| `body` | any order of receiveBin, console reads, POST and FILES: one reader, no byte lost or repeated, no overrun, complete results; every read returns, and so does every parse on which the parser decides |
| `startup` | a child that serves has run exactly its configuration's startup code, in order; children of one generation have the same parsers |
| `rdata` | GET has every parameter; the cookies that no `setHeader("Set-Cookie")` of their request replaced come back, quoted values whole, bare ones up to a space or comma; quoting can be undone but for a NUL, and URL coding of ASCII that is not empty; binary output can be read back |
| `parsers` | the result of a parse does not depend on the cuts, is the form that was sent, is decided at the end of the body; spool files are whole |
| `handles` | hooks and settings last, a single parameter is found if it is there, the limit holds, calls return, `LazyBody` is implemented |
| `filter` | the content handler reads the client's body, a parser is shown each block once and in order, within the limit; `LazyBody` is implemented |
| `folded_header` (violation) | a header continued on a second line, arriving in one piece, fails the assertion `vlen >= dlen` of `split_header_line` (`parser_header.c:118`): `:302` counts a byte of the line break twice |
| `url_decode` (violation) | `urlDecode` is an error on text that is not ASCII |

Every property of a passing run has a mutant in `PROJECT.json`: a definition with a
plausible slip, kept beside the original, under which TLC finds the property violated.

### Properties the code does not have

Some properties are defined in the modules and checked by no run, because the code
refutes them or they need more than the runs give:

* `RequestCycle.CwdRestored`: holds under prefork when no nested `RApacheInfo` fails
  (theorem `CwdRestoredCorrect`). With `TwoThreads` and `TwoDirs` TLC refutes it:
  `oldwd` is written outside the mutex (`mod_R.c:653`) and the start directory is lost.
* `RequestCycle.MutualExclusion` with `InfoExecFails = {"r-info"}` and two threads: a
  failing `r-info` request unlocks twice, the second time another thread's lock.
* `RequestCycle.ReturnedStatusSent`: output is flushed before `r->status` is set to the code
  R returned (`mod_R.c:722`).
* `HandlerCache.NoCrash` with `Types = {"r-script"}`: the call parsed for a script is
  not preserved and may be freed before it is evaluated (`mod_R.c:1352`), and under a
  directive without a function `strlen(NULL)` is taken.
* `HandlerCache.OwnExpression`: `mod_R.c:362` and `:364` describe `RHandler` as "R function to
  handle request." and `REval` as "R code to evaluate on each request.", but `RHandler x` and
  `REval x` have one `handlerKey` (`:855`), and whichever is asked first fills the entry for
  both; likewise an r-handler request after an r-script one under the same directive evaluates
  the script's call. `ExpressionOfKey` is what the code has instead; `OwnExpression` holds
  for a directive whose text no other has (theorem `OwnExpressionCorrect`).
* `RequestBody.ParseReturns`: `parsePost` tests the brigade for EOS after the parser took it
  (`mod_R.c:2078-2079`). The multipart parser keeps EOS while it waits for the first boundary
  or for the line break behind one (`parser_multipart.c:283-302`), so the loop never ends on
  an empty multipart body, one without a boundary, or one that stops right behind the closing
  boundary. `CallsReturn` is about the parsers that decide.
* `FormBody.NeverAborts` beyond `folded_header`: see Observations.
* `RequestBody.WorksOutside` with `Outside = TRUE`: a read without a request logs to
  the NULL request (`mod_R.c:801`).

### Bounds

* Two threads suffice to show interference through globals; the theorems cover any
  number. Two directories are the start directory and one other. One HTTP code
  stands for all that differ from OK; `threaded`, which checks a liveness property and so
  uses no symmetry, has none (`prefork` has it).
* `MaxVersion = 3` lets a file change between stat and parse and once more before the
  next request; `caches` has four directives and takes 2, with the first version of
  any kind. `MaxObject` is what the directives of the run can hold at once, plus one
  being allocated.
* `MaxBody = 5` with `Huge = 2` and `FirstSize = 2`: `receiveBin(-1)` grows its buffer
  2, 3, 4, 6 and needs several brigades per read; `Lengths` has -1, 0 (the uninitialised
  buffer), a size below and one above `Huge`. The theorems cover all sizes.
* Files have increasing modification times (`Monotone`) in all runs: an edit within the
  resolution of the clock, or a restored older file, is not seen by the code at all.
* `MaxCuts = 2` with two buckets per call: a boundary, an escape or a header can be spread
  over three buckets and three calls, which is one more than any state of the parsers
  remembers. Data of uploads and fields is every sequence of up to two of the pieces a
  boundary is made of. `BrigadeLimit = 3` makes small uploads spool. `folded_header` delivers
  its one body whole (`MaxCuts = 0`).
* `rdata`: up to three parameters, two cookies in one or two requests, vectors of one or two
  strings, two objects. Cookie values have no `;`, at which the client ends them, and the values of RFC
  cookies are quoted where their syntax demands it.
* Handles: bodies of up to five blocks read two at a time, `Width = 12` for counters that
  wrap, `Garbage` what an uninitialised counter may hold. Filter: three filters, one redirect
  (the second would start from the same kind of state), to a place with a lower `ReadLimit`
  or with the same one, one setting changed, two blocks.
* Startup: four readings are both passes and two restarts; two children, symmetric.

### Fairness

* `FairSpec` of RequestCycle, `WF(Hook(t))` per thread: a thread that can go on in the
  hook does, and R code ends. It is used in `threaded`. Taking the mutex is part of it, but
  weak fairness promises a thread the mutex only if it stays free, so nothing is assumed about
  who gets it.
* `Spec` of RequestBody, `WF(InCall)`: a read that was begun goes on. Apache's `Timeout`
  ends a read from a silent client with an error. Failures themselves are not fair.
* `FairSpec` of PlainHandle, `WF(Work(TRUE))`: a loop of a call goes on with its next
  read; no read is assumed to fail.
* The other runs need none: they check invariants and action properties.

## Proofs

`RequestCycleProofs`, for any number of threads, directories and codes:

* `TypeCorrect`: without a condition.
* `MutualExclusionCorrect`, `OwnRequestCorrect`, `OutputIsolationCorrect`,
  `CleanBetweenRequestsCorrect`: if no `EXEC` of `RApacheInfo` fails; for the first the
  condition is needed (see above). The properties are not inductive: that the step
  which takes the mutex finds the region empty depends on what every other thread's
  `pc` says about the globals. `LockInv` adds: a thread is in the region exactly if it owns
  the mutex (if there is one) and `MR_r`, what is buffered is its own, and if nobody is
  there the globals are clear.
* `ErrorsDiscardOutputCorrect`, `ErrorsReturn500Correct`, together
  `ErrorsAnsweredCorrect`: `FailInv` follows a failed request through its tear-down, and
  rests on `LockInv`.
* `CwdRestoredCorrect`, `OldwdAliveCorrect`: under prefork (`~Threaded`) when no nested
  `RApacheInfo` fails. `CwdInv` says the saved name is the start directory, alive until
  it is used.

`RequestBodyProofs`, for bodies, buffers and lengths of any size: `TypeOKCorrect`,
`OneReaderCorrect`, `InOrderCorrect`, `InBufferCorrect`, `ReceivesAllCorrect`,
`PostCompleteCorrect`, from one inductive invariant `BodyInv` (defined in `RequestBody`).
`FlagInv` says what the two flags tell about who may have bytes; `OrderInv` that
sequence lengths and the filters' position agree; `FrameInv` ties the buffer of a
read to what R got; `PostInv` the table to what was parsed. `InBuffer` and `ReceivesAll`
need `frame.want = size - blen` and a buffer that still grows when it is small
(`FirstSize >= 2`: one and a half times 1, rounded down, is 1).

`HandlerCacheProofs`, for any directives, files, kinds of contents, versions and
addresses. What is evaluated must be alive and new whenever the collector runs and
whenever a file is edited, and no property says by itself which pointer keeps an object
alive; the invariant has four layers, each resting on those before it:

* `TypeInv` (types, `EntryInv`: which entry of a file a handler entry points at, and `PathInv`:
  how far the request has come and what it then has); `TypeCorrect` and `OwnScriptCorrect` need
  nothing more and hold in every configuration.
* `MemoryInv`: a handler entry has the file of its key (`KeyInv`); and of all pointers that own
  an object no two own the same one, and an object is on the precious list once if one of them
  points at it and not at all otherwise (`OwnerInv`). `NothingLeaksCorrect` follows.
* `HeapInv`: what an owning pointer points at is the kind of object it is for, and an
  expression is that of a directive with the entry's key. `ExpressionOfKeyCorrect` follows, and
  from it `OwnExpressionCorrect` for a directive whose text is its own.
* `AgeInv`: an entry with the modification time of the file on disk was made from that
  version, and what the request in progress has found out about the file still fits.
  `FreshCodeCorrect`, `NothingDanglingCorrect` and `NoCrashCorrect` follow.

From `MemoryInv` on the hypotheses are `OneFilePerKey` (directives with the same cache key
name the same file or none: `RHandler x` and `REval x` may both be there, `RHandler a::b` and
`RFileHandler a::b`, which would share an entry while only one has a file, may not) and
`OnlyHandlers` (no scripts, whose calls are not preserved); `AgeInv` also needs `Monotone` (no
edit gives a file an old modification time). `caches.cfg` satisfies all three and TLC checks
the same properties there; without them the code does not have the properties (see above and
Observations).

`StartupProofs`, for every set of configurations, and any number of children and
readings: `StartupCorrect` is the invariant, `StartupInOrderCorrect` and
`ParsersAgreeCorrect` follow. `StartupInOrder` only speaks of children that serve, so the
invariant follows the code from the line that asks for it: `StartupInv` says that from the
second reading on `MR_OnStartup` is what the lines read so far have added, that each added
what it should or code that fails, and that a child has its configuration's code behind or
before it (`OnCourse`). `RegistryInv` says that a table of parsers is not there at all or is
complete and locked, and that the tables of a generation come from one.

`PlainHandleProofs`, for any body, block size, limits, hooks and names, on both handles:

* `StateCorrect`: types, `CallInv` (a call that reads has a parser and a status to go on
  from) and `HookInv` (the program's hooks are in the queue or the parser, once each, and
  `find_param` is in front of them exactly while a scan runs). They are one induction:
  `cgi_body_get_leave` takes the head of the list away, which is only safe because of
  `HookInv`. `HooksKeptCorrect` follows.
* `BodyGetExactCorrect`: `ScanInv` says that what a scan has found is the first parameter
  of that name outside `multipart/mixed` in the table, and that the parser has run before a
  scan begins, so that the mixed parser never has `find_param`.
* `WithinReadLimitCorrect`: from `LimitInv`, that what was read and what is left fits the
  counter. The hypothesis `ShortBodies` (no body as long as the range of the 64-bit counter)
  is needed: a counter that wraps is below every limit. The bodies of `handles` satisfy it.
* `SettingsStickCorrect`: an action property, from `SettingsInv` (a parser has the directory
  its handle was given): `init_body` writes the handle's directory over the parser's.
* `KeepsPromiseCorrect`: the refinement of `LazyBody`. `init_body` at `APR_EINIT` is
  `Start`, a read is `Parse`, everything else leaves status and table alone.

`ApacheFilterProofs`, for any body, block size, chain, limits, hooks and names, and any
number of filters, internal redirects and settings:

* `StateCorrect` is the inductive invariant. Its parts are about the filters (`Chained`: each
  filter is in the chain at most once; `Owned`: no two filters of the chain have one context,
  although contexts are taken over; `Handled`: the handle's filter is in the chain below no
  other apreq filter, or is done), about a single context (`Sound`: what its status says of
  its parser and spool, and that the blocks shown are consecutive and counted), about the
  running call (`CallInv`), and about the stream (`Kept`, `StreamInv`).
* `StreamInv` is the part that took finding. `DownstreamExact` says that what was delivered,
  the spools from top to bottom and `net` are the body; that is not inductive, because a read
  takes blocks out of one spool, shows them to the parsers above and hands them up. The
  invariant (`Cuts`) says that there are positions `p[1] <= ... <= p[n+1]` in the body such that
  the spool of the t-th filter is a stretch from `p[t]` to `p[t+1]`, that a filter still
  parsing has been shown the blocks up to `p[t+1]` if any, and that blocks are missing between
  two spools only below a filter that reports an error. It holds inside a step as well: `h` and
  `m` say that m blocks are on their way and have reached the h-th filter (`Riding`), and one
  filter after the other passes them on. `Kept` says that only protocol filters have spools,
  without which an internal redirect, which drops the others, would lose blocks.
* `DownstreamExactCorrect` and `ParserContiguousCorrect` follow from it. `DownstreamExact`
  speaks of states where every spool could be written (`~broken`, see Observations).
* `ReadLimitKeptCorrect` and `KeepsPromiseCorrect` are about one context in one step. What a
  step does to a context is a composition of taking it over and starting it (`Mild`: no block
  is shown) and then feeding it (`Fed`), which compose to `Moved` (`MovesTrans`). The refinement of
  `LazyBody` reads off `Lazy`: `Start`, `Parse` or no change of the status and the table.

Each action has a lemma that it preserves the invariant and moves contexts only so (`Steady`),
and each operator that an action is made of (a new context, one taken over, a filter removed,
moved or put on top, a read, a prefetch) one that it keeps a `Good` state good. In these
`x` stands for the state inside a step, as in the model.

What a parser does to a table rests on lemmas about `FlattenSeq` and the first index of a
sequence in `ListLemmas`, and on `BodyLemmas`; the loops over the filter chain are recursive
functions, for which `Iterates` and `Follows` of `ListLemmas` give existence and induction. The
provers cannot use an induction theorem that takes a predicate; where induction is needed, the
lemma takes the least number that would be an exception (`LeastNatural`, from the well-founded
order of the naturals) and contradicts it.

The assumptions are the named ASSUMEs of the modules, which TLC evaluates in every run.
They say what kind of value a constant is, that markers such as `None` are not among the
values they mark the absence of, that limits fit the counters, in `Startup` that a
line of a configuration names a directive of mod_R, and in `ApacheFilter` that a read asks for
at least one block.

Only model-checked: the liveness properties `MutexReleased` and both `CallsReturn`
(fairness is outside the prover's reach); `FormBody` and `RData`, whose operators are
recursive over strings, so that every one of their properties is an induction over data,
which the provers do not do; and the violations. `TypeOK` and `IInv` of `ApacheFilter` were
also checked by TLC on the states of `filter` before they were proved.

## What is not modelled

* `getServer`, `setContentType`, `FileUploadsCallback`: field by field copies.
* `apreq_atoi64f`, `apreq_atoi64t`, the cp1252 conversion (nothing calls it), error
  strings, version numbers, logging, and the getters of the handles.
* The per-directory settings of mod_apreq2 (`APREQ2_ReadLimit` and so on): a filter
  starts with a limit from a set instead.
* Reads of the filter in other modes than `AP_MODE_READBYTES`, which the code does not support:
  EXHAUSTIVE and GETLINE go past spool and parser to the filter below, the rest get
  `APR_ENOTIMPL` (`filter.c:340-351`). `DownstreamExact` and `ParserContiguous` say nothing of
  a handler that uses them.
* A discarding upload hook also frees the EOS bucket of the multipart context, which the next
  upload uses again (`parser_multipart.c:557`); the bodies with that hook have one upload.
* The Apache 1.3 module: `apreq_handle_apache` stores through the pointer it has just
  found to be NULL (`module/apache/handle.c:504`), so no handle can exist.
* Perl glue, tests, build files.

The abstractions that matter: the console's own buffer (R's, not mod_R's) has no
size in `RequestBody`; R errors that jump out of a `.Call` are not modelled there, only
at the level of a whole evaluation in `RequestCycle`; allocation failures are left out;
in `PlainHandle` and `ApacheFilter` a parameter ends with a block.

## Observations without a run

Seen while modelling:

* A file whose evaluation fails is recorded as parsed (`mod_R.c:1318`); the next request
  uses the half-filled environment.
* `parsePost` ignores the status of `apreq_parser_run` (`mod_R.c:2078`): R gets the table of a
  body whose parse failed, an upload that was only partly spooled included.
* `setHeader("Set-Cookie", v)` replaces the cookies set before it in the same request, with
  NULL it drops them (`mod_R.c:1803-1811`). `setCookie` quotes nothing (`:1854`), so a bare value
  with a space or a comma comes back cut; a value with an opening quote only makes the reader
  give up there and lose the cookies behind it (`cookie.c:234`).
* `urlEncode("")` and `urlDecode("")` are R errors (`mod_R.c:1899`, `:1916`). The buffer of
  `decode` has no room for the terminator when nothing is escaped (`:1915`).
* `apreq_quote` writes a NUL as backslash and `0` (`util.c:720`), which the cookie reader reads
  as the digit (`cookie.c:214`). A value of a parameter reaches R up to its first NUL.
* A script whose call cannot be parsed is answered by calling the function with no
  argument (`mod_R.c:1361`).
* The list of FILES built when POST is forced is known to C only until FILES is
  forced (`mod_R.c:2090`). `receiveBin(0)` frees an uninitialised pointer (`:2485`).
* DONE and DECLINED returned by a handler are stored in `r->status` (`mod_R.c:724`).
* Several R directives in one section fill one `RApacheDirective`, and the check that the
  file of `RSourceOnStartup` exists is skipped behind a virtual host and on every restart:
  the children then die of the missing file.
* A name without `=` at the end of an urlencoded body is dropped, and `a&b=1` parses
  differently as a body and as a query string; `%FE` and `%FF` leave a byte unwritten
  when the text before is ASCII or UTF-8.
* A header without a value on a line without CR fails `assert(glen >= dlen)`
  (`parser_header.c:102`). In a `multipart/mixed` part an inner part without a file name sets
  `param_name` to NULL (`parser_multipart.c:521`), which the next one measures (`:440`, `:503`).
* A multipart body whose closing boundary has no line break ends in `APR_EOF`; hooks
  added after the first parse do not reach `multipart/mixed` parts.
* The CGI and the Apache handle do not find a parameter inside a `multipart/mixed` part by
  name while scanning, although it is in the table (`apreq_module.h:204`).
* `apreq_handle_custom` never initialises `bytes_read` (`module_custom.c:258`), and
  `custom_body` does not end on a brigade without EOS.
* A prefetch whose spool cannot be written returns before the filter becomes a protocol
  filter (`filter.c:286-297`), so an internal redirect after it loses the block; `broken`
  in `ApacheFilter` marks this.

## Plan

Done: the modules above, and the proofs of every component whose operators the provers can
reason about. What would come next:

1. The parsers as recursive functions over positions instead of recursive operators over
   strings, with the state of the scanner as the function's value. The invariants of
   `FormBody` could then be attacked the way `ApacheFilterProofs` treats the chain.
2. The settings `APREQ2_*` and their merging from the server to a directory, which decide
   the limits a filter starts with.
3. Cookies and arguments of the Apache 2 handle, the code of the plain handles once more.
