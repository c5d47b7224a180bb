---------------------------- MODULE RequestBody ----------------------------
(***************************************************************************)
(* Who reads the body of a request, src/mod_R.c: RApache_receiveBin and    *)
(* R's console (both through ReadRequestBody), and parsePost, which the    *)
(* promises POST and FILES force.  Both take the body from Apache's input  *)
(* filters, which hand it out in pieces of any size and may fail; readStarted *)
(* and postParsed keep them apart.                                         *)
(*                                                                         *)
(* One request after another is served by one thread (RequestCycle shows   *)
(* that MR_mutex keeps others out).  Bytes of the body are its positions   *)
(* 1..body.                                                                *)
(***************************************************************************)
EXTENDS Integers, Sequences

CONSTANTS
  MaxBody,     \* bound on the length of a body
  Huge,        \* HUGE_STRING_LEN: the most that is asked of a filter at once
  FirstSize,   \* first buffer of receiveBin(-1), 8192 in the code
  Lengths,     \* arguments of receiveBin, buffer sizes of the console
  Methods,     \* "POST" stands for POST and PUT, "GET" for all others
  Outside,     \* R code may also run without a request
  Null

ASSUME RequestBodyAssumption ==
  /\ MaxBody \in Nat
  /\ Huge \in Nat \ {0} /\ FirstSize \in Nat \ {0, 1}
  /\ Lengths \subseteq Int
  /\ Methods \subseteq {"POST", "GET"}
  /\ Outside \in BOOLEAN

VARIABLES
  served,      \* the child has served a request
  r,           \* MR_Request.r: Null, or [method, parser, body]
  input,       \* next: position of the next byte; eos: EOS was handed out to the
               \* parse loop; failed: a read failed
  postParsed, readStarted,        \* fields of MR_Request
  postTable, filesVar,            \*   Null, or what was built
  POST, FILES,                    \* the promises of the rapache environment
  read,        \* the bytes given to R by reads
  fed,         \* the bytes given to the libapreq2 parser
  pc, frame,   \* the call in progress
  child        \* "up", "crashed"

vars == <<served, r, input, postParsed, readStarted, postTable, filesVar,
          POST, FILES, read, fed, pc, frame, child>>
promises == <<POST, FILES>>
parsing == <<postParsed, postTable, filesVar>>
rest == <<served, r, child>>

Forced(v) == [forced |-> TRUE, value |-> v]
Delayed == [forced |-> FALSE, value |-> Null]

\* A list built from the first n bytes of the body.
List(n) == [bytes |-> n]
Nil == List(0)
Lists == [bytes : 0..MaxBody]

Inputs == [next : 1..(MaxBody + 1), eos : BOOLEAN, failed : BOOLEAN]
Fresh == [next |-> 1, eos |-> FALSE, failed |-> FALSE]

\* What parser apreq_parser finds for the Content-Type, and what becomes of it on
\* this body.  none: there is no parser.  decides: at the end of the body it is
\* complete or has failed, as the urlencoded parser always is.  waits: a multipart
\* parser that still looks for a boundary, or for the end of the boundary's line
\* (MFD_INIT, MFD_NEXTLINE).
Parsers == {"none", "decides", "waits"}

Promises == {Delayed} \cup [forced : {TRUE}, value : Lists]

\* A call in progress: what was called; of receiveBin's buffer its size and how
\* much is filled; of ReadRequestBody how much is done and wanted; and how many
\* bytes R had before the call.
Ops == {"none", "console", "some", "all", "POST", "FILES"}
Frames == [op : Ops, size : Nat, blen : Nat, bpos : Nat, want : Nat, start : Nat]
Frame(op, size, blen, want, start) ==
  [op |-> op, size |-> size, blen |-> blen, bpos |-> 0, want |-> want, start |-> start]
NoFrame == Frame("none", 0, 0, 0, 0)

Init ==
  /\ served = FALSE /\ r = Null
  /\ input = Fresh
  /\ postParsed = FALSE /\ readStarted = FALSE
  /\ postTable = Null /\ filesVar = Null
  /\ POST = Forced(Nil) /\ FILES = Forced(Nil)
  /\ read = <<>> /\ fed = <<>>
  /\ pc = "idle" /\ frame = NoFrame
  /\ child = "up"

-----------------------------------------------------------------------------
(* The request around it.                                                  *)

\* SetUpRequest, and .ResetCGIVars() of RefreshRApacheEnv.
SetUpRequest ==
  /\ pc = "idle"
  /\ served' = TRUE
  /\ \E m \in Methods, p \in Parsers, n \in 0..MaxBody :
       r' = [method |-> m, parser |-> p, body |-> n]
  /\ input' = Fresh
  /\ POST' = Delayed /\ FILES' = Delayed
  /\ read' = <<>> /\ fed' = <<>>
  /\ pc' = "R"
  /\ UNCHANGED <<parsing, readStarted, frame, child>>

\* bzero(&MR_Request).
Cleared ==
  /\ postParsed' = FALSE /\ readStarted' = FALSE
  /\ postTable' = Null /\ filesVar' = Null

TearDownRequest ==
  /\ pc = "R" /\ r # Null
  /\ r' = Null
  /\ Cleared
  /\ pc' = "idle"
  /\ UNCHANGED <<served, input, promises, read, fed, frame, child>>

\* The code of the OnStartup directives runs before there is a request.
StartupCode ==
  /\ Outside /\ pc = "idle" /\ ~served
  /\ pc' = "R"
  /\ UNCHANGED <<rest, input, parsing, readStarted, promises, read, fed, frame>>

\* RApacheInfo() called from R fails: it tears the request down and R goes on.
RApacheInfoFails ==
  /\ Outside /\ pc = "R" /\ r # Null
  /\ r' = Null
  /\ Cleared
  /\ UNCHANGED <<served, input, promises, read, fed, pc, frame, child>>

CodeEnds ==
  /\ pc = "R" /\ r = Null
  /\ pc' = "idle"
  /\ UNCHANGED <<rest, input, parsing, readStarted, promises, read, fed, frame>>

-----------------------------------------------------------------------------
(* Apache's input filters.                                                 *)

Left == r.body - input.next + 1
Bytes(n) == [i \in 1..n |-> input.next + i - 1]

\* How many bytes ap_get_brigade may deliver: some if there are any, else EOS.
Pieces(len) == IF Left = 0 THEN {0} ELSE 1..(IF Left < len THEN Left ELSE len)

Delivered(n, eos) ==
  [next |-> input.next + n, eos |-> input.eos \/ eos, failed |-> input.failed]
Failing == [next |-> input.next, eos |-> input.eos, failed |-> TRUE]

-----------------------------------------------------------------------------
(* ReadRequestBody.                                                        *)

Crash ==
  /\ child' = "crashed" /\ pc' = "crashed"
  /\ UNCHANGED <<served, r, input, parsing, readStarted, promises, read, fed, frame>>

\* Apache replaces a child that crashed.
Respawn ==
  /\ child = "crashed"
  /\ served' = FALSE /\ r' = Null
  /\ Cleared
  /\ POST' = Forced(Nil) /\ FILES' = Forced(Nil)
  /\ input' = Fresh /\ read' = <<>> /\ fed' = <<>>
  /\ pc' = "idle" /\ frame' = NoFrame /\ child' = "up"

\* Mutant: readStarted is left to the tear-down.
StartsReading_NoFlag == UNCHANGED readStarted

StartsReading == readStarted' = TRUE

\* ReadRequestBody(buf + blen, want) is called by fr.op.  Without a request it
\* logs to the NULL request; once libapreq2 has started it returns nothing.
CallRead(fr) ==
  \/ /\ r = Null /\ Crash
  \/ /\ r # Null /\ postParsed
     /\ frame' = fr /\ pc' = "returned"
     /\ UNCHANGED <<rest, input, parsing, readStarted, promises, read, fed>>
  \/ /\ r # Null /\ ~postParsed
     /\ StartsReading
     /\ frame' = fr /\ pc' = "reading"
     /\ UNCHANGED <<rest, input, parsing, promises, read, fed>>

\* Mutant: an empty read does not end the loop.
EndOfBody_Never(n) == FALSE

EndOfBody(n) == n = 0

\* Mutant: the brigade is not cleaned up, and its first bytes are copied again.
Taken_Again(n) == read \o [i \in 1..n |-> frame.start + i]

\* The bytes R has, once n more are copied to its buffer.
Taken(n) == read \o Bytes(n)

\* One turn of the loop of ReadRequestBody.  A filter that failed fails again.
ReadRequestBody ==
  LET left == frame.want - frame.bpos
      len == IF left > Huge THEN Huge ELSE left
  IN
  /\ pc = "reading"
  /\ \/ /\ left > 0 /\ ~input.failed
        /\ \E n \in Pieces(len) :
             /\ input' = Delivered(n, FALSE)
             /\ read' = Taken(n)
             /\ frame' = [frame EXCEPT !.bpos = @ + n]
             /\ pc' = IF EndOfBody(n) THEN "returned" ELSE "reading"
     \/ /\ left <= 0 \/ input.failed
        /\ pc' = "returned"
        /\ UNCHANGED <<input, read, frame>>
  /\ UNCHANGED <<rest, parsing, readStarted, promises, fed>>

\* ap_get_brigade fails: the client is gone, or Apache's time limit is over.
ReadFails ==
  /\ pc = "reading" /\ frame.bpos < frame.want /\ ~input.failed
  /\ input' = Failing
  /\ pc' = "returned"
  /\ UNCHANGED <<rest, parsing, readStarted, promises, read, fed, frame>>

-----------------------------------------------------------------------------
(* The callers of ReadRequestBody.                                         *)

\* R asks its console for a line, up to n bytes.
ReadConsole ==
  /\ pc = "R"
  /\ \E n \in Lengths :
       /\ n > 0
       /\ CallRead(Frame("console", 0, 0, n, Len(read)))

RApache_receiveBin ==
  /\ pc = "R"
  /\ \E n \in Lengths :
       \/ /\ n > 0
          /\ CallRead(Frame("some", n, 0, n, Len(read)))
       \/ /\ n < 0
          /\ CallRead(Frame("all", FirstSize, 0, FirstSize, Len(read)))

\* receiveBin(0) frees a buffer it never allocated: buf is uninitialised, so it
\* may be NULL by chance, or R_Free may bring the child down.
ReceiveNothing ==
  /\ pc = "R" /\ 0 \in Lengths
  /\ Crash

\* Mutant: the buffer does not grow.
Grown_Never(fr) == fr.size

\* 50% over-allocation.
Grown(fr) == (fr.size * 3) \div 2

\* Mutant: every read is given the size of the whole buffer.
Room_Whole(size, blen) == size

Room(size, blen) == size - blen

\* receiveBin(-1) goes on until a read returns nothing.
ReceiveMore ==
  /\ pc = "returned" /\ frame.op = "all" /\ frame.bpos > 0
  /\ LET blen == frame.blen + frame.bpos
         size == Grown(frame)
     IN CallRead(Frame("all", size, blen, Room(size, blen), frame.start))

ReadReturns ==
  /\ pc = "returned" /\ (frame.op # "all" \/ frame.bpos = 0)
  /\ pc' = "R" /\ frame' = NoFrame
  /\ UNCHANGED <<rest, input, parsing, readStarted, promises, read, fed>>

-----------------------------------------------------------------------------
(* parsePost.                                                              *)

\* The value the promise gets, once parsePost returns.
Value(p, table, files) == IF p = "POST" THEN table ELSE files

SetPromise(p, v) ==
  /\ POST' = IF p = "POST" THEN Forced(v) ELSE POST
  /\ FILES' = IF p = "FILES" THEN Forced(v) ELSE FILES

Unforced(p) == IF p = "POST" THEN ~POST.forced ELSE ~FILES.forced

\* parsePost(returnPost): everything before the parse.
parsePost(p) ==
  /\ pc = "R" /\ Unforced(p)
  /\ \/ /\ r = Null \/ readStarted
        /\ SetPromise(p, Nil)
        /\ UNCHANGED <<parsing, pc, frame>>
     \/ /\ r # Null /\ ~readStarted /\ postParsed
        /\ SetPromise(p, Value(p, postTable, filesVar))
        /\ UNCHANGED <<parsing, pc, frame>>
     \/ /\ r # Null /\ ~readStarted /\ ~postParsed
        /\ r.method # "POST" \/ r.parser = "none"
        /\ postTable' = Null /\ filesVar' = Nil
        /\ SetPromise(p, Nil)
        /\ UNCHANGED <<postParsed, pc, frame>>
     \/ /\ r # Null /\ ~readStarted /\ ~postParsed
        /\ r.method = "POST" /\ r.parser # "none"
        /\ postParsed' = TRUE /\ postTable' = Nil
        /\ pc' = "parsing" /\ frame' = Frame(p, 0, 0, 0, 0)
        /\ UNCHANGED <<filesVar, promises>>
  /\ UNCHANGED <<rest, input, readStarted, read, fed>>

\* Mutant: the loop ends on the last brigade before it is parsed.
Run_NotLast(n) == IF Left = n THEN fed ELSE fed \o Bytes(n)

\* apreq_parser_run on what was read.
Run(n) == fed \o Bytes(n)

\* The parser has moved the buckets of the brigade to its context.  Whether EOS is
\* among those it gives back: not while it waits; otherwise at the latest when it
\* is shown an EOS the second time, which a complete or failed parser leaves alone.
GivesBack(eos, back) ==
  /\ back => eos /\ r.parser = "decides"
  /\ r.parser = "decides" /\ input.eos => back

\* A brigade, with EOS together with the last bytes or alone, and alone again for as
\* long as the loop asks.  The loop ends if EOS is in the brigade after the parse.
ParseBrigade ==
  /\ pc = "parsing" /\ ~input.failed
  /\ \E n \in Pieces(Huge), eos, back \in BOOLEAN :
       /\ eos => Left = n
       /\ n = 0 => eos
       /\ GivesBack(eos, back)
       /\ input' = Delivered(n, eos)
       /\ fed' = Run(n)
       /\ postTable' = List(Len(Run(n)))
       /\ pc' = IF back THEN "parsed" ELSE "parsing"
  /\ UNCHANGED <<rest, postParsed, filesVar, readStarted, promises, read, frame>>

ParseReadFails ==
  /\ pc = "parsing" /\ ~input.failed
  /\ input' = Failing
  /\ pc' = "parsed"
  /\ UNCHANGED <<rest, parsing, readStarted, promises, read, fed, frame>>

\* The uploads, if there are any, become the list of FILES.
ParseEnds ==
  /\ pc = "parsed"
  /\ \E v \in {List(Len(fed)), Nil} :
       /\ filesVar' = v
       /\ SetPromise(frame.op, Value(frame.op, postTable, v))
  /\ pc' = "R" /\ frame' = NoFrame
  /\ UNCHANGED <<rest, input, postParsed, postTable, readStarted, read, fed>>

-----------------------------------------------------------------------------

RCode ==
  \/ ReadConsole \/ RApache_receiveBin \/ ReceiveNothing
  \/ \E p \in {"POST", "FILES"} : parsePost(p)

InCall ==
  \/ ReadRequestBody \/ ReceiveMore \/ ReadReturns
  \/ ParseBrigade \/ ParseEnds

Next ==
  \/ SetUpRequest \/ TearDownRequest
  \/ StartupCode \/ RApacheInfoFails \/ CodeEnds
  \/ RCode \/ InCall
  \/ ReadFails \/ ParseReadFails
  \/ Respawn

\* A read of the body ends: Apache gives up on a client after its time limit.
Spec == Init /\ [][Next]_vars /\ WF_vars(InCall)

-----------------------------------------------------------------------------
(* Properties                                                              *)

\* The type of every variable.
TypeOK ==
  /\ served \in BOOLEAN
  /\ r = Null \/ r \in [method : Methods, parser : Parsers, body : 0..MaxBody]
  /\ input \in Inputs
  /\ postParsed \in BOOLEAN /\ readStarted \in BOOLEAN
  /\ postTable = Null \/ postTable \in Lists
  /\ filesVar = Null \/ filesVar \in Lists
  /\ POST \in Promises /\ FILES \in Promises
  /\ read \in Seq(1..MaxBody) /\ fed \in Seq(1..MaxBody)
  /\ pc \in {"idle", "R", "reading", "returned", "parsing", "parsed", "crashed"}
  /\ frame \in Frames
  /\ child \in {"up", "crashed"}

\* R's reads and the libapreq2 parser never share a body, in whatever order R code
\* reads, and forces POST and FILES.
OneReader == read = <<>> \/ fed = <<>>

\* No byte that was taken from the filters is lost, duplicated or reordered.
InOrder == r # Null => read \o fed = [i \in 1..(input.next - 1) |-> i]

\* What a read delivers fits in its buffer.
InBuffer ==
  pc \in {"reading", "returned"} /\ frame.op \in {"all", "some"} =>
    frame.blen + frame.bpos <= frame.size

\* receiveBin() returns the whole rest of the body, unless a read failed or the
\* body went to the parser.
ReceivesAll ==
  pc = "returned" /\ frame.op = "all" /\ frame.bpos = 0 =>
    \/ input.failed \/ postParsed
    \/ /\ Left = 0
       /\ Len(read) - frame.start = frame.blen

\* POST and FILES are built from the whole body, unless a read failed.
PostComplete ==
  pc = "R" /\ postParsed /\ ~input.failed => postTable.bytes = r.body

\* The R functions of rapache can be called outside a request.
WorksOutside == child = "crashed" => r # Null

\* receiveBin and console reads come to an end, and so does the parse of a body on
\* which the parser decides.  (Not: every parse.  The loop of parsePost asks the
\* brigade for EOS after the parser took it, and turns for ever when the parser
\* waits for a boundary: an empty multipart body, or one whose last boundary is
\* not followed by a line break.)
CallsReturn ==
  /\ pc \in {"reading", "returned"} ~> pc = "R"
  /\ (pc \in {"parsing", "parsed"} /\ r.parser = "decides") ~> pc = "R"

\* Every parse comes to an end.
ParseReturns == pc = "parsing" ~> pc = "R"

-----------------------------------------------------------------------------
(* An inductive invariant.                                                 *)

\* The flags tell who may have bytes of the body.
FlagInv ==
  /\ pc = "idle" => r = Null
  /\ r = Null => ~postParsed /\ ~readStarted
  /\ pc = "reading" => r # Null /\ readStarted /\ ~postParsed
  /\ pc \in {"parsing", "parsed"} => r # Null /\ postParsed /\ ~readStarted
  /\ ~(readStarted /\ postParsed)
  /\ r # Null /\ ~readStarted => read = <<>>
  /\ r # Null /\ ~postParsed => fed = <<>>
  /\ read = <<>> \/ fed = <<>>

\* Bytes are handed out in order, up to the next one of the filters.
OrderInv ==
  /\ \A i \in 1..Len(read) : read[i] = i
  /\ \A i \in 1..Len(fed) : fed[i] = i
  /\ r # Null => /\ Len(read) + Len(fed) = input.next - 1
                 /\ input.next <= r.body + 1

\* The buffer of a read in progress.
FrameInv ==
  /\ pc \in {"reading", "returned"} =>
       /\ r # Null /\ frame.bpos <= frame.want
       /\ frame.op \in {"all", "some"} => frame.want = frame.size - frame.blen
       /\ frame.op = "all" =>
            /\ frame.size >= 2 /\ frame.want > 0
            /\ Len(read) - frame.start = frame.blen + frame.bpos
  /\ pc = "returned" /\ frame.op = "all" /\ frame.bpos = 0 =>
       input.failed \/ postParsed \/ Left = 0

\* What POST and FILES are built from.
PostInv ==
  /\ pc \in {"parsing", "parsed"} =>
       /\ frame.op \in {"POST", "FILES"}
       /\ postTable \in Lists /\ postTable.bytes = Len(fed)
  /\ pc = "parsed" => input.failed \/ Left = 0
  /\ pc \in {"R", "reading", "returned"} /\ postParsed =>
       /\ postTable \in Lists /\ filesVar \in Lists
       /\ input.failed \/ postTable.bytes = r.body

BodyInv == TypeOK /\ FlagInv /\ OrderInv /\ FrameInv /\ PostInv
=============================================================================
