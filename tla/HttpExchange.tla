---------------------------- MODULE HttpExchange ----------------------------
(***************************************************************************)
(* Express/HTTP: one request and its reply, as ReadRequestHandler runs them*)
(* (HTTPProtocol.cpp).  The bytes of the request arrive in reads whose     *)
(* boundaries the network chooses; HttpScanner hands each read to          *)
(* http_parser, which calls back with the runs of bytes it finds           *)
(* (HttpScanner.cpp); once the header is complete the site's action writes *)
(* to a stream whose first flush makes Response put the head on the wire   *)
(* (Types.cpp).                                                            *)
(*                                                                         *)
(* A byte is an abstract symbol.  Where the handler suspends it goes on    *)
(* with the same state, so that suspending is no step of its own.          *)
(***************************************************************************)
EXTENDS Integers, Sequences, FiniteSets

\* Nothing refers to a definition whose comment begins with "Mutation": it is
\* what a plausible mistake would make of the definition that follows.

CONSTANTS Byte,
          Requests,    \* what a client may send, see Request below
          BufferLen,   \* ReadRequestHandler::bufferLen
          MaxWrites    \* bound: bytes an action writes to Response::body

(***************************************************************************)
(* A request is [method, elements, hangsUp].  Its elements are those that  *)
(* http_parser tells apart, in order: a url, a field and a value for each  *)
(* header, the end of the header, a body as long as Content-Length says.   *)
(* A client may stop after any of them, and hang up or stay.  Without a    *)
(* url there is no method.                                                 *)
(***************************************************************************)
Methods == {"get", "head"}

\* Which elements http_parser accepts after each.
After == [url   |-> {"field", "end"}, field |-> {"value"},
          value |-> {"field", "end"}, end   |-> {"body"}, body |-> {}]
Element == [is : DOMAIN After, text : Seq(Byte)]

WellFormed(elements) ==
  /\ elements \in Seq(Element)
  /\ \A i \in DOMAIN elements :
       /\ elements[i].is \in IF i = 1 THEN {"url"} ELSE After[elements[i - 1].is]
       /\ elements[i].is = "body" => elements[i].text # <<>>
       /\ elements[i].is = "end" => elements[i].text = <<>>

ASSUME ConstantsAssumption ==
  /\ BufferLen \in Nat \ {0}
  /\ MaxWrites \in Nat
  /\ \A r \in Requests :
       /\ r.method \in Methods
       /\ r.hangsUp \in BOOLEAN
       /\ WellFormed(r.elements)

VARIABLES
  request,          \* the request that the client sends
  phase,            \* where eventActivateNonBlocking() is
  at, off,          \* the parser's place: an element, bytes of it consumed
  buffered,         \* bytes of the last read the parser has not consumed
  more,             \* the first result of getMessageData()
  method, uri,      \* HttpParserData, and so on:
  currentHead, currentValue, gotValue, headers,
  body,             \* the bytes from bodyBegin to bodyEnd
  messageComplete,
  urlCut,           \* history: two reads have shared the url
  written,          \* bytes written to Response::body, that is its tellp()
  pending,          \* those still in the stream's buffer
  flusher,          \* ReadRequestHandler::flusher is set
  headerWritten,    \* Response::headerWritten
  contentLength,    \* the values of the reply's Content-Length header
  wire              \* what was written to the socket

readVars  == <<at, off, buffered, more>>
urlVars   == <<method, uri, urlCut>>
parseVars == <<urlVars, currentHead, currentValue, gotValue, headers,
               body, messageComplete>>
replyVars == <<written, pending, flusher, headerWritten, contentLength, wire>>
vars == <<request, phase, readVars, parseVars, replyVars>>

\* What follows the text of an element, a space, a colon or the end of the
\* line, is one more byte of it.
Size(e)  == IF e.is = "body" THEN Len(e.text) ELSE Len(e.text) + 1
Elements == request.elements
Unparsed == (UNION {{i} \X (1 .. Size(Elements[i])) : i \in at .. Len(Elements)})
              \ ({at} \X (1 .. off))
OnTheWay == Cardinality(Unparsed) - buffered

Init ==
  /\ request \in Requests
  /\ phase = "reading"
  /\ at = 1 /\ off = 0 /\ buffered = 0 /\ more = TRUE
  /\ method = "unset" /\ uri = <<>> /\ urlCut = FALSE
  /\ currentHead = <<>> /\ currentValue = <<>> /\ gotValue = FALSE
  /\ headers = <<>> /\ body = <<>> /\ messageComplete = FALSE
  /\ written = 0 /\ pending = 0
  /\ flusher = FALSE /\ headerWritten = FALSE
  /\ contentLength = <<>> /\ wire = <<>>

-----------------------------------------------------------------------------
(* The read loop.                                                          *)

\* Mutation: a read is as long as what has arrived.
ReceiveOverruns ==
  /\ phase = "reading"
  /\ phase' = "scanning"
  /\ OnTheWay > 0
  /\ buffered' = OnTheWay
  /\ UNCHANGED <<request, at, off, more, parseVars, replyVars>>

\* getMessageData() returns up to bufferLen bytes of those that have arrived.
\* It reports the end of the stream if it reads on to it.
Receive ==
  /\ phase = "reading"
  /\ phase' = "scanning"
  /\ \/ OnTheWay > 0 /\ buffered' \in {n \in 1 .. OnTheWay : n <= BufferLen}
     \/ OnTheWay = 0 /\ request.hangsUp /\ buffered' = 0
  /\ more' \in {TRUE} \cup (IF request.hangsUp /\ buffered' = OnTheWay
                              THEN {FALSE} ELSE {})
  /\ buffered' = 0 => ~more'
  /\ UNCHANGED <<request, at, off, parseVars, replyVars>>

\* The bytes of one element that http_parser goes through before it calls
\* back: up to the end of the element or of the buffer.  The text among them
\* is empty for a header without a value, and when a buffer has ended just
\* before the byte that ends the element.
Run == IF buffered < Size(Elements[at]) - off THEN buffered
                                              ELSE Size(Elements[at]) - off
Text == LET text == Elements[at].text
        IN SubSeq(text, off + 1, IF off + Run < Len(text) THEN off + Run
                                                          ELSE Len(text))

Callback(is) ==
  /\ phase = "scanning"
  /\ buffered > 0
  /\ at \in DOMAIN Elements /\ Elements[at].is = is
  /\ buffered' = buffered - Run
  /\ IF off + Run = Size(Elements[at]) THEN at' = at + 1 /\ off' = 0
                                       ELSE at' = at /\ off' = off + Run
  /\ UNCHANGED <<request, phase, more, replyVars>>

\* onUrl(): the run replaces what an earlier run has left in uri.
OnUrl ==
  /\ Callback("url")
  /\ method' = request.method
  /\ uri' = Text
  /\ urlCut' = (off > 0)
  /\ gotValue' = FALSE
  /\ UNCHANGED <<currentHead, currentValue, headers, body, messageComplete>>

\* HttpParserData::addCurrentHeader(): headers, currentHead and currentValue
\* after it.  A header that has a value is over.
HeadersAfter == IF gotValue THEN Append(headers, <<currentHead, currentValue>>)
                            ELSE headers

\* Mutation: currentHead is not cleared.
HeadKept == currentHead
HeadAfter == IF gotValue THEN <<>> ELSE currentHead
ValueAfter == IF gotValue THEN <<>> ELSE currentValue

\* onHeaderField().
OnHeaderField ==
  /\ Callback("field")
  /\ headers' = HeadersAfter
  /\ currentHead' = HeadAfter \o Text
  /\ currentValue' = ValueAfter
  /\ gotValue' = FALSE
  /\ UNCHANGED <<urlVars, body, messageComplete>>

\* onHeaderValue().
OnHeaderValue ==
  /\ Callback("value")
  /\ gotValue' = TRUE
  /\ currentValue' = currentValue \o Text
  /\ UNCHANGED <<urlVars, currentHead, headers, body, messageComplete>>

\* Mutation: messageComplete is left to onMessageComplete().
OnHeadersCompleteOnly ==
  /\ Callback("end")
  /\ headers' = HeadersAfter
  /\ currentHead' = HeadAfter
  /\ currentValue' = ValueAfter
  /\ gotValue' = FALSE
  /\ UNCHANGED <<urlVars, body, messageComplete>>

\* onHeadersComplete(): what follows is not the scanner's to collect.
OnHeadersComplete ==
  /\ Callback("end")
  /\ headers' = HeadersAfter
  /\ currentHead' = HeadAfter
  /\ currentValue' = ValueAfter
  /\ gotValue' = FALSE
  /\ messageComplete' = TRUE
  /\ UNCHANGED <<urlVars, body>>

\* onBody(): the part of the body that came with the end of the header.
OnBody ==
  /\ Callback("body")
  /\ body' = Text
  /\ UNCHANGED <<urlVars, currentHead, currentValue, gotValue, headers,
                 messageComplete>>

\* Mutation: the loop goes on at the end of the stream.
LoopEndsIfComplete == messageComplete

\* The loop ends with the header, or with the stream.
LoopEnds == messageComplete \/ ~more

\* The read is scanned: suspend(EV_READ), or start the action.  The Response
\* registers with the handler.  A method that no onUrl() has set is whatever
\* was in memory.
Scanned ==
  /\ phase = "scanning"
  /\ buffered = 0
  /\ IF LoopEnds
       THEN /\ phase' = "acting"
            /\ flusher' = TRUE
            /\ method' \in IF method = "unset" THEN Methods ELSE {method}
       ELSE phase' = "reading" /\ UNCHANGED <<flusher, method>>
  /\ UNCHANGED <<request, readVars, uri, urlCut, currentHead, currentValue, gotValue,
                 headers, body, messageComplete, written, pending,
                 headerWritten, contentLength, wire>>

-----------------------------------------------------------------------------
(* The action and its Response.                                            *)

\* The bytes of the reply to a HEAD request go to a DevNullStreamBuf.
DevNull == method = "head"

\* Mutation: the length is what has been written so far.
SizeSoFar(allDone) == written

\* The Content-Length of a head without one.
SizeText(allDone) == IF allDone THEN written ELSE -1

\* Response::flushing(allDone), and then n bytes of the stream's buffer: the
\* head precedes the first of them.
Flushing(allDone, calls, n) ==
  LET heads   == calls /\ ~headerWritten
      own     == contentLength # <<>>
      length  == IF own THEN contentLength[1] ELSE SizeText(allDone)
      head    == [is |-> "head", own |-> own, length |-> length]
      content == [i \in 1 .. n |-> [is |-> "body", own |-> FALSE, length |-> 1]]
  IN /\ headerWritten' = (headerWritten \/ calls)
     /\ contentLength' = IF heads THEN <<length>> ELSE contentLength
     /\ wire' = (IF heads THEN Append(wire, head) ELSE wire) \o content

\* The action writes to Response::body.
WriteBody ==
  /\ phase = "acting"
  /\ written < MaxWrites
  /\ written' = written + 1
  /\ pending' = IF DevNull THEN 0 ELSE pending + 1
  /\ UNCHANGED <<request, phase, readVars, parseVars, flusher, headerWritten,
                 contentLength, wire>>

\* The action sets a Content-Length of its own.
SetContentLength(n) ==
  /\ phase = "acting"
  /\ contentLength = <<>>
  /\ contentLength' = <<n>>
  /\ UNCHANGED <<request, phase, readVars, parseVars, written, pending,
                 flusher, headerWritten, wire>>

\* Mutation: the stream was built without the flushing callback.
FlushBodyOnly ==
  /\ phase = "acting"
  /\ ~DevNull
  /\ Flushing(FALSE, FALSE, pending)
  /\ pending' = 0
  /\ UNCHANGED <<request, phase, readVars, parseVars, written, flusher>>

\* The stream's buffer is full, or the action flushes it: the stream calls
\* ReadRequestHandler::flushing() first.
FlushBody ==
  /\ phase = "acting"
  /\ ~DevNull
  /\ Flushing(FALSE, flusher, pending)
  /\ pending' = 0
  /\ UNCHANGED <<request, phase, readVars, parseVars, written, flusher>>

\* The action returns or throws: ~Response calls flushing(true), and then the
\* stream is destroyed with what is left in its buffer.
ActionEnds(result) ==
  /\ phase = "acting"
  /\ phase' = result
  /\ flusher' = FALSE
  /\ Flushing(TRUE, TRUE, pending)
  /\ pending' = 0
  /\ UNCHANGED <<request, readVars, parseVars, written>>

-----------------------------------------------------------------------------

ReadLoop == \/ Receive \/ Scanned
            \/ OnUrl \/ OnHeaderField \/ OnHeaderValue
            \/ OnHeadersComplete \/ OnBody

Next == \/ ReadLoop
        \/ WriteBody
        \/ \E n \in 0 .. MaxWrites : SetContentLength(n)
        \/ FlushBody
        \/ \E result \in {"replied", "threw"} : ActionEnds(result)

Spec == Init /\ [][Next]_vars

(***************************************************************************)
(* What the client has sent arrives and the event loop activates the       *)
(* handler for it (the handler waits for EV_READ); the action ends.        *)
(***************************************************************************)
Fairness ==
  /\ WF_vars(ReadLoop)
  /\ WF_vars(\E result \in {"replied", "threw"} : ActionEnds(result))

FairSpec == Spec /\ Fairness

-----------------------------------------------------------------------------
(* Properties.                                                             *)

\* The types of the variables.
TypeOK ==
  /\ request \in Requests
  /\ phase \in {"reading", "scanning", "acting", "replied", "threw"}
  /\ at \in 1 .. Len(Elements) + 1
  /\ off \in Nat
  /\ buffered \in 0 .. BufferLen
  /\ method \in Methods \cup {"unset"}
  /\ {more, gotValue, messageComplete, flusher, headerWritten} \subseteq BOOLEAN
  /\ pending \in 0 .. written
  /\ written \in 0 .. MaxWrites
  /\ Len(contentLength) \in 0 .. 1

FieldsUpTo(elements, i) == {j \in 1 .. i : elements[j].is = "field"}

HasEnd == \E i \in DOMAIN Elements : Elements[i].is = "end"

\* However the network cuts the header into reads, the action sees the headers
\* that were sent, in their order: none is lost, split, or merged with its
\* neighbour.  It sees the url too, but only if one read has brought it.
HeadersAreSent ==
  messageComplete =>
    /\ Len(headers) = Cardinality(FieldsUpTo(Elements, Len(Elements)))
    /\ \A i \in FieldsUpTo(Elements, Len(Elements)) :
         headers[Cardinality(FieldsUpTo(Elements, i))]
           = <<Elements[i].text, Elements[i + 1].text>>
    /\ ~urlCut => uri = Elements[1].text

\* The action reads the whole body: the part that the scanner has taken from
\* the last read, followed by what is still on its way.
BodyIsSent ==
  phase = "acting" /\ HasEnd =>
    \A i \in DOMAIN Elements :
      Elements[i].is = "body" =>
        /\ at >= i
        /\ body \o (IF at = i THEN SubSeq(Elements[i].text, off + 1,
                                          Len(Elements[i].text))
                              ELSE <<>>) = Elements[i].text

\* A reply begins with its head, and has one: no byte of the body overtakes
\* it, whenever the stream's buffer is flushed.
HeadIsFirst == \A i \in DOMAIN wire : wire[i].is = "head" <=> i = 1

\* A Content-Length that Response has worked out is the number of bytes of the
\* body that follow; of a HEAD request, of those that GET would give.
LengthIsExact ==
  phase \in {"replied", "threw"} /\ ~wire[1].own /\ wire[1].length # -1 =>
    /\ wire[1].length = written
    /\ ~DevNull => Len(wire) = 1 + written

\* A request whose header is complete, or whose client has hung up, gets a
\* reply, wherever the reads end.
RequestIsAnswered ==
  phase = "reading" /\ (HasEnd \/ request.hangsUp)
    ~> phase \in {"replied", "threw"} /\ wire # <<>>

=============================================================================
