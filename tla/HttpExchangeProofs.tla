------------------------- MODULE HttpExchangeProofs -------------------------
(***************************************************************************)
(* What HttpExchange's actions do whatever the client sends, however long  *)
(* the texts are, wherever the reads end and whenever the action flushes.  *)
(***************************************************************************)
EXTENDS HttpExchange, FiniteSetTheorems, SequenceTheorems, TLAPS

(***************************************************************************)
(* The parser's place, seen from the last callback: the element it was for *)
(* and the part of that element's text that has been handed over.          *)
(***************************************************************************)
Place == IF off = 0 THEN at - 1 ELSE at
Part  == IF off = 0 THEN Elements[Place].text ELSE SubSeq(Elements[at].text, 1, off)

\* The last callback was for an element of this kind.
Last(is) == Place # 0 /\ Elements[Place].is = is

Sent == [is : {"head", "body"}, own : BOOLEAN, length : Int]

ParseTypes ==
  /\ request \in Requests
  /\ WellFormed(Elements)
  /\ at \in 1 .. Len(Elements) + 1
  /\ off \in Nat
  /\ off # 0 => at \in DOMAIN Elements /\ off < Size(Elements[at])
  /\ buffered \in 0 .. BufferLen
  /\ {more, gotValue, messageComplete, urlCut} \subseteq BOOLEAN
  /\ method \in Methods \cup {"unset"}
  /\ uri \in Seq(Byte)
  /\ currentHead \in Seq(Byte)
  /\ currentValue \in Seq(Byte)
  /\ body \in Seq(Byte)
  /\ headers \in Seq(Seq(Byte) \X Seq(Byte))

\* The headers hs are those of the first i elements.
Collected(elements, hs, i) ==
  /\ Len(hs) = Cardinality(FieldsUpTo(elements, i))
  /\ \A j \in FieldsUpTo(elements, i) :
       hs[Cardinality(FieldsUpTo(elements, j))]
         = <<elements[j].text, elements[j + 1].text>>

\* What the scanner keeps of the header: the element of the last callback is
\* in currentHead or currentValue, those before are in headers.
HeadersSoFar ==
  /\ Place = 0 \/ Last("url") =>
       ~gotValue /\ currentHead = <<>> /\ currentValue = <<>> /\ headers = <<>>
  /\ Last("field") =>
       ~gotValue /\ currentHead = Part /\ currentValue = <<>> /\ Collected(Elements, headers, Place - 1)
  /\ Last("value") =>
       /\ gotValue /\ Collected(Elements, headers, Place - 2)
       /\ currentHead = Elements[Place - 1].text /\ currentValue = Part
  /\ Last("end") \/ Last("body") => Collected(Elements, headers, Place)

UrlSoFar == Place # 0 /\ (off = 0 \/ Place # 1) /\ ~urlCut => uri = Elements[1].text

CompleteIfPassed == messageComplete <=> Last("end") \/ Last("body")

\* The loop ends before a second callback for the body.
BodySoFar ==
  /\ IF Last("body") THEN body = Part ELSE body = <<>>
  /\ phase = "reading" => ~messageComplete /\ more /\ buffered = 0
  /\ phase = "scanning" /\ Last("body") => buffered = 0
  /\ phase \notin {"reading", "scanning"} => buffered = 0 /\ (messageComplete \/ ~more)

\* The end of the stream is reported when everything has been read.
NothingIsSkipped ==
  /\ buffered <= Cardinality(Unparsed)
  /\ ~more => buffered = Cardinality(Unparsed)

ScannerInvariant ==
  /\ ParseTypes /\ HeadersSoFar /\ UrlSoFar
  /\ CompleteIfPassed /\ BodySoFar /\ NothingIsSkipped

ReplyTypes ==
  /\ phase \in {"reading", "scanning", "acting", "replied", "threw"}
  /\ written \in 0 .. MaxWrites
  /\ pending \in 0 .. written
  /\ {flusher, headerWritten} \subseteq BOOLEAN
  /\ contentLength \in Seq(Int) /\ Len(contentLength) <= 1
  /\ wire \in Seq(Sent)

\* Until the action starts nothing is written, and until the head is, nothing
\* is on the wire.  A head that leaves before the end has no length.
ReplySoFar ==
  /\ phase \in {"reading", "scanning"} =>
       written = 0 /\ pending = 0 /\ ~headerWritten /\ contentLength = <<>>
  /\ phase = "acting" => flusher
  /\ phase \in {"replied", "threw"} => headerWritten
  /\ IF headerWritten THEN Len(wire) >= 1 ELSE wire = <<>>
  /\ ~DevNull => Len(wire) + pending = written + (IF headerWritten THEN 1 ELSE 0)
  /\ phase \in {"replied", "threw"} => pending = 0
  /\ phase = "acting" /\ headerWritten => wire[1].own \/ wire[1].length = -1

ReplyInvariant == ReplyTypes /\ ReplySoFar /\ HeadIsFirst /\ LengthIsExact

-----------------------------------------------------------------------------
(* The reply.                                                              *)

USE ConstantsAssumption

\* The steps of the read loop leave the reply alone.
LEMMA ReadingWritesNothing ==
  ASSUME ReplyInvariant, ReadLoop
  PROVE  ReplyInvariant'
<1>1. phase \in {"reading", "scanning"}
  BY DEF ReadLoop, Receive, Scanned, OnUrl, OnHeaderField, OnHeaderValue,
         OnHeadersComplete, OnBody, Callback
<1>2. /\ phase' \in {"reading", "scanning", "acting"}
      /\ phase' = "acting" => flusher'
      /\ flusher' \in BOOLEAN
      /\ UNCHANGED <<written, pending, headerWritten, contentLength, wire>>
  BY <1>1 DEF ReadLoop, Receive, Scanned, OnUrl, OnHeaderField, OnHeaderValue,
         OnHeadersComplete, OnBody, Callback, replyVars, ReplyInvariant, ReplyTypes
<1>3. wire = <<>> /\ Len(wire) = 0
  BY <1>1 DEF ReplyInvariant, ReplySoFar
<1> QED
  BY <1>1, <1>2, <1>3 DEF ReplyInvariant, ReplyTypes, ReplySoFar, HeadIsFirst,
         LengthIsExact, DevNull

\* A flush of n bytes of an action at work: what is on the wire afterwards.
LEMMA FlushedWire ==
  ASSUME ReplyInvariant, NEW allDone \in BOOLEAN, Flushing(allDone, TRUE, pending)
  PROVE  /\ headerWritten' = TRUE
         /\ contentLength' \in Seq(Int) /\ Len(contentLength') <= 1
         /\ wire' \in Seq(Sent)
         /\ Len(wire') = Len(wire) + (IF headerWritten THEN 0 ELSE 1) + pending
         /\ IF headerWritten THEN wire'[1] = wire[1]
            ELSE wire'[1].own \/ wire'[1].length = SizeText(allDone)
         /\ HeadIsFirst'
<1> DEFINE own     == contentLength # <<>>
           length  == IF own THEN contentLength[1] ELSE SizeText(allDone)
           head    == [is |-> "head", own |-> own, length |-> length]
           content == [i \in 1 .. pending |->
                         [is |-> "body", own |-> FALSE, length |-> 1]]
           first   == IF headerWritten THEN wire ELSE Append(wire, head)
<1> USE DEF ReplyInvariant, ReplyTypes
<1>1. headerWritten \in BOOLEAN /\ pending \in Nat
  OBVIOUS
<1>2. length \in Int
  <2>1. SizeText(allDone) \in Int
    BY DEF SizeText
  <2>2. CASE own
    BY <2>2, ElementOfSeq, EmptySeq
  <2> QED
    BY <2>1, <2>2
<1>3. head \in Sent
  BY <1>2 DEF Sent
<1>4. content \in Seq(Sent) /\ Len(content) = pending
  <2>1. \A i \in 1 .. pending : content[i] \in Sent
    BY DEF Sent
  <2> QED
    BY <1>1, <2>1
<1>5. /\ headerWritten' = TRUE
      /\ contentLength' = IF headerWritten THEN contentLength ELSE <<length>>
      /\ wire' = first \o content
  BY <1>1, Zenon DEF Flushing
<1> HIDE DEF length, head, content
<1>6. contentLength' \in Seq(Int) /\ Len(contentLength') <= 1
  BY <1>2, <1>5
<1>7. /\ first \in Seq(Sent)
      /\ Len(first) = Len(wire) + (IF headerWritten THEN 0 ELSE 1)
      /\ Len(first) >= 1
      /\ first[1] = IF headerWritten THEN wire[1] ELSE head
      /\ \A i \in 1 .. Len(first) : first[i].is = "head" <=> i = 1
  <2>1. CASE headerWritten
    BY <2>1, LenProperties DEF ReplySoFar, HeadIsFirst
  <2>2. CASE ~headerWritten
    <3>1. wire = <<>>
      BY <2>2 DEF ReplySoFar
    <3>2. first = <<head>>
      BY <2>2, <3>1, <1>3, AppendIsConcat, ConcatEmptySeq
    <3> QED
      BY <2>2, <3>1, <3>2, <1>3 DEF head
  <2> QED
    BY <2>1, <2>2, <1>1
<1>8. /\ wire' \in Seq(Sent)
      /\ Len(wire') = Len(first) + pending
      /\ \A i \in 1 .. Len(first) + pending :
           wire'[i] = IF i <= Len(first) THEN first[i] ELSE content[i - Len(first)]
  <2>1. first \in Seq(Sent) /\ content \in Seq(Sent)
    BY <1>4, <1>7, Zenon
  <2> HIDE DEF first
  <2>2. /\ first \o content \in Seq(Sent)
        /\ Len(first \o content) = Len(first) + Len(content)
        /\ \A i \in 1 .. Len(first) + Len(content) :
             (first \o content)[i] = IF i <= Len(first) THEN first[i]
                                                       ELSE content[i - Len(first)]
    BY <2>1, ConcatProperties, Zenon
  <2>3. Len(content) = pending /\ wire' = first \o content
    BY <1>4, <1>5, Zenon DEF first
  <2> QED
    BY <2>2, <2>3, Zenon
<1>9. HeadIsFirst'
  <2>1. \A i \in 1 .. pending : content[i].is = "body"
    BY DEF content
  <2>2. DOMAIN wire' = 1 .. Len(first) + pending
    BY <1>8, LenProperties
  <2>3. ASSUME NEW i \in 1 .. Len(first) + pending
        PROVE  wire'[i].is = "head" <=> i = 1
    <3>1. Len(first) \in Nat
      BY <1>7, LenProperties
    <3>2. CASE i <= Len(first)
      BY <3>1, <3>2, <1>7, <1>8
    <3>3. CASE ~ (i <= Len(first))
      <4>1. i - Len(first) \in 1 .. pending /\ i # 1
        BY <3>1, <3>3, <1>1, <1>7
      <4> QED
        BY <3>3, <4>1, <2>1, <1>8
    <3> QED
      BY <3>2, <3>3
  <2> QED
    BY <2>2, <2>3 DEF HeadIsFirst
<1>10. wire'[1] = first[1]
  BY <1>1, <1>7, <1>8, LenProperties
<1>11. head.own \/ head.length = SizeText(allDone)
  <2>1. CASE own
    BY <2>1, Zenon DEF head
  <2>2. CASE ~own
    BY <2>2, Zenon DEF head, length
  <2> QED
    BY <2>1, <2>2
<1> QED
  BY <1>5, <1>6, <1>7, <1>8, <1>9, <1>10, <1>11

\* Only what the action does changes the reply.
LEMMA ReplyStep ==
  ASSUME ReplyInvariant, [Next]_vars
  PROVE  ReplyInvariant'
<1>1. CASE ReadLoop
  BY <1>1, ReadingWritesNothing
<1>2. CASE WriteBody
  BY <1>2 DEF WriteBody, ReplyInvariant, ReplyTypes, ReplySoFar, HeadIsFirst,
         LengthIsExact, DevNull, parseVars, urlVars
<1>3. ASSUME NEW n \in 0 .. MaxWrites, SetContentLength(n)
      PROVE  ReplyInvariant'
  <2>1. contentLength' \in Seq(Int) /\ Len(contentLength') <= 1
    BY <1>3 DEF SetContentLength
  <2> QED
    BY <1>3, <2>1 DEF SetContentLength, ReplyInvariant, ReplyTypes, ReplySoFar,
         HeadIsFirst, LengthIsExact, DevNull, parseVars, urlVars
<1>4. CASE FlushBody
  <2>1. Flushing(FALSE, TRUE, pending) /\ phase = "acting"
    <3>1. flusher = TRUE
      BY <1>4 DEF FlushBody, ReplyInvariant, ReplyTypes, ReplySoFar
    <3> QED
      BY <1>4, <3>1 DEF FlushBody
  <2>2. /\ phase' = "acting" /\ pending' = 0 /\ DevNull' = DevNull
        /\ UNCHANGED <<written, flusher>>
    BY <1>4, <2>1 DEF FlushBody, parseVars, urlVars, DevNull
  <2>3. /\ headerWritten' = TRUE
        /\ contentLength' \in Seq(Int) /\ Len(contentLength') <= 1
        /\ wire' \in Seq(Sent)
        /\ Len(wire') = Len(wire) + (IF headerWritten THEN 0 ELSE 1) + pending
        /\ HeadIsFirst'
    BY <2>1, FlushedWire
  <2>4. IF headerWritten THEN wire'[1] = wire[1]
        ELSE wire'[1].own \/ wire'[1].length = SizeText(FALSE)
    BY <2>1, FlushedWire
  <2>5. /\ wire \in Seq(Sent) /\ Len(wire) \in Nat /\ Len(wire') \in Nat
        /\ written \in Nat /\ pending \in 0 .. written
        /\ flusher \in BOOLEAN /\ headerWritten \in BOOLEAN
    BY <2>3, LenProperties DEF ReplyInvariant, ReplyTypes
  <2>6. ReplyTypes'
    BY <2>2, <2>3, <2>5 DEF ReplyInvariant, ReplyTypes
  <2>7. Len(wire) = IF headerWritten THEN Len(wire) ELSE 0
    BY <2>5 DEF ReplyInvariant, ReplySoFar
  <2>8. ~DevNull => Len(wire') = written + 1
    BY <2>3, <2>5, <2>7 DEF ReplyInvariant, ReplySoFar
  <2>9. wire'[1].own \/ wire'[1].length = -1
    <3>1. CASE headerWritten
      BY <3>1, <2>1, <2>4 DEF ReplyInvariant, ReplySoFar
    <3>2. CASE ~headerWritten
      BY <3>2, <2>4, Zenon DEF SizeText
    <3> QED
      BY <3>1, <3>2
  <2>10. ReplySoFar'
    BY <2>1, <2>2, <2>3, <2>5, <2>8, <2>9 DEF ReplyInvariant, ReplySoFar
  <2> QED
    BY <2>2, <2>3, <2>6, <2>10 DEF ReplyInvariant, LengthIsExact
<1>5. ASSUME NEW result \in {"replied", "threw"}, ActionEnds(result)
      PROVE  ReplyInvariant'
  <2>1. Flushing(TRUE, TRUE, pending) /\ phase = "acting"
    BY <1>5 DEF ActionEnds
  <2>2. /\ phase' \in {"replied", "threw"} /\ phase' # "acting" /\ pending' = 0 /\ DevNull' = DevNull
        /\ UNCHANGED written
    BY <1>5, <2>1 DEF ActionEnds, parseVars, urlVars, DevNull
  <2> flusher' \in BOOLEAN /\ headerWritten' \in BOOLEAN
    <3>1. flusher' = FALSE /\ headerWritten' = TRUE
      BY <1>5, <2>1, FlushedWire DEF ActionEnds
    <3> QED
      BY <3>1, Zenon
  <2>3. /\ headerWritten' = TRUE
        /\ contentLength' \in Seq(Int) /\ Len(contentLength') <= 1
        /\ wire' \in Seq(Sent)
        /\ Len(wire') = Len(wire) + (IF headerWritten THEN 0 ELSE 1) + pending
        /\ HeadIsFirst'
    BY <2>1, FlushedWire
  <2>4. IF headerWritten THEN wire'[1] = wire[1]
        ELSE wire'[1].own \/ wire'[1].length = SizeText(TRUE)
    BY <2>1, FlushedWire
  <2>5. /\ wire \in Seq(Sent) /\ Len(wire) \in Nat /\ Len(wire') \in Nat
        /\ written \in Nat /\ pending \in 0 .. written
        /\ flusher \in BOOLEAN /\ headerWritten \in BOOLEAN
    BY <2>3, LenProperties DEF ReplyInvariant, ReplyTypes
  <2>6. ReplyTypes'
    BY <2>2, <2>3, <2>5 DEF ReplyInvariant, ReplyTypes
  <2>7. Len(wire) = IF headerWritten THEN Len(wire) ELSE 0
    BY <2>5 DEF ReplyInvariant, ReplySoFar
  <2>8. ~DevNull => Len(wire') = written + 1
    BY <2>3, <2>5, <2>7 DEF ReplyInvariant, ReplySoFar
  <2>9. ReplySoFar'
    BY <2>2, <2>3, <2>5, <2>8 DEF ReplyInvariant, ReplySoFar
  <2>10. wire'[1].own \/ wire'[1].length \in {-1, written}
    <3>1. CASE headerWritten
      BY <3>1, <2>1, <2>4 DEF ReplyInvariant, ReplySoFar
    <3>2. CASE ~headerWritten
      BY <3>2, <2>4, Zenon DEF SizeText
    <3> QED
      BY <3>1, <3>2
  <2>11. LengthIsExact'
    BY <2>2, <2>5, <2>8, <2>10 DEF LengthIsExact
  <2> QED
    BY <2>3, <2>6, <2>9, <2>11 DEF ReplyInvariant
<1>6. CASE UNCHANGED vars
  BY <1>6 DEF vars, parseVars, urlVars, replyVars, ReplyInvariant, ReplyTypes,
         ReplySoFar, HeadIsFirst, LengthIsExact, DevNull
<1> QED
  BY <1>1, <1>2, <1>3, <1>4, <1>5, <1>6 DEF Next

LEMMA ReplyInit == Init => ReplyInvariant
<1> SUFFICES ASSUME Init PROVE ReplyInvariant
  OBVIOUS
<1>1. /\ contentLength \in Seq(Int) /\ Len(contentLength) = 0
      /\ wire \in Seq(Sent) /\ Len(wire) = 0 /\ DOMAIN wire = {}
  BY EmptySeq DEF Init
<1>2. ReplyTypes
  <2>1. flusher \in BOOLEAN /\ headerWritten \in BOOLEAN
    BY Zenon DEF Init
  <2>2. phase = "reading" /\ written = 0 /\ pending = 0
    BY DEF Init
  <2> QED
    BY <1>1, <2>1, <2>2 DEF ReplyTypes
<1>3. ReplySoFar /\ HeadIsFirst /\ LengthIsExact
  BY <1>1 DEF Init, ReplySoFar, HeadIsFirst, LengthIsExact
<1> QED
  BY <1>2, <1>3 DEF ReplyInvariant

LEMMA ReplyInvariantHolds == Spec => []ReplyInvariant
  BY ReplyInit, ReplyStep, PTL DEF Spec

\* Whatever the action writes, sets and flushes, and even if it throws: the
\* reply has one head and it comes first (Response::flushing).
THEOREM HeadFirst == Spec => []HeadIsFirst
<1>1. ReplyInvariant => HeadIsFirst
  BY DEF ReplyInvariant
<1> QED
  BY <1>1, ReplyInvariantHolds, PTL

\* A Content-Length that Response has worked out is that of the body.
THEOREM LengthExact == Spec => []LengthIsExact
<1>1. ReplyInvariant => LengthIsExact
  BY DEF ReplyInvariant
<1> QED
  BY <1>1, ReplyInvariantHolds, PTL

-----------------------------------------------------------------------------
(* The elements of a request.                                              *)

LEMMA AfterWhat ==
  /\ DOMAIN After = {"url", "field", "value", "end", "body"}
  /\ After["url"] = {"field", "end"} /\ After["field"] = {"value"}
  /\ After["value"] = {"field", "end"} /\ After["end"] = {"body"}
  /\ After["body"] = {}
  BY DEF After

\* What precedes each element of a well-formed request, and what may follow.
LEMMA Neighbours ==
  ASSUME ParseTypes
  PROVE  /\ Len(Elements) \in Nat /\ DOMAIN Elements = 1 .. Len(Elements)
         /\ \A i \in 1 .. Len(Elements) :
              /\ Elements[i].is \in {"url", "field", "value", "end", "body"}
              /\ Elements[i].text \in Seq(Byte)
              /\ Elements[i].is = "url" <=> i = 1
              /\ Elements[i].is = "field" => Elements[i - 1].is \in {"url", "value"}
              /\ Elements[i].is = "value" => Elements[i - 1].is = "field"
              /\ Elements[i].is = "end" =>
                   Elements[i - 1].is \in {"url", "value"} /\ Elements[i].text = <<>>
              /\ Elements[i].is = "body" =>
                   Elements[i - 1].is = "end" /\ Elements[i].text # <<>>
         /\ \A i \in 1 .. Len(Elements) - 1 :
              /\ Elements[i].is # "body"
              /\ Elements[i].is = "end" => Elements[i + 1].is = "body"
              /\ Elements[i].is = "field" => Elements[i + 1].is = "value"
<1>1. /\ Elements \in Seq(Element)
      /\ \A i \in DOMAIN Elements :
           /\ Elements[i].is \in IF i = 1 THEN {"url"} ELSE After[Elements[i - 1].is]
           /\ Elements[i].is = "body" => Elements[i].text # <<>>
           /\ Elements[i].is = "end" => Elements[i].text = <<>>
  BY DEF ParseTypes, WellFormed
<1>2. Len(Elements) \in Nat /\ DOMAIN Elements = 1 .. Len(Elements)
  BY <1>1, LenProperties
<1>3. \A i \in 1 .. Len(Elements) : Elements[i] \in Element
  BY <1>1, ElementOfSeq
<1>4. \A i \in 1 .. Len(Elements) :
        /\ Elements[i].is \in {"url", "field", "value", "end", "body"}
        /\ Elements[i].text \in Seq(Byte)
  BY <1>3, AfterWhat DEF Element
<1>5. ASSUME NEW i \in 1 .. Len(Elements), i # 1
      PROVE  /\ i - 1 \in 1 .. Len(Elements)
             /\ \/ Elements[i - 1].is = "url" /\ Elements[i].is \in {"field", "end"}
                \/ Elements[i - 1].is = "field" /\ Elements[i].is = "value"
                \/ Elements[i - 1].is = "value" /\ Elements[i].is \in {"field", "end"}
                \/ Elements[i - 1].is = "end" /\ Elements[i].is = "body"
  <2>1. i - 1 \in 1 .. Len(Elements)
    BY <1>2, <1>5
  <2>2. Elements[i].is \in After[Elements[i - 1].is]
    BY <1>1, <1>2, <1>5
  <2> QED
    BY <2>1, <2>2, <1>4, AfterWhat
<1>6. ASSUME NEW i \in 1 .. Len(Elements) - 1
      PROVE  i + 1 \in 1 .. Len(Elements) /\ i + 1 # 1 /\ (i + 1) - 1 = i
  BY <1>2
<1>7. ASSUME NEW i \in 1 .. Len(Elements) - 1
      PROVE  /\ Elements[i].is # "body"
             /\ Elements[i].is = "end" => Elements[i + 1].is = "body"
             /\ Elements[i].is = "field" => Elements[i + 1].is = "value"
  <2> DEFINE j == i + 1
  <2>1. j \in 1 .. Len(Elements) /\ j # 1 /\ j - 1 = i
    BY <1>6
  <2> HIDE DEF j
  <2>2. \/ Elements[i].is = "url" /\ Elements[j].is \in {"field", "end"}
        \/ Elements[i].is = "field" /\ Elements[j].is = "value"
        \/ Elements[i].is = "value" /\ Elements[j].is \in {"field", "end"}
        \/ Elements[i].is = "end" /\ Elements[j].is = "body"
    BY <2>1, <1>5
  <2> QED
    BY <2>2 DEF j
<1>8. Len(Elements) # 0 => Elements[1].is = "url"
  BY <1>1, <1>2
<1>9. ASSUME NEW i \in 1 .. Len(Elements)
      PROVE  /\ Elements[i].is = "url" <=> i = 1
             /\ Elements[i].is = "field" => Elements[i - 1].is \in {"url", "value"}
             /\ Elements[i].is = "value" => Elements[i - 1].is = "field"
             /\ Elements[i].is = "end" => Elements[i - 1].is \in {"url", "value"}
             /\ Elements[i].is = "body" => Elements[i - 1].is = "end"
  <2>1. CASE i = 1
    BY <2>1, <1>2, <1>8
  <2>2. CASE i # 1
    BY <2>2, <1>5
  <2> QED
    BY <2>1, <2>2
<1> QED
  BY <1>1, <1>2, <1>4, <1>7, <1>9

\* The number of fields among the first i elements.
LEMMA FieldCount ==
  ASSUME ParseTypes, NEW i \in 0 .. Len(Elements)
  PROVE  /\ IsFiniteSet(FieldsUpTo(Elements, i)) /\ Cardinality(FieldsUpTo(Elements, i)) \in Nat
         /\ i = 0 => FieldsUpTo(Elements, i) = {} /\ Cardinality(FieldsUpTo(Elements, i)) = 0
         /\ i > 0 /\ Elements[i].is # "field" => FieldsUpTo(Elements, i) = FieldsUpTo(Elements, i - 1)
         /\ i > 0 /\ Elements[i].is = "field" =>
              /\ FieldsUpTo(Elements, i) = FieldsUpTo(Elements, i - 1) \cup {i}
              /\ Cardinality(FieldsUpTo(Elements, i)) = Cardinality(FieldsUpTo(Elements, i - 1)) + 1
<1>1. i \in Nat /\ i \in Int
  BY Neighbours
<1>2. IsFiniteSet(1 .. i) /\ FieldsUpTo(Elements, i) \in SUBSET (1 .. i)
  BY <1>1, FS_Interval DEF FieldsUpTo
<1>3. IsFiniteSet(FieldsUpTo(Elements, i))
  BY <1>2, FS_Subset
<1>4. Cardinality(FieldsUpTo(Elements, i)) \in Nat
  BY <1>3, FS_CardinalityType
<1>5. i = 0 => FieldsUpTo(Elements, i) = {}
  BY DEF FieldsUpTo
<1>6. i > 0 /\ Elements[i].is # "field" => FieldsUpTo(Elements, i) = FieldsUpTo(Elements, i - 1)
  BY <1>1 DEF FieldsUpTo
<1>7. ASSUME i > 0, Elements[i].is = "field"
      PROVE  /\ FieldsUpTo(Elements, i) = FieldsUpTo(Elements, i - 1) \cup {i}
             /\ Cardinality(FieldsUpTo(Elements, i)) = Cardinality(FieldsUpTo(Elements, i - 1)) + 1
  <2>1. FieldsUpTo(Elements, i) = FieldsUpTo(Elements, i - 1) \cup {i} /\ i \notin FieldsUpTo(Elements, i - 1)
    BY <1>1, <1>7 DEF FieldsUpTo
  <2>2. IsFiniteSet(FieldsUpTo(Elements, i - 1))
    BY <2>1, <1>3, FS_Subset
  <2> QED
    BY <2>1, <2>2, FS_AddElement
<1> QED
  BY <1>3, <1>4, <1>5, <1>6, <1>7, FS_EmptySet

\* A field is counted at its own place: its number among all is its number
\* among those up to it.
LEMMA FieldNumber ==
  ASSUME ParseTypes, NEW i \in 0 .. Len(Elements), NEW j \in FieldsUpTo(Elements, i)
  PROVE  /\ j \in 1 .. i
         /\ Cardinality(FieldsUpTo(Elements, j)) \in 1 .. Cardinality(FieldsUpTo(Elements, i))
<1>1. j \in 1 .. i /\ Elements[j].is = "field" /\ j \in 0 .. Len(Elements)
  BY Neighbours DEF FieldsUpTo
<1>2. j \in FieldsUpTo(Elements, j) /\ FieldsUpTo(Elements, j) \in SUBSET FieldsUpTo(Elements, i)
  BY <1>1, Neighbours DEF FieldsUpTo
<1>3. /\ IsFiniteSet(FieldsUpTo(Elements, i)) /\ Cardinality(FieldsUpTo(Elements, i)) \in Nat
      /\ IsFiniteSet(FieldsUpTo(Elements, j)) /\ Cardinality(FieldsUpTo(Elements, j)) \in Nat
  BY <1>1, FieldCount
<1>4. Cardinality(FieldsUpTo(Elements, j)) <= Cardinality(FieldsUpTo(Elements, i))
  BY <1>2, <1>3, FS_Subset
<1>5. Cardinality(FieldsUpTo(Elements, j)) # 0
  BY <1>2, <1>3, FS_EmptySet
<1> QED
  BY <1>1, <1>3, <1>4, <1>5

-----------------------------------------------------------------------------
(* Callbacks.                                                              *)

\* The beginning of a text, in two pieces.
LEMMA TwoPieces ==
  ASSUME NEW S, NEW seq \in Seq(S),
         NEW m \in 0 .. Len(seq), NEW n \in m .. Len(seq)
  PROVE  SubSeq(seq, 1, m) \o SubSeq(seq, m + 1, n) = SubSeq(seq, 1, n)
<1>1. 1 \in 1 .. Len(seq) + 1 /\ m \in 1 - 1 .. Len(seq)
  BY LenProperties
<1> QED
  BY <1>1, ConcatAdjacentSubSeq

\* A callback makes the element at the parser's place the last one, and hands
\* over the text that follows what it has had of it.
LEMMA CallbackMoves ==
  ASSUME ParseTypes, NEW is, Callback(is)
  PROVE  /\ at \in 1 .. Len(Elements) /\ Elements[at].is = is
         /\ phase = "scanning"
         /\ UNCHANGED <<request, phase, more, replyVars, Elements>>
         /\ Run \in 1 .. buffered /\ buffered' = buffered - Run
         /\ off + Run <= Size(Elements[at])
         /\ at' \in 1 .. Len(Elements) + 1 /\ off' \in Nat
         /\ off' # 0 => at' \in 1 .. Len(Elements) /\ off' < Size(Elements[at'])
         /\ IF off + Run = Size(Elements[at]) THEN at' = at + 1 /\ off' = 0
                                              ELSE at' = at /\ off' = off + Run
         /\ Place' = at
         /\ Text \in Seq(Byte) /\ Part' \in Seq(Byte)
         /\ Part' = IF off = 0 THEN Text ELSE Part \o Text
<1>1. /\ at \in 1 .. Len(Elements) /\ Elements[at].is = is
      /\ buffered \in Nat /\ buffered > 0
  BY Neighbours DEF Callback, ParseTypes
<1> DEFINE text == Elements[at].text
           size == Size(Elements[at])
           upto == IF off + Run < Len(text) THEN off + Run ELSE Len(text)
<1>2. /\ text \in Seq(Byte) /\ Len(text) \in Nat
      /\ size = IF is = "body" THEN Len(text) ELSE Len(text) + 1
  BY <1>1, Neighbours, LenProperties DEF Size
<1>3. size \in Nat /\ size >= 1 /\ off < size /\ off \in Nat
  <2>1. is = "body" => Len(text) # 0
    BY <1>1, <1>2, Neighbours, EmptySeq
  <2> QED
    BY <1>2, <2>1 DEF ParseTypes
<1>4. Run \in 1 .. buffered /\ off + Run <= size
  BY <1>1, <1>3 DEF Run
<1>5. /\ UNCHANGED <<request, phase, more, replyVars, Elements>>
      /\ phase = "scanning" /\ buffered' = buffered - Run
      /\ IF off + Run = size THEN at' = at + 1 /\ off' = 0
                             ELSE at' = at /\ off' = off + Run
  BY DEF Callback, Elements
<1>6. /\ at' \in 1 .. Len(Elements) + 1 /\ off' \in Nat
      /\ off' # 0 => at' \in 1 .. Len(Elements) /\ off' < Size(Elements[at'])
  BY <1>1, <1>3, <1>4, <1>5, Neighbours
<1>7. Place' = at
  BY <1>1, <1>3, <1>4, <1>5, Neighbours DEF Place
<1>8. Part' = SubSeq(text, 1, upto)
  <2>1. CASE off + Run = size
    <3>1. upto = Len(text)
      BY <2>1, <1>2, <1>3, <1>4
    <3>2. Part' = text
      BY <2>1, <1>5, <1>7 DEF Part
    <3> QED
      BY <3>1, <3>2, <1>2, SubSeqFull
  <2>2. CASE off + Run # size
    <3>1. upto = off + Run /\ off + Run # 0
      BY <2>2, <1>1, <1>2, <1>3, <1>4
    <3>2. Part' = SubSeq(text, 1, off')
      BY <2>2, <3>1, <1>5 DEF Part
    <3> QED
      BY <2>2, <3>1, <3>2, <1>5
  <2> QED
    BY <2>1, <2>2
<1>9. Text = SubSeq(text, off + 1, upto)
  BY DEF Text
<1>10. upto \in off .. Len(text) /\ off \in 0 .. Len(text)
  BY <1>1, <1>2, <1>3, <1>4
<1>11. Text \in Seq(Byte) /\ Part' \in Seq(Byte)
  BY <1>2, <1>3, <1>8, <1>9, <1>10, SubSeqProperties, ElementOfSeq
<1>12. SubSeq(text, 1, off) \o Text = Part'
  <2> HIDE DEF text, upto
  <2>1. SubSeq(text, 1, off) \o SubSeq(text, off + 1, upto) = SubSeq(text, 1, upto)
    BY <1>2, <1>10, TwoPieces
  <2> QED
    BY <2>1, <1>8, <1>9, Zenon
<1>13. Part' = IF off = 0 THEN Text ELSE Part \o Text
  <2>1. CASE off = 0
    BY <2>1, <1>8, <1>9
  <2>2. CASE off # 0
    BY <2>2, <1>12 DEF Part
  <2> QED
    BY <2>1, <2>2
<1> QED
  BY <1>1, <1>4, <1>5, <1>6, <1>7, <1>11, <1>13

\* The bytes of the elements from the parser's place on.
LEMMA UnparsedIsFinite ==
  ASSUME ParseTypes
  PROVE  IsFiniteSet(Unparsed) /\ Cardinality(Unparsed) \in Nat
<1> DEFINE Of(i) == {i} \X (1 .. Size(Elements[i]))
           I     == at .. Len(Elements)
           S     == {Of(i) : i \in I}
           f     == [i \in I |-> Of(i)]
<1>1. IsFiniteSet(I) /\ I \in SUBSET (1 .. Len(Elements))
  <2>1. at \in Int /\ Len(Elements) \in Int /\ at >= 1
    BY Neighbours DEF ParseTypes
  <2> QED
    BY <2>1, FS_Interval
<1>2. IsFiniteSet(S)
  <2>1. f \in Surjection(I, S)
    BY DEF Surjection
  <2> HIDE DEF f, S
  <2> QED
    BY <1>1, <2>1, FS_Surjection
<1>3. ASSUME NEW i \in I
      PROVE  IsFiniteSet(Of(i))
  <2>1. Elements[i].text \in Seq(Byte)
    BY <1>1, Neighbours
  <2>2. Size(Elements[i]) \in Int
    BY <2>1, LenProperties DEF Size
  <2>3. IsFiniteSet(1 .. Size(Elements[i]))
    BY <2>2, FS_Interval
  <2>4. IsFiniteSet({i})
    BY FS_Singleton
  <2> QED
    BY <2>3, <2>4, FS_Product
<1>4. IsFiniteSet(UNION S)
  BY <1>2, <1>3, FS_UNION
<1>5. Unparsed = (UNION S) \ ({at} \X (1 .. off))
  BY DEF Unparsed
<1>6. IsFiniteSet(Unparsed)
  <2> DEFINE U == UNION S
  <2>1. IsFiniteSet(U) /\ Unparsed = U \ ({at} \X (1 .. off))
    BY <1>4, <1>5
  <2> HIDE DEF U
  <2> QED
    BY <2>1, FS_Difference
<1> QED
  BY <1>6, FS_CardinalityType

\* A callback takes from them as many as it takes from the buffer.
LEMMA CallbackCounts ==
  ASSUME ParseTypes, NEW is, Callback(is)
  PROVE  Cardinality(Unparsed)' = Cardinality(Unparsed) - Run
<1> DEFINE Given == {at} \X (off + 1 .. off + Run)
<1>1. /\ at \in 1 .. Len(Elements) /\ off \in Nat /\ Run \in Nat /\ Elements' = Elements
      /\ off + Run <= Size(Elements[at])
      /\ IF off + Run = Size(Elements[at]) THEN at' = at + 1 /\ off' = 0
                                           ELSE at' = at /\ off' = off + Run
  BY CallbackMoves DEF ParseTypes
<1>2. Len(Elements) \in Nat
  BY Neighbours
<1>5. \A i \in 1 .. Len(Elements) : Size(Elements[i]) \in Int
  BY Neighbours, LenProperties DEF Size
<1>3. \A p : p \in Unparsed <=>
        \E i \in at .. Len(Elements) : \E k \in 1 .. Size(Elements[i]) :
          p = <<i, k>> /\ (i = at => k > off)
  <2>1. \A i : {i} \X (1 .. Size(Elements[i])) = {<<i, k>> : k \in 1 .. Size(Elements[i])}
    OBVIOUS
  <2>2. {at} \X (1 .. off) = {<<at, k>> : k \in 1 .. off}
    OBVIOUS
  <2>3. Unparsed = (UNION {{i} \X (1 .. Size(Elements[i])) : i \in at .. Len(Elements)})
                     \ ({at} \X (1 .. off))
    BY DEF Unparsed
  <2>4. at \in Nat
    BY <1>1, <1>2
  <2>5. \A i, k : k \in Int => (<<i, k>> \in {<<at, j>> : j \in 1 .. off}
                                  <=> i = at /\ k >= 1 /\ k <= off)
    BY <1>1
  <2>6. ASSUME NEW p
        PROVE  p \in Unparsed <=>
                 /\ \E i \in at .. Len(Elements) : \E k \in 1 .. Size(Elements[i]) : p = <<i, k>>
                 /\ p \notin {<<at, j>> : j \in 1 .. off}
    <3> DEFINE Of(i) == {i} \X (1 .. Size(Elements[i]))
    <3>1. p \in Unparsed <=>
            /\ \E i \in at .. Len(Elements) : p \in Of(i)
            /\ p \notin {at} \X (1 .. off)
      BY <2>3, Zenon
    <3>2. \A i : p \in Of(i) <=> \E k \in 1 .. Size(Elements[i]) : p = <<i, k>>
      OBVIOUS
    <3> QED
      BY <3>1, <3>2, <2>2, Zenon
  <2> QED
    BY <2>4, <2>5, <2>6, <1>1, <1>2, <1>5
<1>4. \A p : p \in Unparsed' <=>
        \E i \in at' .. Len(Elements) : \E k \in 1 .. Size(Elements[i]) :
          p = <<i, k>> /\ (i = at' => k > off')
  <2>1. at' \in Nat /\ off' \in Nat /\ Len(Elements) \in Nat
    BY <1>1, <1>2, CallbackMoves
  <2>2. Unparsed' = (UNION {{i} \X (1 .. Size(Elements[i])) : i \in at' .. Len(Elements)})
                      \ ({at'} \X (1 .. off'))
    BY <1>1 DEF Unparsed, Size
  <2>3. \A i : {i} \X (1 .. Size(Elements[i])) = {<<i, k>> : k \in 1 .. Size(Elements[i])}
    OBVIOUS
  <2>4. {at'} \X (1 .. off') = {<<at', k>> : k \in 1 .. off'}
    OBVIOUS
  <2>5. \A i, k : k \in Int => (<<i, k>> \in {<<at', j>> : j \in 1 .. off'}
                                  <=> i = at' /\ k >= 1 /\ k <= off')
    BY <2>1
  <2>6. ASSUME NEW p
        PROVE  p \in Unparsed' <=>
                 /\ \E i \in at' .. Len(Elements) : \E k \in 1 .. Size(Elements[i]) : p = <<i, k>>
                 /\ p \notin {<<at', j>> : j \in 1 .. off'}
    <3> DEFINE Of(i) == {i} \X (1 .. Size(Elements[i]))
    <3>1. p \in Unparsed' <=>
            /\ \E i \in at' .. Len(Elements) : p \in Of(i)
            /\ p \notin {at'} \X (1 .. off')
      BY <2>2, Zenon
    <3>2. \A i : p \in Of(i) <=> \E k \in 1 .. Size(Elements[i]) : p = <<i, k>>
      OBVIOUS
    <3> QED
      BY <3>1, <3>2, <2>4, Zenon
  <2> QED
    BY <2>1, <2>5, <2>6, <1>1, <1>2, <1>5
<1>6. \A p : p \in Given <=> \E k \in off + 1 .. off + Run : p = <<at, k>>
  OBVIOUS
<1> HIDE DEF Given
<1>7. Unparsed' = Unparsed \ Given
  <2>1. ASSUME NEW p \in Unparsed'
        PROVE  p \in Unparsed /\ p \notin Given
    BY <1>1, <1>2, <1>3, <1>4, <1>5, <1>6
  <2>2. ASSUME NEW p \in Unparsed, p \notin Given
        PROVE  p \in Unparsed'
    <3>1. PICK i \in at .. Len(Elements) : \E k \in 1 .. Size(Elements[i]) :
            p = <<i, k>> /\ (i = at => k > off)
      BY <2>2, <1>3
    <3> PICK k \in 1 .. Size(Elements[i]) : p = <<i, k>> /\ (i = at => k > off)
      BY <3>1
    <3>2. i = at => k > off + Run
      BY <2>2, <1>1, <1>5, <1>6
    <3>3. i \in at' .. Len(Elements) /\ (i = at' => k > off')
      BY <3>2, <1>1, <1>2, <1>5
    <3> QED
      BY <3>3, <1>4
  <2> QED
    BY <2>1, <2>2
<1>8. Unparsed \cap Given = Given
  BY <1>1, <1>2, <1>3, <1>5, <1>6
<1>9. Cardinality(Given) = Run
  <2>1. /\ IsFiniteSet({at}) /\ Cardinality({at}) = 1
        /\ IsFiniteSet(off + 1 .. off + Run)
        /\ Cardinality(off + 1 .. off + Run) = Run
    <3>1. /\ off + 1 \in Int /\ off + Run \in Int
          /\ (off + Run) - (off + 1) + 1 = Run /\ (off + 1 > off + Run => Run = 0)
      BY <1>1
    <3> QED
      BY <3>1, FS_Singleton, FS_Interval
  <2>2. Cardinality(Given) = 1 * Run
    BY <2>1, FS_Product, ZenonT(30) DEF Given
  <2> QED
    BY <2>2, <1>1
<1> QED
  BY <1>7, <1>8, <1>9, UnparsedIsFinite, FS_Difference, ZenonT(30)

\* What every callback does to the parser's place.
LEMMA CallbackCommon ==
  ASSUME ScannerInvariant, NEW is, Callback(is)
  PROVE  /\ NothingIsSkipped'
         /\ \A kind : Last(kind)' <=> kind = is
         /\ Place' = at /\ at \in 1 .. Len(Elements) /\ Elements[at].is = is
         /\ phase = "scanning" /\ phase' = "scanning" /\ Elements' = Elements
         /\ request' \in Requests /\ WellFormed(Elements')
         /\ at' \in 1 .. Len(Elements') + 1 /\ off' \in Nat
         /\ off' # 0 => at' \in DOMAIN Elements' /\ off' < Size(Elements'[at'])
         /\ buffered' \in 0 .. BufferLen /\ more' \in BOOLEAN
         /\ IF off = 0 THEN Place = at - 1 ELSE Place = at
         /\ off' # 0 => buffered' = 0
<1>1. ParseTypes
  BY DEF ScannerInvariant
<1>2. /\ Run \in 1 .. buffered /\ buffered' = buffered - Run /\ more' = more
      /\ Place' = at /\ at \in 1 .. Len(Elements) /\ Elements[at].is = is
      /\ phase = "scanning" /\ phase' = phase /\ Elements' = Elements
      /\ request' = request
      /\ at' \in 1 .. Len(Elements) + 1 /\ off' \in Nat
      /\ off' # 0 => at' \in 1 .. Len(Elements) /\ off' < Size(Elements[at'])
  BY <1>1, CallbackMoves
<1>3. NothingIsSkipped'
  <2>1. Cardinality(Unparsed)' = Cardinality(Unparsed) - Run
    BY <1>1, CallbackCounts
  <2>2. Cardinality(Unparsed) \in Nat /\ buffered \in Nat
    BY <1>1, UnparsedIsFinite DEF ParseTypes
  <2> QED
    BY <1>2, <2>1, <2>2 DEF ScannerInvariant, NothingIsSkipped
<1>4. \A kind : Last(kind)' <=> kind = is
  BY <1>2 DEF Last
<1>5. request' \in Requests /\ WellFormed(Elements')
  BY <1>1, <1>2 DEF ParseTypes
<1>6. buffered' \in 0 .. BufferLen /\ more' \in BOOLEAN
  BY <1>1, <1>2 DEF ParseTypes
<1>7. off' # 0 => buffered' = 0
  <2>1. IF off + Run = Size(Elements[at]) THEN off' = 0 ELSE TRUE
    BY <1>1, CallbackMoves
  <2>2. Size(Elements[at]) \in Int /\ off \in Nat /\ buffered \in Nat
    BY <1>1, <1>2, Neighbours, LenProperties DEF Size, ParseTypes
  <2> QED
    BY <1>2, <2>1, <2>2 DEF Run
<1>8. IF off = 0 THEN Place = at - 1 ELSE Place = at
  BY DEF Place
<1> QED
  BY <1>1, <1>2, <1>3, <1>4, <1>5, <1>6, <1>7, <1>8, Neighbours

\* addCurrentHeader(), once the value v is over.
LEMMA ValueCollected ==
  ASSUME ParseTypes, NEW v \in 1 .. Len(Elements), Elements[v].is = "value",
         Collected(Elements, headers, v - 2),
         headers' = Append(headers, <<Elements[v - 1].text, Elements[v].text>>)
  PROVE  Collected(Elements, headers', v)
<1> DEFINE header == <<Elements[v - 1].text, Elements[v].text>>
<1>1. /\ v \in Nat /\ v - 1 \in 1 .. Len(Elements) /\ v - 2 \in 0 .. Len(Elements)
      /\ Elements[v - 1].is = "field" /\ (v - 1) - 1 = v - 2 /\ v - 1 + 1 = v
  BY Neighbours
<1>2. FieldsUpTo(Elements, v) = FieldsUpTo(Elements, v - 1)
  BY <1>1, FieldCount
<1>3. /\ FieldsUpTo(Elements, v - 1) = FieldsUpTo(Elements, v - 2) \cup {v - 1}
      /\ Cardinality(FieldsUpTo(Elements, v - 1)) = Cardinality(FieldsUpTo(Elements, v - 2)) + 1
  BY <1>1, FieldCount
<1>4. headers \in Seq(Seq(Byte) \X Seq(Byte)) /\ header \in Seq(Byte) \X Seq(Byte)
  BY <1>1, Neighbours DEF ParseTypes
<1>5. Len(headers) = Cardinality(FieldsUpTo(Elements, v - 2)) /\ Len(headers) \in Nat
  BY <1>4, LenProperties DEF Collected
<1>6. /\ Len(headers') = Len(headers) + 1
      /\ \A n \in 1 .. Len(headers) : headers'[n] = headers[n]
      /\ headers'[Len(headers) + 1] = header
  BY <1>4, AppendProperties
<1>7. ASSUME NEW j \in FieldsUpTo(Elements, v)
      PROVE  headers'[Cardinality(FieldsUpTo(Elements, j))] = <<Elements[j].text, Elements[j + 1].text>>
  <2>1. CASE j \in FieldsUpTo(Elements, v - 2)
    <3>1. Cardinality(FieldsUpTo(Elements, j)) \in 1 .. Len(headers)
      BY <2>1, <1>1, <1>5, FieldNumber
    <3> QED
      BY <2>1, <3>1, <1>6 DEF Collected
  <2>2. CASE j = v - 1
    BY <2>2, <1>1, <1>3, <1>5, <1>6
  <2> QED
    BY <2>1, <2>2, <1>2, <1>3
<1> QED
  BY <1>2, <1>3, <1>5, <1>6, <1>7 DEF Collected

-----------------------------------------------------------------------------
(* Each callback preserves what the scanner keeps.                         *)

\* The text that a callback hands over.
LEMMA TextMoves ==
  ASSUME ScannerInvariant, NEW is, Callback(is)
  PROVE  /\ Text \in Seq(Byte) /\ Part' \in Seq(Byte)
         /\ Part' = IF off = 0 THEN Text ELSE Part \o Text
         /\ off # 0 => Last(is)
<1>1. ParseTypes
  BY DEF ScannerInvariant
<1>2. at \in 1 .. Len(Elements) /\ Elements[at].is = is
  BY <1>1, CallbackMoves
<1> QED
  BY <1>1, <1>2, CallbackMoves DEF Last, Place

LEMMA UrlStep ==
  ASSUME ScannerInvariant, OnUrl
  PROVE  ScannerInvariant'
<1>1. Callback("url")
  BY DEF OnUrl
<1>2. /\ uri' = Text /\ urlCut' = (off > 0) /\ gotValue' = FALSE
      /\ method' = request.method
      /\ UNCHANGED <<currentHead, currentValue, headers, body, messageComplete>>
  BY DEF OnUrl
<1>3. ParseTypes
  BY DEF ScannerInvariant
<1>4. at = 1 /\ Place \in {0, 1}
  BY <1>1, <1>3, CallbackCommon, Neighbours
<1>5. ~gotValue /\ currentHead = <<>> /\ currentValue = <<>> /\ headers = <<>>
  <2>1. Place = 0 \/ Last("url")
    BY <1>1, <1>4, CallbackCommon DEF Last
  <2> QED
    BY <2>1 DEF ScannerInvariant, HeadersSoFar
<1>6. ParseTypes'
  <2>1. request.method \in Methods
    BY <1>3 DEF ParseTypes
  <2>2. {more', gotValue', messageComplete', urlCut'} \subseteq BOOLEAN
    <3>1. urlCut' \in BOOLEAN /\ gotValue' \in BOOLEAN
      <4>1. (urlCut' = TRUE \/ urlCut' = FALSE) /\ gotValue' = FALSE
        BY <1>2
      <4> QED
        BY <4>1, Zenon
    <3>2. messageComplete' \in BOOLEAN
      BY <1>2, <1>3 DEF ParseTypes
    <3> QED
      BY <1>1, <3>1, <3>2, CallbackCommon
  <2> QED
    BY <1>1, <1>2, <1>3, <2>1, <2>2, CallbackCommon, TextMoves DEF ParseTypes
<1>7. HeadersSoFar'
  <2>1. Place' = 1 /\ \A kind : Last(kind)' <=> kind = "url"
    BY <1>1, <1>4, CallbackCommon
  <2>2. ~gotValue' /\ currentHead' = <<>> /\ currentValue' = <<>> /\ headers' = <<>>
    BY <1>2, <1>5
  <2> QED
    BY <2>1, <2>2 DEF HeadersSoFar
<1>8. UrlSoFar'
  <2>1. ASSUME ~urlCut', off' = 0
        PROVE  uri' = Elements'[1].text
    <3>1. off = 0
      <4>1. off \in Nat
        BY <1>3 DEF ParseTypes
      <4>2. ~ (off > 0)
        BY <2>1, <1>2
      <4> QED
        BY <4>1, <4>2
    <3>2. Part' = Elements'[at].text
      BY <1>1, <2>1, CallbackCommon DEF Part
    <3> QED
      BY <1>1, <1>2, <1>4, <3>1, <3>2, TextMoves
  <2> QED
    BY <1>1, <1>4, <2>1, CallbackCommon DEF UrlSoFar
<1>9. CompleteIfPassed'
  <2>1. ~messageComplete
    BY <1>1, <1>4, CallbackCommon DEF ScannerInvariant, CompleteIfPassed, Last
  <2> QED
    BY <1>1, <1>2, <2>1, CallbackCommon DEF CompleteIfPassed
<1>10. BodySoFar'
  <2>1. ~ Last("body")
    BY <1>1, <1>4, CallbackCommon DEF Last
  <2>2. body = <<>>
    BY <2>1 DEF ScannerInvariant, BodySoFar
  <2> QED
    BY <1>1, <1>2, <2>2, CallbackCommon DEF BodySoFar
<1> QED
  BY <1>1, <1>6, <1>7, <1>8, <1>9, <1>10, CallbackCommon DEF ScannerInvariant

\* The url is kept by the callbacks for other elements, and so is what they do
\* not touch.
LEMMA NotUrl ==
  ASSUME ScannerInvariant, NEW is, is # "url", Callback(is), UNCHANGED urlVars
  PROVE  UrlSoFar' /\ at # 1 /\ Place # 0
<1>1. ParseTypes
  BY DEF ScannerInvariant
<1>2. at # 1 /\ at \in Nat /\ off \in Nat
  <2>1. at \in 1 .. Len(Elements) /\ Elements[at].is = is
    BY CallbackCommon
  <2> QED
    BY <1>1, <2>1, Neighbours DEF ParseTypes
<1>3. Place # 0 /\ (off = 0 \/ Place # 1)
  <2>1. IF off = 0 THEN Place = at - 1 ELSE Place = at
    BY DEF Place
  <2>2. at \in 1 .. Len(Elements)
    BY CallbackCommon
  <2> QED
    BY <1>2, <2>1, <2>2
<1>4. ~urlCut => uri = Elements[1].text
  BY <1>3 DEF ScannerInvariant, UrlSoFar
<1>5. Elements' = Elements /\ urlCut' = urlCut /\ uri' = uri
  BY CallbackCommon DEF urlVars
<1>6. UrlSoFar'
  BY <1>4, <1>5 DEF UrlSoFar
<1> QED
  BY <1>2, <1>3, <1>6

LEMMA FieldStep ==
  ASSUME ScannerInvariant, OnHeaderField
  PROVE  ScannerInvariant'
<1>1. Callback("field")
  BY DEF OnHeaderField
<1>2. /\ headers' = HeadersAfter /\ currentHead' = HeadAfter \o Text
      /\ currentValue' = ValueAfter /\ gotValue' = FALSE
      /\ UNCHANGED urlVars /\ UNCHANGED <<method, uri, urlCut, body, messageComplete>>
  BY DEF OnHeaderField, urlVars
<1>3. ParseTypes
  BY DEF ScannerInvariant
<1>4. /\ at \in 2 .. Len(Elements) /\ Place # 0 /\ UrlSoFar'
      /\ Elements[at - 1].is \in {"url", "value"}
  BY <1>1, <1>2, <1>3, CallbackCommon, NotUrl, Neighbours
<1>5. /\ currentHead' = Part' /\ currentValue' = <<>> /\ Collected(Elements, headers', at - 1)
      /\ currentHead' \in Seq(Byte) /\ headers' \in Seq(Seq(Byte) \X Seq(Byte))
  <2>1. CASE off = 0 /\ Elements[at - 1].is = "value"
    <3>1. Place = at - 1 /\ Last("value") /\ Part = Elements[at - 1].text
      BY <2>1, <1>1, <1>4, CallbackCommon DEF Last, Part
    <3>2. /\ gotValue /\ Collected(Elements, headers, (at - 1) - 2) /\ currentHead = Elements[(at - 1) - 1].text
          /\ currentValue = Elements[at - 1].text
      BY <3>1 DEF ScannerInvariant, HeadersSoFar
    <3>3. /\ headers' = Append(headers, <<Elements[(at - 1) - 1].text, Elements[at - 1].text>>)
          /\ currentHead' = <<>> \o Text /\ currentValue' = <<>>
      BY <1>2, <3>2 DEF HeadersAfter, HeadAfter, ValueAfter
    <3>4. Collected(Elements, headers', at - 1)
      <4>1. at - 1 \in 1 .. Len(Elements)
        BY <1>3, <1>4, Neighbours
      <4> QED
        BY <2>1, <1>3, <3>2, <3>3, <4>1, ValueCollected
    <3>5. currentHead' = Text /\ Text \in Seq(Byte) /\ Part' = Text
      BY <1>1, <2>1, <3>3, TextMoves, ConcatEmptySeq
    <3>6. headers' \in Seq(Seq(Byte) \X Seq(Byte))
      BY <1>2, <1>3, AppendProperties DEF HeadersAfter, ParseTypes
    <3> QED
      BY <3>3, <3>4, <3>5, <3>6
  <2>2. CASE off = 0 /\ Elements[at - 1].is = "url"
    <3>1. Place = at - 1 /\ Last("url") /\ at - 1 = 1
      BY <2>2, <1>1, <1>3, <1>4, CallbackCommon, Neighbours DEF Last
    <3>2. ~gotValue /\ currentHead = <<>> /\ currentValue = <<>> /\ headers = <<>>
      BY <3>1 DEF ScannerInvariant, HeadersSoFar
    <3>3. headers' = <<>> /\ currentHead' = <<>> \o Text /\ currentValue' = <<>>
      BY <1>2, <3>2 DEF HeadersAfter, HeadAfter, ValueAfter
    <3>4. Collected(Elements, headers, 1)
      <4>1. 1 \in 0 .. Len(Elements) /\ 0 \in 0 .. Len(Elements) /\ Elements[1].is = "url"
        BY <2>2, <3>1, <1>4, Neighbours
      <4>2. FieldsUpTo(Elements, 1) = {} /\ Cardinality(FieldsUpTo(Elements, 1)) = 0
        BY <1>3, <4>1, FieldCount, FS_EmptySet
      <4> QED
        BY <3>2, <4>2, EmptySeq DEF Collected
    <3>5. currentHead' = Text /\ Text \in Seq(Byte) /\ Part' = Text
      BY <1>1, <2>2, <3>3, TextMoves, ConcatEmptySeq
    <3>6. Collected(Elements, headers', at - 1)
      BY <3>1, <3>2, <3>3, <3>4
    <3> QED
      BY <3>3, <3>5, <3>6, EmptySeq
  <2>3. CASE off # 0
    <3>1. Place = at /\ Last("field")
      BY <2>3, <1>1, CallbackCommon, TextMoves
    <3>2. ~gotValue /\ currentHead = Part /\ currentValue = <<>> /\ Collected(Elements, headers, at - 1)
      BY <3>1 DEF ScannerInvariant, HeadersSoFar
    <3>3. headers' = headers /\ currentHead' = Part \o Text /\ currentValue' = <<>>
      BY <1>2, <3>2 DEF HeadersAfter, HeadAfter, ValueAfter
    <3>4. currentHead' = Part' /\ Part' \in Seq(Byte)
      BY <1>1, <2>3, <3>3, TextMoves
    <3>5. Collected(Elements, headers', at - 1)
      BY <3>2, <3>3
    <3> QED
      BY <1>3, <3>3, <3>4, <3>5 DEF ParseTypes
  <2> QED
    BY <1>4, <2>1, <2>2, <2>3
<1>6. ParseTypes'
  <2>1. gotValue' \in BOOLEAN
    BY <1>2, Zenon
  <2>2. currentValue' \in Seq(Byte)
    BY <1>5, EmptySeq
  <2> QED
    BY <1>1, <1>2, <1>3, <1>5, <2>1, <2>2, CallbackCommon DEF ParseTypes
<1>7. HeadersSoFar'
  <2>1. Place' = at /\ at # 0 /\ Elements' = Elements /\ ~gotValue'
    BY <1>1, <1>2, <1>4, CallbackCommon
  <2>2. \A kind : Last(kind)' <=> kind = "field"
    BY <1>1, CallbackCommon
  <2> QED
    BY <1>5, <2>1, <2>2 DEF HeadersSoFar
<1>8. ~ Last("end") /\ ~ Last("body")
  BY <1>1, <1>4, CallbackCommon DEF Last
<1>9. CompleteIfPassed'
  BY <1>1, <1>2, <1>8, CallbackCommon DEF ScannerInvariant, CompleteIfPassed
<1>10. BodySoFar'
  BY <1>1, <1>2, <1>8, CallbackCommon DEF ScannerInvariant, BodySoFar
<1> QED
  BY <1>1, <1>4, <1>6, <1>7, <1>9, <1>10, CallbackCommon DEF ScannerInvariant

LEMMA ValueStep ==
  ASSUME ScannerInvariant, OnHeaderValue
  PROVE  ScannerInvariant'
<1>1. Callback("value")
  BY DEF OnHeaderValue
<1>2. /\ gotValue' = TRUE /\ currentValue' = currentValue \o Text
      /\ UNCHANGED urlVars
      /\ UNCHANGED <<method, uri, urlCut, currentHead, headers, body, messageComplete>>
  BY DEF OnHeaderValue, urlVars
<1>3. ParseTypes
  BY DEF ScannerInvariant
<1>4. /\ at \in 2 .. Len(Elements) /\ Place # 0 /\ UrlSoFar'
      /\ Elements[at - 1].is = "field"
  <2>1. at \in 1 .. Len(Elements) /\ Elements[at].is = "value"
    BY <1>1, CallbackCommon
  <2>2. UrlSoFar' /\ at # 1 /\ Place # 0
    BY <1>1, <1>2, NotUrl
  <2> QED
    BY <1>3, <2>1, <2>2, Neighbours
<1>5. /\ currentHead = Elements[at - 1].text /\ currentValue' = Part'
      /\ Part' \in Seq(Byte) /\ Collected(Elements, headers, at - 2)
  <2>1. CASE off = 0
    <3>1. Place = at - 1 /\ Last("field") /\ Part = Elements[at - 1].text
      BY <2>1, <1>1, <1>4, CallbackCommon DEF Last, Part
    <3>2. /\ currentHead = Part /\ currentValue = <<>>
          /\ Collected(Elements, headers, (at - 1) - 1)
      BY <3>1 DEF ScannerInvariant, HeadersSoFar
    <3>3. currentValue' = Text /\ Text \in Seq(Byte) /\ Part' = Text
      BY <1>1, <1>2, <2>1, <3>2, TextMoves, ConcatEmptySeq
    <3>4. (at - 1) - 1 = at - 2
      BY <1>4
    <3> QED
      BY <3>1, <3>2, <3>3, <3>4
  <2>2. CASE off # 0
    <3>1. Place = at /\ Last("value")
      BY <2>2, <1>1, CallbackCommon, TextMoves
    <3>2. /\ currentHead = Elements[at - 1].text /\ currentValue = Part
          /\ Collected(Elements, headers, at - 2)
      BY <3>1 DEF ScannerInvariant, HeadersSoFar
    <3> QED
      BY <1>1, <1>2, <2>2, <3>2, TextMoves
  <2> QED
    BY <2>1, <2>2
<1>6. ParseTypes'
  <2>1. gotValue' \in BOOLEAN
    BY <1>2, Zenon
  <2>2. currentValue' \in Seq(Byte)
    BY <1>5
  <2> QED
    BY <1>1, <1>2, <1>3, <2>1, <2>2, CallbackCommon DEF ParseTypes
<1>7. HeadersSoFar'
  <2>1. Place' = at /\ at # 0 /\ Elements' = Elements /\ gotValue'
    BY <1>1, <1>2, <1>4, CallbackCommon
  <2>2. \A kind : Last(kind)' <=> kind = "value"
    BY <1>1, CallbackCommon
  <2> QED
    BY <1>2, <1>5, <2>1, <2>2 DEF HeadersSoFar
<1>8. ~ Last("end") /\ ~ Last("body")
  BY <1>1, <1>4, CallbackCommon DEF Last
<1>9. CompleteIfPassed'
  BY <1>1, <1>2, <1>8, CallbackCommon DEF ScannerInvariant, CompleteIfPassed
<1>10. BodySoFar'
  BY <1>1, <1>2, <1>8, CallbackCommon DEF ScannerInvariant, BodySoFar
<1> QED
  BY <1>1, <1>4, <1>6, <1>7, <1>9, <1>10, CallbackCommon DEF ScannerInvariant

\* The end of the header is one byte.
LEMMA EndIsWhole ==
  ASSUME ParseTypes, at \in 1 .. Len(Elements), Elements[at].is = "end"
  PROVE  off = 0
<1>1. Size(Elements[at]) = 1
  BY Neighbours, EmptySeq DEF Size
<1> QED
  BY <1>1 DEF ParseTypes

LEMMA EndStep ==
  ASSUME ScannerInvariant, OnHeadersComplete
  PROVE  ScannerInvariant'
<1>1. Callback("end")
  BY DEF OnHeadersComplete
<1>2. /\ headers' = HeadersAfter /\ currentHead' = HeadAfter
      /\ currentValue' = ValueAfter /\ gotValue' = FALSE /\ messageComplete' = TRUE
      /\ UNCHANGED urlVars /\ UNCHANGED <<method, uri, urlCut, body>>
  BY DEF OnHeadersComplete, urlVars
<1>3. ParseTypes
  BY DEF ScannerInvariant
<1>4. /\ at \in 2 .. Len(Elements) /\ Place # 0 /\ UrlSoFar'
      /\ Elements[at].is = "end" /\ Elements[at - 1].is \in {"url", "value"}
  BY <1>1, <1>2, <1>3, CallbackCommon, NotUrl, Neighbours
<1>5. Place = at - 1 /\ Part = Elements[at - 1].text
  <2>1. off = 0
    BY <1>3, <1>4, EndIsWhole, Neighbours
  <2> QED
    BY <2>1 DEF Place, Part
<1>6. at - 1 \in 1 .. Len(Elements) /\ at \in 0 .. Len(Elements) /\ at > 0
  BY <1>3, <1>4, Neighbours
<1>7. /\ Collected(Elements, headers', at - 1)
      /\ currentHead' \in Seq(Byte) /\ currentValue' \in Seq(Byte)
      /\ headers' \in Seq(Seq(Byte) \X Seq(Byte))
  <2>1. CASE Elements[at - 1].is = "value"
    <3>1. Last("value")
      BY <2>1, <1>4, <1>5 DEF Last
    <3>2. /\ gotValue /\ Collected(Elements, headers, (at - 1) - 2)
          /\ currentHead = Elements[(at - 1) - 1].text
          /\ currentValue = Elements[at - 1].text
      BY <3>1, <1>5 DEF ScannerInvariant, HeadersSoFar
    <3>3. /\ headers' = Append(headers, <<Elements[(at - 1) - 1].text, Elements[at - 1].text>>)
          /\ currentHead' = <<>> /\ currentValue' = <<>>
      BY <1>2, <3>2 DEF HeadersAfter, HeadAfter, ValueAfter
    <3>4. Collected(Elements, headers', at - 1)
      BY <2>1, <1>3, <1>6, <3>2, <3>3, ValueCollected
    <3>5. headers' \in Seq(Seq(Byte) \X Seq(Byte))
      BY <1>2, <1>3, AppendProperties DEF HeadersAfter, ParseTypes
    <3> QED
      BY <3>3, <3>4, <3>5, EmptySeq
  <2>2. CASE Elements[at - 1].is = "url"
    <3>1. Last("url") /\ at - 1 = 1
      BY <2>2, <1>3, <1>4, <1>5, <1>6, Neighbours DEF Last
    <3>2. ~gotValue /\ currentHead = <<>> /\ currentValue = <<>> /\ headers = <<>>
      BY <3>1 DEF ScannerInvariant, HeadersSoFar
    <3>3. headers' = <<>> /\ currentHead' = <<>> /\ currentValue' = <<>>
      BY <1>2, <3>2 DEF HeadersAfter, HeadAfter, ValueAfter
    <3>4. FieldsUpTo(Elements, 1) = {} /\ Cardinality(FieldsUpTo(Elements, 1)) = 0
      <4>1. 1 \in 0 .. Len(Elements) /\ 0 \in 0 .. Len(Elements) /\ Elements[1].is = "url"
        BY <2>2, <3>1, <1>3, <1>6, Neighbours
      <4> QED
        BY <1>3, <4>1, FieldCount, FS_EmptySet
    <3> QED
      BY <3>1, <3>3, <3>4, EmptySeq DEF Collected
  <2> QED
    BY <1>4, <2>1, <2>2
<1>8. ParseTypes'
  <2>1. gotValue' \in BOOLEAN /\ messageComplete' \in BOOLEAN
    BY <1>2, Zenon
  <2> QED
    BY <1>1, <1>2, <1>3, <1>7, <2>1, CallbackCommon DEF ParseTypes
<1>9. HeadersSoFar'
  <2>1. Place' = at /\ at # 0 /\ Elements' = Elements
    BY <1>1, <1>4, CallbackCommon
  <2>2. \A kind : Last(kind)' <=> kind = "end"
    BY <1>1, CallbackCommon
  <2>3. FieldsUpTo(Elements, at) = FieldsUpTo(Elements, at - 1)
    BY <1>3, <1>4, <1>6, FieldCount
  <2>4. Collected(Elements, headers', at)
    BY <1>7, <2>3 DEF Collected
  <2> QED
    BY <2>1, <2>2, <2>4 DEF HeadersSoFar
<1>10. CompleteIfPassed'
  <2>1. messageComplete'
    BY <1>2
  <2> QED
    BY <1>1, <2>1, CallbackCommon DEF CompleteIfPassed
<1>11. BodySoFar'
  <2>1. ~ Last("body")
    BY <1>4, <1>5 DEF Last
  <2>2. body' = <<>>
    BY <1>2, <2>1 DEF ScannerInvariant, BodySoFar
  <2> QED
    BY <1>1, <2>2, CallbackCommon DEF BodySoFar
<1> QED
  BY <1>1, <1>4, <1>8, <1>9, <1>10, <1>11, CallbackCommon DEF ScannerInvariant

LEMMA BodyStep ==
  ASSUME ScannerInvariant, OnBody
  PROVE  ScannerInvariant'
<1>1. Callback("body")
  BY DEF OnBody
<1>2. /\ body' = Text /\ UNCHANGED urlVars
      /\ UNCHANGED <<method, uri, urlCut, currentHead, currentValue, gotValue,
                     headers, messageComplete>>
  BY DEF OnBody, urlVars
<1>3. ParseTypes
  BY DEF ScannerInvariant
<1>4. /\ at \in 2 .. Len(Elements) /\ Place # 0 /\ UrlSoFar'
      /\ Elements[at].is = "body" /\ Elements[at - 1].is = "end"
  BY <1>1, <1>2, <1>3, CallbackCommon, NotUrl, Neighbours
<1>5. off = 0 /\ Place = at - 1
  <2>1. buffered # 0 /\ phase = "scanning"
    BY <1>1, <1>3 DEF Callback, ParseTypes
  <2>2. ~ Last("body")
    BY <2>1 DEF ScannerInvariant, BodySoFar
  <2>3. off = 0
    BY <2>2, <1>1, TextMoves
  <2> QED
    BY <2>3 DEF Place
<1>6. Last("end")
  BY <1>4, <1>5 DEF Last
<1>7. messageComplete /\ Collected(Elements, headers, at - 1)
  BY <1>5, <1>6 DEF ScannerInvariant, CompleteIfPassed, HeadersSoFar
<1>8. ParseTypes'
  <2>1. body' \in Seq(Byte)
    BY <1>1, <1>2, TextMoves
  <2> QED
    BY <1>1, <1>2, <1>3, <2>1, CallbackCommon DEF ParseTypes
<1>9. HeadersSoFar'
  <2>1. Place' = at /\ at # 0 /\ Elements' = Elements
    BY <1>1, <1>4, CallbackCommon
  <2>2. \A kind : Last(kind)' <=> kind = "body"
    BY <1>1, CallbackCommon
  <2>3. FieldsUpTo(Elements, at) = FieldsUpTo(Elements, at - 1)
    <3>1. at \in 0 .. Len(Elements) /\ at > 0
      BY <1>3, <1>4, Neighbours
    <3> QED
      BY <1>3, <1>4, <3>1, FieldCount
  <2>4. Collected(Elements, headers, at)
    BY <1>7, <2>3 DEF Collected
  <2> QED
    BY <1>2, <2>1, <2>2, <2>4 DEF HeadersSoFar
<1>10. CompleteIfPassed'
  BY <1>1, <1>2, <1>7, CallbackCommon DEF CompleteIfPassed
<1>11. BodySoFar'
  <2>1. body' = Part'
    BY <1>1, <1>2, <1>5, TextMoves
  <2>2. buffered' = 0
    <3>1. CASE off' # 0
      BY <1>1, <3>1, CallbackCommon
    <3>2. CASE off' = 0
      <4>1. at' = at + 1 /\ at = Len(Elements)
        <5>1. at' = at + 1
          BY <1>1, <1>3, <3>2, <1>5, CallbackMoves
        <5>2. at = Len(Elements)
          <6>1. Len(Elements) \in Nat /\ \A i \in 1 .. Len(Elements) - 1 : Elements[i].is # "body"
            BY <1>3, Neighbours
          <6> QED
            BY <1>4, <6>1
        <5> QED
          BY <5>1, <5>2
      <4>2. Unparsed' = {}
        <5>1. at' .. Len(Elements) = {}
          BY <1>3, <4>1, Neighbours
        <5>2. Elements' = Elements
          BY <1>1, CallbackCommon
        <5>3. at' .. Len(Elements') = {}
          BY <5>1, <5>2
        <5> QED
          BY <5>3 DEF Unparsed
      <4>3. Cardinality(Unparsed)' = 0
        BY <4>2, FS_EmptySet
      <4>4. NothingIsSkipped' /\ buffered' \in Nat
        BY <1>1, CallbackCommon
      <4> QED
        BY <4>3, <4>4 DEF NothingIsSkipped
    <3> QED
      BY <3>1, <3>2
  <2> QED
    BY <1>1, <2>1, <2>2, CallbackCommon DEF BodySoFar
<1> QED
  BY <1>1, <1>4, <1>8, <1>9, <1>10, <1>11, CallbackCommon DEF ScannerInvariant

-----------------------------------------------------------------------------
(* The read loop and what follows it.                                      *)

LEMMA ReceiveStep ==
  ASSUME ScannerInvariant, Receive
  PROVE  ScannerInvariant'
<1>1. /\ phase = "reading" /\ phase' = "scanning"
      /\ UNCHANGED <<request, at, off, method, uri, urlCut, currentHead, currentValue,
                     gotValue, headers, body, messageComplete>>
  BY DEF Receive, parseVars, urlVars
<1>2. /\ ParseTypes /\ buffered = 0 /\ more /\ ~messageComplete
  BY <1>1 DEF ScannerInvariant, BodySoFar
<1>3. /\ Unparsed' = Unparsed /\ Elements' = Elements /\ Place' = Place
      /\ Part' = Part /\ \A kind : Last(kind)' <=> Last(kind)
  BY <1>1 DEF Unparsed, Elements, Place, Part, Last, Size
<1>4. Cardinality(Unparsed) \in Nat /\ OnTheWay = Cardinality(Unparsed)
  BY <1>2, UnparsedIsFinite DEF OnTheWay
<1>5. /\ buffered' \in 0 .. BufferLen /\ buffered' <= Cardinality(Unparsed)
      /\ more' \in BOOLEAN
      /\ ~more' => buffered' = Cardinality(Unparsed)
  <2>1. /\ \/ OnTheWay > 0 /\ buffered' \in {n \in 1 .. OnTheWay : n <= BufferLen}
           \/ OnTheWay = 0 /\ buffered' = 0
        /\ more' = TRUE \/ (more' = FALSE /\ buffered' = OnTheWay)
    BY DEF Receive
  <2>2. more' \in BOOLEAN
    BY <2>1, Zenon
  <2>3. ~more' => buffered' = OnTheWay
    BY <2>1
  <2> QED
    BY <1>4, <2>1, <2>2, <2>3
<1>6. ParseTypes'
  BY <1>1, <1>2, <1>3, <1>5 DEF ParseTypes, Size
<1>7. HeadersSoFar'
  BY <1>1, <1>3 DEF ScannerInvariant, HeadersSoFar
<1>8. UrlSoFar'
  BY <1>1, <1>3 DEF ScannerInvariant, UrlSoFar
<1>9. CompleteIfPassed'
  BY <1>1, <1>3 DEF ScannerInvariant, CompleteIfPassed
<1>10. BodySoFar'
  <2>1. ~ Last("body")
    BY <1>2 DEF ScannerInvariant, CompleteIfPassed
  <2> QED
    BY <1>1, <1>3, <2>1 DEF ScannerInvariant, BodySoFar
<1>11. NothingIsSkipped'
  BY <1>3, <1>5 DEF NothingIsSkipped
<1> QED
  BY <1>6, <1>7, <1>8, <1>9, <1>10, <1>11 DEF ScannerInvariant

\* A step after which the scanner's state is the same but for method.
LEMMA ScannerUntouched ==
  ASSUME ScannerInvariant,
         UNCHANGED <<request, at, off, buffered, more, uri, urlCut, currentHead,
                     currentValue, gotValue, headers, body, messageComplete>>,
         method' \in Methods \cup {"unset"},
         BodySoFar'
  PROVE  ScannerInvariant'
<1>1. /\ Unparsed' = Unparsed /\ Elements' = Elements /\ Place' = Place
      /\ Part' = Part /\ \A kind : Last(kind)' <=> Last(kind)
  BY DEF Unparsed, Elements, Place, Part, Last, Size
<1>2. ParseTypes'
  BY <1>1 DEF ScannerInvariant, ParseTypes, Size
<1>3. HeadersSoFar' /\ UrlSoFar'
  BY <1>1 DEF ScannerInvariant, HeadersSoFar, UrlSoFar
<1>4. CompleteIfPassed' /\ NothingIsSkipped'
  BY <1>1 DEF ScannerInvariant, CompleteIfPassed, NothingIsSkipped
<1> QED
  BY <1>2, <1>3, <1>4 DEF ScannerInvariant

LEMMA ScannedStep ==
  ASSUME ScannerInvariant, Scanned
  PROVE  ScannerInvariant'
<1>1. /\ phase = "scanning" /\ buffered = 0
      /\ UNCHANGED <<request, at, off, buffered, more, uri, urlCut, currentHead,
                     currentValue, gotValue, headers, body, messageComplete>>
      /\ IF messageComplete \/ ~more
         THEN phase' = "acting" /\ method' \in Methods \cup {method}
         ELSE phase' = "reading" /\ method' = method
  BY DEF Scanned, LoopEnds, readVars
<1>2. method' \in Methods \cup {"unset"}
  BY <1>1 DEF ScannerInvariant, ParseTypes
<1>3. BodySoFar'
  <2>1. Place' = Place /\ Part' = Part /\ (Last("body")' <=> Last("body"))
    BY <1>1 DEF Elements, Place, Part, Last
  <2>2. phase' \in {"acting", "reading"}
    BY <1>1
  <2>3. phase' = "reading" => ~messageComplete' /\ more' /\ buffered' = 0
    BY <1>1
  <2>4. phase' = "acting" => buffered' = 0 /\ (messageComplete' \/ ~more')
    BY <1>1
  <2> QED
    BY <1>1, <2>1, <2>2, <2>3, <2>4 DEF ScannerInvariant, BodySoFar
<1> QED
  BY <1>1, <1>2, <1>3, ScannerUntouched

LEMMA ScannerStep ==
  ASSUME ScannerInvariant, [Next]_vars
  PROVE  ScannerInvariant'
<1>1. CASE ReadLoop
  BY <1>1, ReceiveStep, ScannedStep, UrlStep, FieldStep, ValueStep, EndStep, BodyStep
     DEF ReadLoop
<1>2. ASSUME UNCHANGED <<request, at, off, buffered, more, method, uri, urlCut,
                         currentHead, currentValue, gotValue, headers, body,
                         messageComplete>>,
             \/ phase' = phase
             \/ phase = "acting" /\ phase' \in {"replied", "threw"}
      PROVE  ScannerInvariant'
  <2>1. method' \in Methods \cup {"unset"}
    BY <1>2 DEF ScannerInvariant, ParseTypes
  <2>2. BodySoFar'
    <3>1. Place' = Place /\ Part' = Part /\ (Last("body")' <=> Last("body"))
      BY <1>2 DEF Elements, Place, Part, Last
    <3> QED
      BY <1>2, <3>1 DEF ScannerInvariant, BodySoFar
  <2> QED
    BY <1>2, <2>1, <2>2, ScannerUntouched
<1>3. CASE WriteBody
  BY <1>2, <1>3 DEF WriteBody, readVars, parseVars, urlVars
<1>4. ASSUME NEW n \in 0 .. MaxWrites, SetContentLength(n)
      PROVE  ScannerInvariant'
  BY <1>2, <1>4 DEF SetContentLength, readVars, parseVars, urlVars
<1>5. CASE FlushBody
  BY <1>2, <1>5 DEF FlushBody, readVars, parseVars, urlVars
<1>6. ASSUME NEW result \in {"replied", "threw"}, ActionEnds(result)
      PROVE  ScannerInvariant'
  BY <1>2, <1>6 DEF ActionEnds, readVars, parseVars, urlVars
<1>7. CASE UNCHANGED vars
  BY <1>2, <1>7 DEF vars, readVars, parseVars, urlVars
<1> QED
  BY <1>1, <1>3, <1>4, <1>5, <1>6, <1>7 DEF Next

LEMMA ScannerInit == Init => ScannerInvariant
<1> SUFFICES ASSUME Init PROVE ScannerInvariant
  OBVIOUS
<1>1. /\ request \in Requests /\ phase = "reading" /\ at = 1 /\ off = 0 /\ buffered = 0
      /\ more = TRUE /\ method = "unset" /\ uri = <<>> /\ urlCut = FALSE
      /\ currentHead = <<>> /\ currentValue = <<>> /\ gotValue = FALSE
      /\ headers = <<>> /\ body = <<>> /\ messageComplete = FALSE
  BY DEF Init
<1>2. WellFormed(Elements)
  BY <1>1 DEF Elements
<1>3. Len(Elements) \in Nat
  BY <1>2, LenProperties DEF WellFormed
<1>4. ParseTypes
  <2>1. {more, gotValue, messageComplete, urlCut} \subseteq BOOLEAN
    BY <1>1, Zenon
  <2>2. /\ <<>> \in Seq(Byte) /\ <<>> \in Seq(Seq(Byte) \X Seq(Byte))
    BY EmptySeq
  <2> QED
    BY <1>1, <1>2, <1>3, <2>1, <2>2 DEF ParseTypes
<1>5. Place = 0 /\ \A kind : ~ Last(kind)
  BY <1>1 DEF Place, Last
<1>6. HeadersSoFar /\ UrlSoFar /\ CompleteIfPassed /\ BodySoFar
  BY <1>1, <1>5 DEF HeadersSoFar, UrlSoFar, CompleteIfPassed, BodySoFar
<1>7. NothingIsSkipped
  BY <1>1, <1>4, UnparsedIsFinite DEF NothingIsSkipped
<1> QED
  BY <1>4, <1>6, <1>7 DEF ScannerInvariant

LEMMA ScannerInvariantHolds == Spec => []ScannerInvariant
  BY ScannerInit, ScannerStep, PTL DEF Spec

-----------------------------------------------------------------------------
(* What the action sees.                                                   *)

\* Type correctness, whatever the request (ReadRequestHandler, HttpScanner,
\* Response).
THEOREM ExchangeTypeCorrect == Spec => []TypeOK
<1>1. ASSUME ScannerInvariant, ReplyInvariant
      PROVE  TypeOK
  <2>1. {more, gotValue, messageComplete, flusher, headerWritten} \subseteq BOOLEAN
    BY <1>1 DEF ScannerInvariant, ParseTypes, ReplyInvariant, ReplyTypes
  <2>2. Len(contentLength) \in 0 .. 1
    <3>1. contentLength \in Seq(Int) /\ Len(contentLength) <= 1
      BY <1>1 DEF ReplyInvariant, ReplyTypes
    <3>2. Len(contentLength) \in Nat
      BY <3>1, LenProperties
    <3>3. \A n \in Nat : n <= 1 => n \in 0 .. 1
      OBVIOUS
    <3> QED
      BY <3>1, <3>2, <3>3, Zenon
  <2> QED
    BY <1>1, <2>1, <2>2 DEF TypeOK, ScannerInvariant, ParseTypes, ReplyInvariant, ReplyTypes
<1> QED
  BY <1>1, ScannerInvariantHolds, ReplyInvariantHolds, PTL

\* An element that ends the header has a body after it or nothing, and a body
\* is the last element.
LEMMA LastElements ==
  ASSUME ParseTypes, NEW e \in 1 .. Len(Elements)
  PROVE  /\ Elements[e].is = "body" => e = Len(Elements) /\ Elements[e - 1].is = "end"
         /\ Elements[e].is = "end" => e \in {Len(Elements) - 1, Len(Elements)}
<1>1. Len(Elements) \in Nat
  BY Neighbours
<1>2. \A i \in 1 .. Len(Elements) - 1 :
        /\ Elements[i].is # "body"
        /\ Elements[i].is = "end" => Elements[i + 1].is = "body"
  BY Neighbours
<1>3. Elements[e].is = "body" => e = Len(Elements) /\ Elements[e - 1].is = "end"
  <2>1. Elements[e].is = "body" => Elements[e - 1].is = "end"
    BY Neighbours
  <2> QED
    BY <1>1, <1>2, <2>1
<1>4. ASSUME Elements[e].is = "end", e < Len(Elements) - 1
      PROVE  FALSE
  <2>1. /\ e \in 1 .. Len(Elements) - 1 /\ e + 1 \in 1 .. Len(Elements) - 1
    BY <1>1, <1>4
  <2> QED
    BY <1>2, <1>4, <2>1
<1> QED
  BY <1>1, <1>3, <1>4

LEMMA HeadersFollow ==
  ASSUME ScannerInvariant
  PROVE  HeadersAreSent
<1> SUFFICES ASSUME messageComplete
             PROVE  /\ Collected(Elements, headers, Len(Elements))
                    /\ ~urlCut => uri = Elements[1].text
  BY DEF HeadersAreSent, Collected
<1>1. ParseTypes /\ (Last("end") \/ Last("body"))
  BY DEF ScannerInvariant, CompleteIfPassed
<1>2. /\ Place \in 1 .. Len(Elements) /\ Elements[Place].is \in {"end", "body"}
      /\ Len(Elements) \in Nat
  BY <1>1, Neighbours DEF Last, Place, ParseTypes
<1>3. Collected(Elements, headers, Place)
  BY <1>1 DEF ScannerInvariant, HeadersSoFar
<1>4. FieldsUpTo(Elements, Len(Elements)) = FieldsUpTo(Elements, Place)
  <2>1. CASE Place = Len(Elements)
    BY <2>1
  <2>2. CASE Place # Len(Elements)
    <3>1. Elements[Place].is = "end" /\ Place = Len(Elements) - 1
      BY <1>1, <1>2, <2>2, LastElements
    <3>2. Elements[Len(Elements)].is = "body"
      <4>1. Place \in 1 .. Len(Elements) - 1 /\ Place + 1 = Len(Elements)
        BY <1>2, <3>1
      <4> QED
        BY <1>1, <3>1, <4>1, Neighbours
    <3>3. FieldsUpTo(Elements, Len(Elements)) = FieldsUpTo(Elements, Len(Elements) - 1)
      <4>1. Len(Elements) \in 0 .. Len(Elements) /\ Len(Elements) > 0
        BY <1>2
      <4> QED
        BY <1>1, <3>2, <4>1, FieldCount
    <3> QED
      BY <3>1, <3>3
  <2> QED
    BY <2>1, <2>2
<1>5. Collected(Elements, headers, Len(Elements))
  BY <1>3, <1>4 DEF Collected
<1>6. ~urlCut => uri = Elements[1].text
  <2>1. off = 0 \/ Place # 1
    <3>1. Elements[1].is = "url"
      BY <1>1, <1>2, Neighbours
    <3> QED
      BY <1>2, <3>1
  <2> QED
    BY <1>2, <2>1 DEF ScannerInvariant, UrlSoFar
<1> QED
  BY <1>5, <1>6

\* The header survives every cut: HttpScanner's callbacks put together what
\* the reads take apart, whatever their number, their length and their order.
THEOREM HeadersSurvive == Spec => []HeadersAreSent
  BY HeadersFollow, ScannerInvariantHolds, PTL

LEMMA BodyFollows ==
  ASSUME ScannerInvariant
  PROVE  BodyIsSent
<1> SUFFICES ASSUME phase = "acting", HasEnd, NEW i \in DOMAIN Elements,
                    Elements[i].is = "body"
             PROVE  /\ at >= i
                    /\ body \o (IF at = i THEN SubSeq(Elements[i].text, off + 1,
                                                      Len(Elements[i].text))
                                ELSE <<>>) = Elements[i].text
  BY DEF BodyIsSent
<1>1. ParseTypes
  BY DEF ScannerInvariant
<1>2. /\ i \in 1 .. Len(Elements) /\ i = Len(Elements) /\ Len(Elements) \in Nat
      /\ Elements[i].text \in Seq(Byte)
  BY <1>1, Neighbours, LastElements
<1>3. Last("end") \/ Last("body")
  <2>1. CASE messageComplete
    BY <2>1 DEF ScannerInvariant, CompleteIfPassed
  <2>2. CASE ~messageComplete
    <3>1. buffered = 0 /\ ~more
      BY <2>2 DEF ScannerInvariant, BodySoFar
    <3>2. Unparsed = {}
      <4>1. Cardinality(Unparsed) = 0
        BY <3>1 DEF ScannerInvariant, NothingIsSkipped
      <4> QED
        BY <1>1, <4>1, UnparsedIsFinite, FS_EmptySet
    <3>3. at = Len(Elements) + 1
      <4>1. SUFFICES ASSUME at # Len(Elements) + 1 PROVE FALSE
        OBVIOUS
      <4>2. i \in at .. Len(Elements) /\ off \in Nat
        BY <1>1, <1>2, <4>1 DEF ParseTypes
      <4>3. Size(Elements[i]) \in Nat /\ Size(Elements[i]) >= 1
        BY <1>1, <1>2, Neighbours, EmptySeq, LenProperties DEF Size
      <4>4. i = at => off < Size(Elements[i])
        BY <1>1, <1>2, <4>2, <4>3 DEF ParseTypes
      <4> DEFINE k == Size(Elements[i])
      <4>5. <<i, k>> \in {i} \X (1 .. Size(Elements[i]))
        BY <4>3
      <4>6. <<i, k>> \notin {at} \X (1 .. off)
        BY <4>2, <4>3, <4>4
      <4> HIDE DEF k
      <4>7. <<i, k>> \in Unparsed
        BY <4>2, <4>5, <4>6 DEF Unparsed
      <4> QED
        BY <3>2, <4>7
    <3>4. off = 0
      BY <1>1, <1>2, <3>3, Neighbours DEF ParseTypes
    <3>5. Place = Len(Elements) /\ Len(Elements) # 0
      BY <1>2, <3>3, <3>4 DEF Place
    <3> QED
      BY <1>2, <3>5 DEF Last
  <2> QED
    BY <2>1, <2>2
<1>4. Place \in 1 .. Len(Elements) /\ off \in Nat
  BY <1>1, <1>2, <1>3 DEF Last, Place, ParseTypes
<1>5. CASE Last("body")
  <2>1. Place = i /\ body = Part
    <3>1. Place = Len(Elements)
      BY <1>1, <1>4, <1>5, LastElements DEF Last
    <3> QED
      BY <1>2, <1>5, <3>1 DEF ScannerInvariant, BodySoFar
  <2>2. CASE off = 0
    <3>1. at = i + 1 /\ body = Elements[i].text
      BY <1>1, <1>2, <2>1, <2>2 DEF Place, Part, ParseTypes
    <3> QED
      BY <1>2, <3>1, ConcatEmptySeq
  <2>3. CASE off # 0
    <3>1. at = i /\ body = SubSeq(Elements[i].text, 1, off)
      BY <2>1, <2>3 DEF Place, Part
    <3>2. off <= Len(Elements[i].text) /\ Len(Elements[i].text) \in Nat
      <4>1. off < Size(Elements[i])
        BY <1>1, <2>3, <3>1 DEF ParseTypes
      <4>2. Size(Elements[i]) = Len(Elements[i].text) /\ Len(Elements[i].text) \in Nat
        BY <1>2, LenProperties DEF Size
      <4> QED
        BY <1>4, <4>1, <4>2
    <3>3. SubSeq(Elements[i].text, 1, off)
            \o SubSeq(Elements[i].text, off + 1, Len(Elements[i].text))
          = SubSeq(Elements[i].text, 1, Len(Elements[i].text))
      <4> DEFINE text == Elements[i].text
      <4>1. text \in Seq(Byte) /\ off \in 0 .. Len(text) /\ Len(text) \in off .. Len(text)
        BY <1>2, <1>4, <3>2
      <4> HIDE DEF text
      <4>2. SubSeq(text, 1, off) \o SubSeq(text, off + 1, Len(text))
              = SubSeq(text, 1, Len(text))
        BY <4>1, TwoPieces
      <4> QED
        BY <4>2 DEF text
    <3>4. body \o SubSeq(Elements[i].text, off + 1, Len(Elements[i].text))
            = Elements[i].text
      BY <1>2, <3>1, <3>3, SubSeqFull, Zenon
    <3>5. at >= i
      BY <1>2, <3>1
    <3> QED
      BY <3>1, <3>4, <3>5, Zenon
  <2> QED
    BY <2>2, <2>3
<1>6. CASE Last("end")
  <2>1. Elements[Place].is = "end" /\ ~ Last("body") /\ Place = Len(Elements) - 1
    BY <1>1, <1>2, <1>4, <1>6, LastElements DEF Last
  <2>2. body = <<>>
    BY <2>1 DEF ScannerInvariant, BodySoFar
  <2>3. at = i /\ off = 0
    <3>1. off # 0 => Place = at /\ at \in 1 .. Len(Elements)
      BY <1>2, <1>4 DEF Place
    <3>2. off = 0
      BY <1>1, <2>1, <3>1, EndIsWhole
    <3> QED
      BY <1>1, <1>2, <2>1, <3>2 DEF Place, ParseTypes
  <2>4. SubSeq(Elements[i].text, 1, Len(Elements[i].text)) = Elements[i].text
    BY <1>2, SubSeqFull
  <2> QED
    BY <1>2, <2>2, <2>3, <2>4, ConcatEmptySeq
<1> QED
  BY <1>3, <1>5, <1>6

\* The body is divided between the scanner and the stream that the action
\* reads, and no byte of it is lost or read twice.
THEOREM BodySurvives == Spec => []BodyIsSent
  BY BodyFollows, ScannerInvariantHolds, PTL

=============================================================================
