---------------------------- MODULE HeaderParser ----------------------------
(***************************************************************************)
(* HeaderParser (bunjalloo/source/HeaderParser.cpp): what comes over the   *)
(* network, or out of a copy in the cache, is buffered by feed() and taken *)
(* apart by flush() into a status, headers, chunks and a payload for       *)
(* HtmlParser.  The text is a sequence of tokens: a status line's text, a  *)
(* header's name or value, CR, LF, a hexadecimal digit, a byte of the body.*)
(* A step is one call that flush's loop makes.                             *)
(***************************************************************************)
EXTENDS Integers, Sequences, SequencesExt

CONSTANTS Answers,     \* what servers answer, as records of type Answer
          Window,      \* WINSIZE: what one call of inflate can put out
          MaxAnswers   \* bound: answers and copies read in a behaviour

StatusLines == {"200", "302"}
Fields == {"transfer-encoding", "content-encoding", "location", "other"}
Values == {"chunked", "gzip", "url", "x"}
Digit  == [d \in {"0", "1", "2", "3", "4", "5"} |->
             CHOOSE n \in 0..5 : ToString(n) = d]
Bytes  == {"p1", "p2", "p3"}
Zipped == {"zhead", "ztail", "zbad"}
Tokens == StatusLines \cup {"junk", "CR", "LF", ":", " "} \cup Fields \cup Values
            \cup DOMAIN Digit \cup Bytes \cup Zipped

\* An answer: its payload, the number of bytes in each chunk, if it is sent
\* in chunks, whether it is sent as gzip, and whether what is sent is.
Answer == [status : StatusLines \cup {"junk"}, location : BOOLEAN,
           payload : Seq(Bytes), coding : {"identity", "gzip", "broken"},
           chunked : BOOLEAN, chunks : Seq(1..5), trailer : BOOLEAN]

VARIABLES
  state,        \* m_state
  buffer,       \* m_bufferData
  position,     \* m_position, as an index of buffer
  field,        \* m_field
  headerValue,  \* m_headerValue
  redirect,     \* m_redirect is not empty
  chunked,      \* m_chunked
  gzip,         \* m_gzip
  chunkLength,  \* m_chunkLength
  digits,       \* m_chunkLengthString after its "0x"
  statusCode,   \* m_httpStatusCode
  inflate,      \* the loop of fireData around inflate(): whether it goes on,
                \* its input, what is in the window, and the end of the stream
  fed,          \* all that HtmlParser::feed was given
  file,         \* the copy in the cache: headers and content
  saving,       \* m_cacheFile is not empty
  overrun,      \* something past the end of buffer was read
  answer,       \* the answer that is read, or that the copy was made of
  cut,          \* whether it was cut short
  source,       \* where it comes from
  todo,         \* what is still to be fed and flushed of it
  before,       \* fed and redirect when the answer that is now copied ended
  count

input   == <<answer, cut, source, todo, before, count>>
headers == <<field, headerValue, redirect, statusCode>>
body    == <<chunked, gzip, chunkLength, digits, inflate, fed>>
files   == <<file, saving>>
vars == <<state, buffer, position, headers, body, files, overrun, input>>

States == {"HTTP_RESPONSE", "BEFORE_FIELD", "FIELD", "AFTER_FIELD",
           "BEFORE_VALUE", "VALUE", "ENDING_HEADERS", "CHUNK_LINE", "DATA",
           "PARSE_ERROR"}

CRLF == <<"CR", "LF">>
Quiet == [busy |-> FALSE, in |-> <<>>, window |-> <<>>, ended |-> FALSE]

----------------------------------------------------------------------------
(* The server                                                              *)

Header(name, value) == <<name, ":", " ", value>> \o CRLF

Encoded(a) == CASE a.coding = "identity" -> a.payload
                [] a.coding = "gzip"     -> <<"zhead">> \o a.payload \o <<"ztail">>
                [] a.coding = "broken"   -> <<"zhead", "zbad", "ztail">>

InChunks(text, lengths) ==
  LET starts == [i \in 1..Len(lengths) + 1 |->
                   1 + FoldLeft(LAMBDA n, m : n + m, 0, SubSeq(lengths, 1, i - 1))]
  IN FlattenSeq([i \in 1..Len(lengths) |->
                  <<ToString(lengths[i])>> \o CRLF
                    \o SubSeq(text, starts[i], starts[i + 1] - 1) \o CRLF])

Body(a) == IF a.chunked
           THEN InChunks(Encoded(a), a.chunks) \o <<"0">> \o CRLF
                  \o (IF a.trailer THEN <<"other", " ", ":", "x">> \o CRLF ELSE <<>>)
                  \o CRLF
           ELSE Encoded(a)

Sent(a) ==
  <<a.status>> \o CRLF \o Header("other", "x")
    \o (IF a.location THEN Header("location", "url") ELSE <<>>)
    \o (IF a.chunked THEN Header("transfer-encoding", "chunked") ELSE <<>>)
    \o (IF a.coding = "identity" THEN <<>> ELSE Header("content-encoding", "gzip"))
    \o CRLF \o Body(a)

----------------------------------------------------------------------------
(* What its callers do                                                     *)

Init ==
  /\ state = "HTTP_RESPONSE" /\ buffer = <<>> /\ position = 1
  /\ field = "" /\ headerValue = <<>> /\ redirect = FALSE /\ statusCode = "200"
  /\ chunked = FALSE /\ gzip = FALSE /\ chunkLength = 0 /\ digits = <<>>
  /\ inflate = Quiet /\ fed = <<>>
  /\ file = [hdr |-> <<>>, content |-> <<>>] /\ saving = FALSE
  /\ overrun = FALSE
  /\ answer \in Answers /\ cut = FALSE /\ source = "none" /\ todo = <<>>
  /\ before = [fed |-> <<>>, redirect |-> FALSE] /\ count = 0

\* Mutant: the state of the chunks survives.
ResetKeepsChunked ==
  /\ state' = "HTTP_RESPONSE" /\ redirect' = FALSE
  /\ gzip' = FALSE /\ chunkLength' = 0 /\ digits' = <<>>
  /\ inflate' = Quiet /\ position' = 1
  /\ UNCHANGED <<chunked, statusCode, field, headerValue>>

\* reset().  The field, the value and the status code stay what they were.
Reset ==
  /\ state' = "HTTP_RESPONSE" /\ redirect' = FALSE
  /\ chunked' = FALSE /\ gzip' = FALSE /\ chunkLength' = 0 /\ digits' = <<>>
  /\ inflate' = Quiet /\ position' = 1
  /\ UNCHANGED <<statusCode, field, headerValue>>

Idle == buffer = <<>> /\ todo = <<>>

\* A fetch, with the cache in use or not: the parser has been reset, by
\* setCacheFile or by Document::reset; HttpClient feeds what it gets, all of
\* it or less, and flushes once.
ReadAnswer ==
  /\ Idle /\ count < MaxAnswers /\ count' = count + 1
  /\ Reset /\ fed' = <<>>
  /\ \E a \in Answers :
       /\ answer' = a
       /\ \E n \in 1..Len(Sent(a)) :
            /\ todo' = <<SubSeq(Sent(a), 1, n)>>
            /\ cut' = (n < Len(Sent(a)))
  /\ saving' \in BOOLEAN
  /\ file' = IF saving' THEN [hdr |-> <<>>, content |-> <<>>] ELSE file
  /\ source' = "network" /\ overrun' = FALSE
  /\ UNCHANGED <<buffer, before>>

\* Cache::load of the copy made of the last answer: its headers are flushed,
\* then an empty line, then its content.
ReadCopy ==
  /\ Idle /\ count < MaxAnswers /\ count' = count + 1
  /\ source = "network" /\ saving
  /\ Reset /\ fed' = <<>> /\ saving' = FALSE
  /\ todo' = <<file.hdr, CRLF, file.content>>
  /\ before' = [fed |-> fed, redirect |-> redirect]
  /\ source' = "copy" /\ overrun' = FALSE
  /\ UNCHANGED <<buffer, file, answer, cut>>

\* feed() and the beginning of flush().
FeedAndFlush ==
  /\ buffer = <<>> /\ todo # <<>>
  /\ buffer' = Head(todo) /\ todo' = Tail(todo) /\ position' = 1
  /\ UNCHANGED <<state, headers, body, files, overrun,
                 answer, cut, source, before, count>>

----------------------------------------------------------------------------
(* flush                                                                   *)

Flushing == buffer # <<>> /\ position <= Len(buffer) /\ ~inflate.busy
Value    == buffer[position]
AtEnd    == position = Len(buffer)

\* Whether an LF follows; past the end there may be anything.
ThenLF   == IF AtEnd THEN {TRUE, FALSE} ELSE {buffer[position + 1] = "LF"}

\* next() past the last token reads what is not there.
Skip(n) == /\ position' = position + n
           /\ overrun' = (overrun \/ position + n > Len(buffer) + 1)

Save(text) == IF saving THEN file' = [file EXCEPT !.hdr = @ \o text]
                        ELSE UNCHANGED file

\* The end of flush: the buffer is freed.
FlushEnds ==
  /\ buffer # <<>> /\ position > Len(buffer) /\ ~inflate.busy
  /\ buffer' = <<>>
  /\ UNCHANGED <<state, position, headers, body, files, overrun, input>>

\* httpResponse reads on to the next LF, wherever that is.
HttpResponse ==
  /\ Flushing /\ state = "HTTP_RESPONSE"
  /\ LET ends == {i \in position..Len(buffer) : buffer[i] = "LF"}
         end  == IF ends = {} THEN Len(buffer) + 1
                              ELSE CHOOSE i \in ends : \A j \in ends : i <= j
         line == SubSeq(buffer, position, end - 1)
     IN /\ Skip(end + 1 - position)
        /\ IF line # <<>> /\ Head(line) \in StatusLines
           THEN /\ state' = "BEFORE_FIELD" /\ statusCode' = Head(line)
                /\ Save(line \o <<"LF">>)
           ELSE state' = "PARSE_ERROR" /\ UNCHANGED <<statusCode, file>>
  /\ UNCHANGED <<buffer, field, headerValue, redirect, body, saving, input>>

\* After CR another token is read, and if that is LF, looked at again.
BeforeField ==
  /\ Flushing /\ state = "BEFORE_FIELD"
  /\ \/ /\ Value \in Fields
        /\ field' = Value /\ state' = "FIELD" /\ Skip(1)
     \/ /\ Value = "CR" /\ TRUE \in ThenLF
        /\ state' = "ENDING_HEADERS"
        /\ position' = position + 1
        /\ overrun' = (overrun \/ AtEnd)
        /\ UNCHANGED field
     \/ /\ Value = "CR" /\ FALSE \in ThenLF
        /\ Skip(2)
        /\ UNCHANGED <<state, field>>
     \/ /\ Value = "LF"
        /\ state' = "ENDING_HEADERS"
        /\ UNCHANGED <<position, overrun, field>>
     \/ /\ Value \notin Fields \cup {"CR", "LF"}
        /\ Skip(1) /\ UNCHANGED <<state, field>>
  /\ UNCHANGED <<buffer, headerValue, redirect, statusCode, body, files, input>>

Field ==
  /\ Flushing /\ state = "FIELD" /\ Value \in {":", " "}
  /\ state' = IF Value = ":" THEN "BEFORE_VALUE" ELSE "AFTER_FIELD"
  /\ Skip(1)
  /\ UNCHANGED <<buffer, headers, body, files, input>>

AfterField ==
  /\ Flushing /\ state = "AFTER_FIELD" /\ Value \in {":", " "}
  /\ state' = IF Value = ":" THEN "BEFORE_VALUE" ELSE "AFTER_FIELD"
  /\ Skip(1)
  /\ UNCHANGED <<buffer, headers, body, files, input>>

BeforeValue ==
  /\ Flushing /\ state = "BEFORE_VALUE" /\ Value # "LF"
  /\ IF Value = " " THEN UNCHANGED <<state, headerValue>>
                    ELSE state' = "VALUE" /\ headerValue' = <<Value>>
  /\ Skip(1)
  /\ UNCHANGED <<buffer, field, redirect, statusCode, body, files, input>>

\* handleHeader.  How the answer was sent is not stored with the copy.
HandleHeader(f, v) ==
  /\ chunked' = (chunked \/ (f = "transfer-encoding" /\ v = <<"chunked">>))
  /\ redirect' = (redirect \/ (f = "location" /\ statusCode = "302"))
  /\ gzip' = (gzip \/ (f = "content-encoding" /\ v = <<"gzip">>))
  /\ inflate' = IF f = "content-encoding" /\ v = <<"gzip">> THEN Quiet ELSE inflate
  /\ IF f \in {"transfer-encoding", "content-encoding"} THEN UNCHANGED file
     ELSE Save(<<f, ":">> \o v \o CRLF)

\* A value ends with CR, LF or CR LF.
ReadValue ==
  /\ Flushing /\ state = "VALUE"
  /\ IF Value \in {"CR", "LF"}
     THEN /\ state' = "BEFORE_FIELD"
          /\ HandleHeader(field, headerValue)
          /\ Skip(IF Value = "CR" /\ TRUE \in ThenLF
                  THEN 2 ELSE 1)
          /\ UNCHANGED headerValue
     ELSE /\ headerValue' = Append(headerValue, Value)
          /\ Skip(1)
          /\ UNCHANGED <<state, chunked, redirect, gzip, inflate, file>>
  /\ UNCHANGED <<buffer, field, statusCode, chunkLength, digits, fed, saving,
                 input>>

\* The LF of the empty line.
EndingHeaders ==
  /\ Flushing /\ state = "ENDING_HEADERS"
  /\ state' = IF chunked THEN "CHUNK_LINE" ELSE "DATA"
  /\ digits' = IF chunked THEN <<>> ELSE digits
  /\ Skip(1)
  /\ UNCHANGED <<buffer, headers, chunked, gzip, chunkLength, inflate, fed,
                 files, input>>

Number(ds) == FoldLeft(LAMBDA n, d : 16 * n + Digit[d], 0, ds)

\* Anything but digits and the end of the line is an error, for good.
ChunkLine ==
  /\ Flushing /\ state = "CHUNK_LINE"
  /\ \/ /\ Value \in DOMAIN Digit
        /\ digits' = Append(digits, Value)
        /\ Skip(1) /\ UNCHANGED <<state, chunkLength>>
     \/ /\ \/ Value = "LF" /\ Skip(1)
           \/ Value = "CR" /\ TRUE \in ThenLF /\ Skip(2)
        /\ chunkLength' = Number(digits) /\ state' = "DATA"
        /\ UNCHANGED digits
     \/ /\ Value \notin DOMAIN Digit \cup {"LF"}
        /\ Value = "CR" => FALSE \in ThenLF
        /\ state' = "PARSE_ERROR"
        /\ Skip(IF Value = "CR" THEN 2 ELSE 1)
        /\ UNCHANGED <<digits, chunkLength>>
  /\ UNCHANGED <<buffer, headers, chunked, gzip, inflate, fed, files, input>>

\* parseError: token by token after an error in a chunk's length.
ParseError ==
  /\ Flushing /\ state = "PARSE_ERROR"
  /\ position' = IF chunked /\ chunkLength = 0 THEN position + 1
                                               ELSE Len(buffer) + 1
  /\ UNCHANGED <<state, buffer, headers, body, files, overrun, input>>

\* HtmlParser::feed, which also adds to the file of the copy.
Feed(text) ==
  /\ fed' = fed \o text
  /\ file' = IF saving THEN [file EXCEPT !.content = @ \o text] ELSE file

Take(n) ==
  /\ position' = position + n
  /\ IF gzip THEN /\ inflate' = [inflate EXCEPT !.busy = TRUE, !.window = <<>>,
                                   !.in = SubSeq(buffer, position, position + n - 1)]
                  /\ UNCHANGED <<fed, file>>
             ELSE /\ Feed(SubSeq(buffer, position, position + n - 1))
                  /\ UNCHANGED inflate

Rest == Len(buffer) - position + 1

\* Mutant: an empty chunk does not end.
FireDataEmptyStays ==
  /\ Flushing /\ state = "DATA"
  /\ IF chunked /\ Rest >= chunkLength
     THEN /\ Take(chunkLength) /\ digits' = <<>> /\ chunkLength' = 0
          /\ state' = IF chunkLength = 0 THEN "DATA" ELSE "BEFORE_FIELD"
     ELSE /\ Take(Rest)
          /\ chunkLength' = IF chunked THEN chunkLength - Rest ELSE chunkLength
          /\ UNCHANGED <<state, digits>>
  /\ UNCHANGED <<buffer, headers, chunked, gzip, saving, overrun, input>>

\* fireData, but for the loop around inflate.
FireData ==
  /\ Flushing /\ state = "DATA"
  /\ IF chunked /\ Rest >= chunkLength
     THEN /\ Take(chunkLength) /\ state' = "BEFORE_FIELD"
          /\ digits' = <<>> /\ chunkLength' = 0
     ELSE /\ Take(Rest)
          /\ chunkLength' = IF chunked THEN chunkLength - Rest ELSE chunkLength
          /\ UNCHANGED <<state, digits>>
  /\ UNCHANGED <<buffer, headers, chunked, gzip, saving, overrun, input>>

\* One round of the loop.  With Z_BLOCK, inflate() returns after the head of
\* the stream and after each block; what it has put into the window is fed
\* from the window's beginning, which is where it goes on only once the window
\* is full.  Data that is not gzip it refuses, and takes nothing.
InflateRound ==
  /\ inflate.busy
  /\ LET window == IF Len(inflate.window) = Window THEN <<>> ELSE inflate.window
         token  == Head(inflate.in)
     IN \/ /\ inflate.in # <<>> /\ (inflate.ended \/ token = "ztail")
           /\ inflate' = [inflate EXCEPT !.busy = FALSE, !.ended = TRUE, !.in = <<>>]
           /\ UNCHANGED <<fed, file>>
        \/ /\ inflate.in = <<>>
           /\ inflate' = [inflate EXCEPT !.busy = FALSE]
           /\ UNCHANGED <<fed, file>>
        \/ /\ inflate.in # <<>> /\ ~inflate.ended /\ token = "zbad"
           /\ Feed(window)
           /\ inflate' = [inflate EXCEPT !.window = window]
        \/ /\ inflate.in # <<>> /\ ~inflate.ended /\ token \notin {"ztail", "zbad"}
           /\ LET out == IF token = "zhead" THEN window ELSE Append(window, token)
              IN /\ Feed(out)
                 /\ inflate' = [inflate EXCEPT !.in = Tail(@), !.window = out,
                                  !.busy = Len(inflate.in) > 1]
  /\ UNCHANGED <<state, buffer, position, headers, chunked, gzip, chunkLength,
                 digits, saving, overrun, input>>

Flush == \/ HttpResponse \/ BeforeField \/ Field \/ AfterField \/ BeforeValue
         \/ ReadValue \/ EndingHeaders \/ ChunkLine \/ ParseError
         \/ FireData \/ InflateRound \/ FlushEnds

Next == ReadAnswer \/ ReadCopy \/ FeedAndFlush \/ Flush

Spec == Init /\ [][Next]_vars

\* A call runs to its end.
FairSpec == Spec /\ WF_vars(FeedAndFlush \/ Flush)

----------------------------------------------------------------------------
(* Properties                                                              *)

TypeInvariant ==
  /\ state \in States /\ buffer \in Seq(Tokens) /\ position \in Nat \ {0}
  /\ field \in Fields \cup {""} /\ headerValue \in Seq(Tokens)
  /\ redirect \in BOOLEAN /\ statusCode \in StatusLines
  /\ chunked \in BOOLEAN /\ gzip \in BOOLEAN /\ overrun \in BOOLEAN
  /\ chunkLength \in Nat /\ digits \in Seq(DOMAIN Digit)
  /\ inflate.in \in Seq(Tokens) /\ Len(inflate.window) <= Window
  /\ fed \in Seq(Bytes) /\ file.hdr \in Seq(Tokens) /\ file.content \in Seq(Bytes)

\* HtmlParser gets the payload, in order and nothing else, wherever an answer
\* is cut, however it is divided into chunks, over the network or from a copy.
PayloadInOrder == IsPrefix(fed, answer.payload)

\* A whole answer, read over the network or from its copy, gives the whole
\* payload and the redirect that the server meant, and is not read past its end.
WholeAnswerRead ==
  Idle /\ source # "none" /\ ~cut /\ answer.status # "junk" =>
    /\ fed = answer.payload
    /\ redirect = (answer.location /\ answer.status = "302") /\ ~overrun

\* A copy makes the page that the answer made, cut short or not: the headers
\* that were stored describe the content that was stored.
CopyMakesSamePage ==
  Idle /\ source = "copy" => fed = before.fed /\ redirect = before.redirect

\* What reaches the page is its answer: in order, whole when the answer was whole,
\* and the same from the network and from the copy (HeaderParser::feed and flush).
PageIsTheAnswer == PayloadInOrder /\ WholeAnswerRead /\ CopyMakesSamePage

\* A flush ends.
FlushesEnd == []<>Idle
=============================================================================
