------------------------------ MODULE PageFetch ------------------------------
(***************************************************************************)
(* The loading of one page after another over HTTP: the connection state   *)
(* machine of HttpClient (bunjalloo/source/HttpClient.cpp) on top of       *)
(* nds::Client, driven by the loop of Controller::fetchHttp, which         *)
(* Controller::doUri repeats for redirects.  A step is one round of that   *)
(* loop; between two rounds the user, the access point, the server and the *)
(* clock act.  Sub-resources and pages opened while another one loads are  *)
(* the subject of module Browser.                                          *)
(***************************************************************************)
EXTENDS NdsClient

CONSTANTS Timeout,       \* m_timeout, in ticks of the clock
          MaxRedirects,  \* m_maxRedirects
          MaxFetches,    \* bound: the fetches of a behaviour
          MaxBlocks      \* bound: the blocks in which one answer arrives

ASSUME BoundsAssumption ==
  /\ Timeout \in Nat /\ MaxRedirects \in Nat
  /\ MaxFetches \in Nat /\ MaxBlocks \in Nat

VARIABLES fetch,       \* the number of the current or last fetch
          fetching,    \* fetchHttp's loop runs
          uri,         \* m_uri: is it https, is the method HEAD
          state,       \* m_state
          finished,    \* m_finished
          total,       \* m_total, in blocks
          age,         \* time(NULL) - m_startTime, at most Timeout + 1
          handshaking, \* inside the loop of sslEnable
          redirected,  \* Controller's m_redirected
          proxy,       \* a proxy is configured
          wifiOn,      \* Wifi9's m_connected
          assoc,       \* Wifi_AssocStatus()
          broken,      \* reads on the connection report errors
          status,      \* Document's m_status
          buffered,    \* what HeaderParser has been fed and not yet parsed
          parsed       \* what the document has been made of since its reset

httpVars  == <<fetch, fetching, uri, state, finished, total, age, handshaking>>
worldVars == <<proxy, wifiOn, assoc>>
docVars   == <<status, buffered, parsed>>
vars == <<clientVars, httpVars, redirected, broken, worldVars, docVars>>

Fetches     == 1..MaxFetches
ProxyAnswer == 0     \* the answer to CONNECT
ErrorText   == -1    \* the page of loadError
Requests    == Fetches \cup {ProxyAnswer}

Uri == [secure : BOOLEAN, head : BOOLEAN]

HttpStates == {"WIFI_OFF", "CONNECT_WIFI", "CONNECT_SOCKET",
               "PROXY_SSL_HANDSHAKE", "GET_URL", "READING_ALL",
               "FINISHED", "FAILED"}

AssocStates == {"ASSOCIATING", "ASSOCIATED", "CANNOTCONNECT"}

WifiStatus == IF wifiOn THEN assoc ELSE "DISCONNECTED"

TimedOut == age > Timeout

HasPage == state = "FINISHED"

Init ==
  /\ ClientInit
  /\ fetch = 0 /\ fetching = FALSE
  /\ uri = [secure |-> FALSE, head |-> FALSE]
  /\ state = "WIFI_OFF" /\ finished = FALSE /\ total = 0 /\ age = 0
  /\ handshaking = FALSE /\ redirected = 0
  /\ proxy \in BOOLEAN /\ wifiOn = FALSE /\ assoc = "ASSOCIATING"
  /\ broken = FALSE
  /\ status = "NOTHING" /\ buffered = {} /\ parsed = {}

----------------------------------------------------------------------------
(* The document                                                            *)

\* Mutant: what was received before the failure stays in the parser.
AppendErrorPage ==
  /\ status' = "LOADED_HTML"
  /\ parsed' = parsed \cup buffered \cup {ErrorText}
  /\ buffered' = {}

\* Controller::loadError.
LoadError ==
  /\ status' = "LOADED_HTML"
  /\ parsed' = {ErrorText}
  /\ buffered' = {}

Append(a) == /\ status' = "INPROGRESS"
             /\ buffered' = buffered \cup {a}
             /\ UNCHANGED parsed

\* flush parses everything, and so finds out that the page has moved.
Flush ==
  /\ parsed' = parsed \cup buffered
  /\ buffered' = {}
  /\ status' \in IF fetch \in buffered THEN {status, "REDIRECTED"} ELSE {status}

\* Mutant: one redirect too many.
FinishFetchOffByOne(s, content, rest) ==
  IF s = "REDIRECTED" /\ redirected <= MaxRedirects
  THEN /\ redirected' = redirected + 1
       /\ status' = "REDIRECTED" /\ parsed' = {} /\ buffered' = {}
  ELSE /\ redirected' = 0
       /\ status' = "LOADED_HTML" /\ parsed' = content /\ buffered' = rest

\* finishFetchHttp on a document of the given status and content.
FinishFetch(s, content, rest) ==
  IF s = "REDIRECTED" /\ redirected < MaxRedirects
  THEN /\ redirected' = redirected + 1
       /\ status' = "REDIRECTED" /\ parsed' = {} /\ buffered' = {}
  ELSE /\ redirected' = 0
       /\ status' = "LOADED_HTML" /\ parsed' = content /\ buffered' = rest

----------------------------------------------------------------------------
(* Controller::fetchHttp                                                   *)

\* setUri and reset.
ResetClient(u) ==
  /\ ~fetching
  /\ fetch < MaxFetches
  /\ fetch' = fetch + 1
  /\ uri' = u
  /\ Disconnect
  /\ state' = "WIFI_OFF" /\ finished' = FALSE /\ total' = 0 /\ age' = 0
  /\ broken' = FALSE
  /\ UNCHANGED <<handshaking, worldVars>>

\* The user opens a page, or doUri goes round once more because the document
\* says REDIRECTED; handleUri resets the document.
FetchFromNetwork(u) ==
  /\ ResetClient(u)
  /\ fetching' = TRUE
  /\ status' = "NOTHING" /\ buffered' = {} /\ parsed' = {}
  /\ UNCHANGED redirected

FetchFromCache(u) ==
  /\ ResetClient(u)
  /\ \E s \in {"INPROGRESS", "REDIRECTED"} : FinishFetch(s, {fetch'}, {})
  /\ UNCHANGED fetching

\* The loop has ended by itself.
EndFetch ==
  /\ fetching /\ finished /\ ~handshaking
  /\ fetching' = FALSE
  /\ Disconnect
  /\ IF HasPage THEN FinishFetch(status, parsed, buffered)
                ELSE UNCHANGED <<redirected, docVars>>
  /\ UNCHANGED <<fetch, uri, state, finished, total, age, handshaking, broken,
                 worldVars>>

\* Controller::stop, from the view's tick in a round of the loop, which then
\* returns at once and leaves the connection to the next fetch.
Stop ==
  /\ fetching /\ ~handshaking /\ state # "WIFI_OFF"
  /\ fetching' = FALSE
  /\ UNCHANGED <<clientVars, fetch, uri, state, finished, total, age,
                 handshaking, redirected, broken, worldVars, docVars>>

----------------------------------------------------------------------------
(* HttpClient::handleNextState                                             *)

Round(s) == fetching /\ ~finished /\ ~handshaking /\ state = s

WifiOff ==
  /\ Round("WIFI_OFF")
  /\ wifiOn' = TRUE
  /\ state' = "CONNECT_WIFI"
  /\ UNCHANGED <<clientVars, fetch, fetching, uri, finished, total, age,
                 handshaking, redirected, broken, proxy, assoc, docVars>>

ConnectWifi ==
  /\ Round("CONNECT_WIFI")
  /\ state' = CASE WifiStatus = "CANNOTCONNECT" -> "FAILED"
                [] WifiStatus = "ASSOCIATED"    -> "CONNECT_SOCKET"
                [] OTHER                        -> "CONNECT_WIFI"
  /\ age' = 0
  /\ UNCHANGED <<clientVars, fetch, fetching, uri, finished, total, handshaking,
                 redirected, broken, worldVars, docVars>>

\* Mutant: goes on without asking whether the client is connected.
ConnectSocketUnchecked ==
  /\ Round("CONNECT_SOCKET")
  /\ ConnectsNow \/ NotYetConnected
  /\ state' = "PROXY_SSL_HANDSHAKE" /\ age' = 0
  /\ UNCHANGED <<fetch, fetching, uri, finished, total, handshaking, redirected,
                 broken, worldVars, docVars>>

ConnectSocket ==
  /\ Round("CONNECT_SOCKET")
  /\ \/ ConnectsNow /\ state' = "PROXY_SSL_HANDSHAKE" /\ age' = 0
     \/ NotYetConnected /\ UNCHANGED age
        /\ state' = IF TimedOut THEN "FAILED" ELSE state
  /\ UNCHANGED <<fetch, fetching, uri, finished, total, handshaking, redirected,
                 broken, worldVars, docVars>>

\* proxyConnect: the answer is either there when it is read, and then it is
\* handed to the document like any other data, or it is not.
ProxyAnswers ==
  /\ total' = total + 1
  /\ Append(ProxyAnswer)
  /\ finished' = (finished \/ uri.head)
  /\ UNCHANGED clientVars

ProxyIsSlow ==
  /\ Write(ProxyAnswer) \/ UNCHANGED open
  /\ UNCHANGED <<connectState, connected, sslEnabled, initialised, fd,
                 total, finished, docVars>>

NoProxy == UNCHANGED <<clientVars, total, finished, docVars>>

\* Mutant: only a proxied connection is encrypted.
HandshakeThroughProxyOnly ==
  /\ Round("PROXY_SSL_HANDSHAKE")
  /\ IF proxy THEN ProxyIsSlow \/ (~broken /\ ProxyAnswers) ELSE NoProxy
  /\ IF uri.secure /\ proxy THEN handshaking' = TRUE /\ UNCHANGED state
                            ELSE state' = "GET_URL" /\ UNCHANGED handshaking
  /\ UNCHANGED <<fetch, fetching, uri, age, redirected, broken, worldVars>>

ProxySslHandshake ==
  /\ Round("PROXY_SSL_HANDSHAKE")
  /\ IF proxy THEN ProxyIsSlow \/ (~broken /\ ProxyAnswers) ELSE NoProxy
  /\ IF uri.secure THEN handshaking' = TRUE /\ UNCHANGED state
                   ELSE state' = "GET_URL" /\ UNCHANGED handshaking
  /\ UNCHANGED <<fetch, fetching, uri, age, redirected, broken, worldVars>>

\* sslEnable's loop ends: the bytes of a TLS server come after the proxy's
\* answer, which the handshake cannot digest.
HandshakeSucceeds ==
  /\ handshaking /\ ~broken /\ ProxyAnswer \notin open[fd]
  /\ SslEnable
  /\ state' = "GET_URL"
  /\ handshaking' = FALSE
  /\ UNCHANGED <<fetch, fetching, uri, finished, total, age, redirected, broken,
                 worldVars, docVars>>

HandshakeFails ==
  /\ handshaking
  /\ state' = "FAILED"
  /\ handshaking' = FALSE
  /\ UNCHANGED <<clientVars, fetch, fetching, uri, finished, total, age,
                 redirected, broken, worldVars, docVars>>

\* get: nobody looks at how much of the request write has sent.
GetUrl ==
  /\ Round("GET_URL")
  /\ (connected /\ ~broken /\ Write(fetch)) \/ UNCHANGED open
  /\ finished' = FALSE
  /\ state' = "READING_ALL"
  /\ UNCHANGED <<connectState, connected, sslEnabled, initialised, fd,
                 fetch, fetching, uri, total, age, handshaking, redirected,
                 broken, worldVars, docVars>>

\* readAll reads a block.  A proxy answers before the server does.
ReadBlock ==
  /\ Round("READING_ALL") /\ ~broken /\ total < MaxBlocks
  /\ \E a \in open[fd] :
       /\ a = ProxyAnswer \/ ProxyAnswer \notin open[fd]
       /\ Append(a)
       /\ open' = [open EXCEPT ![fd] = open[fd] \ {ProxyAnswer}]
  /\ total' = total + 1
  /\ age' = 0
  /\ finished' \in IF uri.head THEN {FALSE, TRUE} ELSE {FALSE}
  /\ UNCHANGED <<connectState, connected, sslEnabled, initialised, fd,
                 fetch, fetching, uri, state, handshaking, redirected, broken,
                 worldVars>>

\* readAll finds that the server has closed the connection.
ReadClosed ==
  /\ Round("READING_ALL") /\ ~broken
  /\ Flush
  /\ state' = "FINISHED"
  /\ UNCHANGED <<clientVars, fetch, fetching, uri, finished, total, age,
                 handshaking, redirected, broken, worldVars>>

\* Mutant: every timeout starts another wait.
ReadWaitsAgain ==
  /\ Round("READING_ALL") /\ ~broken /\ TimedOut
  /\ age' = 0
  /\ UNCHANGED <<clientVars, fetch, fetching, uri, state, finished, total,
                 handshaking, redirected, broken, worldVars, docVars>>

\* readAll has nothing to read and has waited long enough; before that, and
\* after a read error, it leaves everything as it is.
ReadTimesOut ==
  /\ Round("READING_ALL") /\ ~broken /\ TimedOut
  /\ state' = "FINISHED"
  /\ UNCHANGED <<clientVars, fetch, fetching, uri, finished, total, age,
                 handshaking, redirected, broken, worldVars, docVars>>

Finish ==
  /\ Round("FINISHED")
  /\ finished' = TRUE
  /\ UNCHANGED <<clientVars, fetch, fetching, uri, state, total, age,
                 handshaking, redirected, broken, worldVars, docVars>>

Fail ==
  /\ Round("FAILED")
  /\ total' = 0 /\ finished' = TRUE
  /\ LoadError
  /\ UNCHANGED <<clientVars, fetch, fetching, uri, state, age, handshaking,
                 redirected, broken, worldVars>>

HandleNextState ==
  \/ WifiOff \/ ConnectWifi \/ ConnectSocket \/ ProxySslHandshake \/ GetUrl
  \/ ReadBlock \/ ReadClosed \/ ReadTimesOut \/ Finish \/ Fail

----------------------------------------------------------------------------
(* The world around the loop                                               *)

\* The wifi button of the toolbar.  Wifi9's state matters in CONNECT_WIFI
\* only: the round before switches it on.
DisconnectWifi ==
  /\ fetching /\ state = "CONNECT_WIFI"
  /\ wifiOn' = FALSE
  /\ UNCHANGED <<clientVars, httpVars, redirected, broken, proxy, assoc, docVars>>

AccessPoint ==
  /\ fetching /\ state = "CONNECT_WIFI"
  /\ assoc' \in AssocStates \ {assoc}
  /\ UNCHANGED <<clientVars, httpVars, redirected, broken, proxy, wifiOn, docVars>>

LoseConnection ==
  /\ fetching /\ connected /\ ~broken
  /\ broken' = TRUE
  /\ UNCHANGED <<clientVars, httpVars, redirected, worldVars, docVars>>

Clock ==
  /\ fetching /\ age <= Timeout
  /\ age' = age + 1
  /\ UNCHANGED <<clientVars, fetch, fetching, uri, state, finished, total,
                 handshaking, redirected, broken, worldVars, docVars>>

Next ==
  \/ \E u \in Uri : FetchFromNetwork(u) \/ FetchFromCache(u)
  \/ EndFetch \/ Stop
  \/ HandleNextState \/ HandshakeSucceeds \/ HandshakeFails
  \/ DisconnectWifi \/ AccessPoint \/ LoseConnection \/ Clock

Spec == Init /\ [][Next]_vars

\* The loop goes round once per vertical blank, time passes, and a handshake
\* on a dead connection gets an error.  Nothing else is assumed of the user,
\* the access point or the server: fetchHttp cannot make them act.
Fairness ==
  /\ WF_vars(HandleNextState) /\ WF_vars(EndFetch) /\ WF_vars(Clock)
  /\ WF_vars(broken /\ HandshakeFails)

FairSpec == Spec /\ Fairness

----------------------------------------------------------------------------
(* Properties                                                              *)

TypeInvariant ==
  /\ ClientTypeOK(Requests)
  /\ fetch \in 0..MaxFetches /\ fetching \in BOOLEAN
  /\ uri \in Uri /\ state \in HttpStates
  /\ finished \in BOOLEAN /\ handshaking \in BOOLEAN
  /\ total \in 0..(MaxBlocks + 1) /\ age \in 0..(Timeout + 1)
  /\ redirected \in 0..MaxRedirects
  /\ proxy \in BOOLEAN /\ wifiOn \in BOOLEAN /\ assoc \in AssocStates
  /\ broken \in BOOLEAN
  /\ status \in {"NOTHING", "INPROGRESS", "LOADED_HTML", "REDIRECTED"}
  /\ buffered \subseteq Requests
  /\ parsed \subseteq Requests \cup {ErrorText}

\* By the time HttpClient reads the answer to its request, the connection is
\* encrypted if and only if the URI is https: no request for such a page goes
\* out in the clear, and no encryption of an earlier fetch is left on.
RequestNeverInClear ==
  fetching /\ state = "READING_ALL" => (sslEnabled <=> uri.secure)

Talking == {"PROXY_SSL_HANDSHAKE", "GET_URL", "READING_ALL"}

\* HttpClient's idea of where it is agrees with nds::Client's: when it writes
\* or reads, the client is connected and its socket is open.
TalkingOnOpenSocket ==
  fetching /\ state \in Talking => connected /\ fd \in DOMAIN open

\* A page is made of what its own fetch received: no byte that an earlier
\* fetch was still owed, or left in the parser, gets into it.
OnePageOneFetch ==
  (buffered \cup parsed) \ {ProxyAnswer, ErrorText} \subseteq {fetch}

\* A fetch that fails leaves the error page, and the error page alone,
\* whatever it had received.  (A HEAD request through a proxy can fail after
\* the proxy's answer has ended the fetch: there is nothing to show then.)
FailureIsShown ==
  /\ state = "FAILED" /\ finished /\ ~uri.head => ErrorText \in parsed
  /\ ErrorText \in parsed => parsed \cup buffered = {ErrorText}

\* The places where fetchHttp can wait for ever: it has no timeout for the
\* access point, for the server's part of the TLS handshake, or for a
\* connection on which every read is an error.
Hung ==
  \/ state = "CONNECT_WIFI"
  \/ handshaking /\ ~broken
  \/ state = "READING_ALL" /\ broken

\* Every fetch ends, by itself or because the user stops it, unless it waits
\* for ever in one of those places.
HangsOnlyWaiting == []<>~fetching \/ <>[]Hung

----------------------------------------------------------------------------
(* What comments and documents say, and the code does not do               *)

\* Client.h says of CLIENT_CONNECT_READY_TO_CONNECT: "initialised, now can
\* call ::connect()".
ReadyMeansInitialised ==
  connectState = "CLIENT_CONNECT_READY_TO_CONNECT" => initialised

\* HttpClient::readAll says that a timeout will "Finish and render what we
\* have".
RendersWhatItHas ==
  ~fetching /\ status = "LOADED_HTML" => fetch \notin buffered

\* The configuration file calls timeout "The number of seconds to wait before
\* we consider a connection lost".
LostConnectionNoticed ==
  (fetching /\ state = "READING_ALL" /\ broken) ~> ~fetching
=============================================================================
