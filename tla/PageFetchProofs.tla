--------------------------- MODULE PageFetchProofs ---------------------------
(***************************************************************************)
(* What PageFetch says of one page after another holds for any number of   *)
(* sockets, fetches, redirects and blocks, and for any timeout.  IInv      *)
(* relates three layers that the code keeps apart: the fields of           *)
(* nds::Client, the state of HttpClient, and what the document has been    *)
(* given.                                                                  *)
(***************************************************************************)
EXTENDS PageFetch, TLAPS

\* nds::Client on its own.
ClientInv ==
  /\ ClientTypeOK(Requests)
  /\ connectState = "CLIENT_CONNECT_DONE" <=> connected
  /\ connected => fd \in DOMAIN open
  /\ sslEnabled => connected

\* Before the client is connected, in this fetch, nothing has happened.
Early == {"WIFI_OFF", "CONNECT_WIFI", "CONNECT_SOCKET"}

\* HttpClient's state, and the client's.
StateInv ==
  /\ fetching /\ state \in Early => ~connected
  /\ TalkingOnOpenSocket
  /\ fetching /\ state = "PROXY_SSL_HANDSHAKE" => ~sslEnabled
  /\ fetching /\ state \in {"GET_URL", "READING_ALL"} =>
       (sslEnabled <=> uri.secure)
  /\ handshaking =>
       fetching /\ state = "PROXY_SSL_HANDSHAKE" /\ uri.secure
  /\ fetching /\ state \in Early => total = 0
  /\ fetching /\ state = "PROXY_SSL_HANDSHAKE" /\ ~handshaking => total = 0

\* What may still come in, and what has come in, belong to this fetch.
OwnAnswers ==
  /\ fetching /\ connected => open[fd] \subseteq {fetch, ProxyAnswer}
  /\ buffered \subseteq {fetch, ProxyAnswer}
  /\ parsed \subseteq {fetch, ProxyAnswer, ErrorText}

\* The error page is the last thing that happens in a fetch.
ErrorInv ==
  /\ finished /\ ~uri.head => state \in {"FINISHED", "FAILED"}
  /\ state = "FAILED" /\ finished /\ ~uri.head => ErrorText \in parsed
  /\ ErrorText \in parsed =>
       /\ state = "FAILED" /\ finished
       /\ parsed = {ErrorText} /\ buffered = {}

HttpTypeOK ==
  /\ fetch \in 0..MaxFetches
  /\ uri \in Uri /\ state \in HttpStates
  /\ total \in 0..(MaxBlocks + 1) /\ age \in 0..(Timeout + 1)
  /\ assoc \in AssocStates

FlagsOK ==
  /\ fetching \in BOOLEAN /\ finished \in BOOLEAN /\ handshaking \in BOOLEAN
  /\ proxy \in BOOLEAN /\ wifiOn \in BOOLEAN /\ broken \in BOOLEAN

DocTypeOK ==
  /\ redirected \in 0..MaxRedirects
  /\ status \in {"NOTHING", "INPROGRESS", "LOADED_HTML", "REDIRECTED"}
  /\ buffered \subseteq Requests
  /\ parsed \subseteq Requests \cup {ErrorText}

IInv == /\ ClientInv /\ HttpTypeOK /\ FlagsOK /\ DocTypeOK
        /\ StateInv /\ OwnAnswers /\ ErrorInv

USE SocketsAssumption, BoundsAssumption

----------------------------------------------------------------------------
(* nds::Client                                                             *)

LEMMA DisconnectKeeps ==
  ASSUME ClientInv, Disconnect
  PROVE  ClientInv' /\ ~connected' /\ ~sslEnabled'
<1>1. /\ DOMAIN open' \subseteq DOMAIN open
      /\ \A s \in DOMAIN open' : open'[s] = open[s]
  BY DEF Disconnect, SocketsAfterDeinit, Restrict
<1> QED BY <1>1 DEF ClientInv, ClientTypeOK, Disconnect, ConnectStates

LEMMA ConnectInitialKeeps ==
  ASSUME ClientInv, ConnectInitial
  PROVE  ClientInv' /\ ~connected' /\ ~sslEnabled'
<1>1. /\ DOMAIN open' \subseteq DOMAIN open
      /\ \A s \in DOMAIN open' : open'[s] = open[s]
  BY DEF ConnectInitial, SocketsAfterDeinit, Restrict
<1> QED BY <1>1 DEF ClientInv, ClientTypeOK, ConnectInitial, ConnectStates

LEMMA OpenSocketKeeps ==
  ASSUME ClientTypeOK(Requests), OpenSocket
  PROVE  /\ fd' \in DOMAIN open' /\ open'[fd'] = {}
         /\ DOMAIN open' \subseteq Sockets
         /\ \A s \in DOMAIN open' : open'[s] \subseteq Requests
BY DEF ClientTypeOK, OpenSocket

LEMMA ConnectSucceedsKeeps ==
  ASSUME ClientInv, ConnectSucceeds
  PROVE  ClientInv' /\ connected' /\ open'[fd'] = {} /\ sslEnabled' = sslEnabled
BY OpenSocketKeeps DEF ClientInv, ClientTypeOK, ConnectSucceeds, ConnectStates

LEMMA ConnectFailsKeeps ==
  ASSUME ClientInv, ConnectFails
  PROVE  ClientInv' /\ ~connected' /\ ~sslEnabled'
BY OpenSocketKeeps DEF ClientInv, ClientTypeOK, ConnectFails, ConnectStates

\* A request that is written can be answered on its own connection alone.
LEMMA WriteKeeps ==
  ASSUME ClientInv, NEW r \in Requests, Write(r),
         UNCHANGED <<connectState, connected, sslEnabled, initialised, fd>>
  PROVE  ClientInv' /\ (connected => open'[fd] = open[fd] \cup {r})
BY DEF ClientInv, ClientTypeOK, Write

LEMMA ClientUnchanged ==
  ASSUME ClientInv, UNCHANGED clientVars
  PROVE  ClientInv' /\ connected' = connected /\ sslEnabled' = sslEnabled
         /\ open' = open /\ fd' = fd
BY DEF ClientInv, ClientTypeOK, clientVars

----------------------------------------------------------------------------
LEMMA InitIInv == Init => IInv
<1> SUFFICES ASSUME Init PROVE IInv
  OBVIOUS
<1>1. ClientInv
  BY DEF Init, ClientInit, ClientInv, ClientTypeOK, ConnectStates
<1>2. HttpTypeOK
  <2>1. uri \in Uri
    BY DEF Init, Uri
  <2> QED BY <2>1 DEF Init, HttpTypeOK, HttpStates, AssocStates
<1>4. DocTypeOK
  BY DEF Init, DocTypeOK
<1>5. FlagsOK
  BY DEF Init, FlagsOK
<1>3. StateInv /\ OwnAnswers /\ ErrorInv
  BY DEF Init, ClientInit, StateInv, OwnAnswers, ErrorInv, Early,
         TalkingOnOpenSocket
<1> QED BY <1>1, <1>2, <1>3, <1>4, <1>5 DEF IInv
----------------------------------------------------------------------------
\* A round in which neither the client nor the document changes.
LEMMA QuietStep ==
  ASSUME IInv, UNCHANGED <<clientVars, docVars>>, redirected' = redirected,
         fetch' = fetch, uri' = uri, fetching' => fetching,
         HttpTypeOK', FlagsOK', StateInv', ErrorInv'
  PROVE  IInv'
<1>1. ClientInv' /\ connected' = connected /\ open' = open /\ fd' = fd
  BY ClientUnchanged DEF IInv
<1>2. DocTypeOK'
  BY DEF IInv, DocTypeOK, docVars
<1>3. OwnAnswers'
  BY <1>1 DEF IInv, OwnAnswers, docVars
<1> QED BY <1>1, <1>2, <1>3 DEF IInv

LEMMA StepIInv == IInv /\ [Next]_vars => IInv'
<1> SUFFICES ASSUME IInv, [Next]_vars PROVE IInv'
  OBVIOUS
<1> USE DEF IInv
<1>1. CASE WifiOff
  <2>1. /\ UNCHANGED <<clientVars, docVars>> /\ redirected' = redirected
        /\ fetch' = fetch /\ uri' = uri /\ (fetching' => fetching)
    BY <1>1 DEF WifiOff, Round
  <2>2. HttpTypeOK'
    BY <1>1 DEF HttpTypeOK, HttpStates, AssocStates, WifiOff, Round
  <2>3. FlagsOK'
    BY <1>1 DEF FlagsOK, WifiOff, Round
  <2>4. StateInv' /\ ErrorInv'
    BY <1>1, <2>1 DEF StateInv, ErrorInv, Early, Talking, TalkingOnOpenSocket,
       clientVars, docVars, WifiOff, Round
  <2> QED BY <2>1, <2>2, <2>3, <2>4, QuietStep
<1>2. CASE ConnectWifi
  <2>1. /\ UNCHANGED <<clientVars, docVars>> /\ redirected' = redirected
        /\ fetch' = fetch /\ uri' = uri /\ (fetching' => fetching)
    BY <1>2 DEF ConnectWifi, Round
  <2>2. HttpTypeOK'
    BY <1>2 DEF HttpTypeOK, HttpStates, AssocStates, ConnectWifi, Round,
       WifiStatus, worldVars
  <2>3. FlagsOK'
    BY <1>2 DEF FlagsOK, ConnectWifi, Round, WifiStatus, worldVars
  <2>4. StateInv' /\ ErrorInv'
    BY <1>2, <2>1 DEF StateInv, ErrorInv, Early, Talking, TalkingOnOpenSocket,
       clientVars, docVars, ConnectWifi, Round, WifiStatus, worldVars
  <2> QED BY <2>1, <2>2, <2>3, <2>4, QuietStep
<1>3. CASE ReadTimesOut
  <2>1. /\ UNCHANGED <<clientVars, docVars>> /\ redirected' = redirected
        /\ fetch' = fetch /\ uri' = uri /\ (fetching' => fetching)
    BY <1>3 DEF ReadTimesOut, Round
  <2>2. HttpTypeOK'
    BY <1>3 DEF HttpTypeOK, HttpStates, AssocStates, ReadTimesOut, Round,
       worldVars
  <2>3. FlagsOK'
    BY <1>3 DEF FlagsOK, ReadTimesOut, Round, worldVars
  <2>4. StateInv' /\ ErrorInv'
    BY <1>3, <2>1 DEF StateInv, ErrorInv, Early, Talking, TalkingOnOpenSocket,
       clientVars, docVars, ReadTimesOut, Round, worldVars
  <2> QED BY <2>1, <2>2, <2>3, <2>4, QuietStep
<1>4. CASE Finish
  <2>1. /\ UNCHANGED <<clientVars, docVars>> /\ redirected' = redirected
        /\ fetch' = fetch /\ uri' = uri /\ (fetching' => fetching)
    BY <1>4 DEF Finish, Round
  <2>2. HttpTypeOK'
    BY <1>4 DEF HttpTypeOK, HttpStates, AssocStates, Finish, Round, worldVars
  <2>3. FlagsOK'
    BY <1>4 DEF FlagsOK, Finish, Round, worldVars
  <2>4. StateInv' /\ ErrorInv'
    BY <1>4, <2>1 DEF StateInv, ErrorInv, Early, Talking, TalkingOnOpenSocket,
       clientVars, docVars, Finish, Round, worldVars
  <2> QED BY <2>1, <2>2, <2>3, <2>4, QuietStep
<1>5. CASE HandshakeFails
  <2>1. /\ UNCHANGED <<clientVars, docVars>> /\ redirected' = redirected
        /\ fetch' = fetch /\ uri' = uri /\ (fetching' => fetching)
    BY <1>5 DEF HandshakeFails
  <2>2. HttpTypeOK'
    BY <1>5 DEF HttpTypeOK, HttpStates, AssocStates, HandshakeFails, worldVars
  <2>3. FlagsOK'
    BY <1>5 DEF FlagsOK, HandshakeFails, worldVars
  <2>4. StateInv' /\ ErrorInv'
    BY <1>5, <2>1 DEF StateInv, ErrorInv, Early, Talking, TalkingOnOpenSocket,
       clientVars, docVars, HandshakeFails, worldVars
  <2> QED BY <2>1, <2>2, <2>3, <2>4, QuietStep
<1>6. CASE Stop
  <2>1. /\ UNCHANGED <<clientVars, docVars>> /\ redirected' = redirected
        /\ fetch' = fetch /\ uri' = uri /\ (fetching' => fetching)
    BY <1>6 DEF Stop
  <2>2. HttpTypeOK'
    BY <1>6 DEF HttpTypeOK, HttpStates, AssocStates, Stop, worldVars
  <2>3. FlagsOK'
    BY <1>6 DEF FlagsOK, Stop, worldVars
  <2>4. StateInv' /\ ErrorInv'
    BY <1>6, <2>1 DEF StateInv, ErrorInv, Early, Talking, TalkingOnOpenSocket,
       clientVars, docVars, Stop, worldVars
  <2> QED BY <2>1, <2>2, <2>3, <2>4, QuietStep
<1>7. CASE DisconnectWifi
  <2>1. /\ UNCHANGED <<clientVars, docVars>> /\ redirected' = redirected
        /\ fetch' = fetch /\ uri' = uri /\ (fetching' => fetching)
    BY <1>7 DEF DisconnectWifi, httpVars
  <2>2. HttpTypeOK'
    BY <1>7 DEF HttpTypeOK, HttpStates, AssocStates, DisconnectWifi, httpVars
  <2>3. FlagsOK'
    BY <1>7 DEF FlagsOK, DisconnectWifi, httpVars
  <2>4. StateInv' /\ ErrorInv'
    BY <1>7, <2>1 DEF StateInv, ErrorInv, Early, Talking, TalkingOnOpenSocket,
       clientVars, docVars, DisconnectWifi, httpVars
  <2> QED BY <2>1, <2>2, <2>3, <2>4, QuietStep
<1>8. CASE AccessPoint
  <2>1. /\ UNCHANGED <<clientVars, docVars>> /\ redirected' = redirected
        /\ fetch' = fetch /\ uri' = uri /\ (fetching' => fetching)
    BY <1>8 DEF AccessPoint, httpVars
  <2>2. HttpTypeOK'
    BY <1>8 DEF HttpTypeOK, HttpStates, AssocStates, AccessPoint, httpVars
  <2>3. FlagsOK'
    BY <1>8 DEF FlagsOK, AccessPoint, httpVars
  <2>4. StateInv' /\ ErrorInv'
    BY <1>8, <2>1 DEF StateInv, ErrorInv, Early, Talking, TalkingOnOpenSocket,
       clientVars, docVars, AccessPoint, httpVars
  <2> QED BY <2>1, <2>2, <2>3, <2>4, QuietStep
<1>9. CASE LoseConnection
  <2>1. /\ UNCHANGED <<clientVars, docVars>> /\ redirected' = redirected
        /\ fetch' = fetch /\ uri' = uri /\ (fetching' => fetching)
    BY <1>9 DEF LoseConnection, httpVars
  <2>2. HttpTypeOK'
    BY <1>9 DEF HttpTypeOK, HttpStates, AssocStates, LoseConnection, httpVars,
       worldVars
  <2>3. FlagsOK'
    BY <1>9 DEF FlagsOK, LoseConnection, httpVars, worldVars
  <2>4. StateInv' /\ ErrorInv'
    BY <1>9, <2>1 DEF StateInv, ErrorInv, Early, Talking, TalkingOnOpenSocket,
       clientVars, docVars, LoseConnection, httpVars, worldVars
  <2> QED BY <2>1, <2>2, <2>3, <2>4, QuietStep
<1>10. CASE Clock
  <2>1. /\ UNCHANGED <<clientVars, docVars>> /\ redirected' = redirected
        /\ fetch' = fetch /\ uri' = uri /\ (fetching' => fetching)
    BY <1>10 DEF Clock
  <2>2. HttpTypeOK'
    BY <1>10 DEF HttpTypeOK, HttpStates, AssocStates, Clock, worldVars
  <2>3. FlagsOK'
    BY <1>10 DEF FlagsOK, Clock, worldVars
  <2>4. StateInv' /\ ErrorInv'
    BY <1>10, <2>1 DEF StateInv, ErrorInv, Early, Talking, TalkingOnOpenSocket,
       clientVars, docVars, Clock, worldVars
  <2> QED BY <2>1, <2>2, <2>3, <2>4, QuietStep
<1>11. CASE UNCHANGED vars
  <2>1. /\ UNCHANGED <<clientVars, docVars>> /\ redirected' = redirected
        /\ fetch' = fetch /\ uri' = uri /\ (fetching' => fetching)
    BY <1>11 DEF vars, httpVars
  <2>2. HttpTypeOK'
    BY <1>11 DEF HttpTypeOK, vars, httpVars, worldVars
  <2>3. FlagsOK'
    BY <1>11 DEF FlagsOK, vars, httpVars, worldVars
  <2>4. StateInv' /\ ErrorInv'
    BY <1>11 DEF StateInv, ErrorInv, TalkingOnOpenSocket, vars, httpVars,
       clientVars, docVars
  <2> QED BY <2>1, <2>2, <2>3, <2>4, QuietStep
<1>12. ASSUME NEW u \in Uri, FetchFromNetwork(u) PROVE IInv'
  <2>1. ClientInv' /\ ~connected' /\ ~sslEnabled'
    BY <1>12, DisconnectKeeps DEF FetchFromNetwork, ResetClient
  <2>2. HttpTypeOK'
    BY <1>12 DEF HttpTypeOK, HttpStates, AssocStates, FetchFromNetwork,
       ResetClient, worldVars
  <2>3. FlagsOK'
    BY <1>12 DEF FlagsOK, FetchFromNetwork, ResetClient, worldVars
  <2>4. DocTypeOK' /\ OwnAnswers'
    BY <1>12, <2>1 DEF DocTypeOK, OwnAnswers, FetchFromNetwork, ResetClient
  <2>5. StateInv' /\ ErrorInv'
    BY <1>12, <2>1 DEF StateInv, ErrorInv, Talking, TalkingOnOpenSocket,
       FetchFromNetwork, ResetClient
  <2> QED BY <2>1, <2>2, <2>3, <2>4, <2>5
<1>13. ASSUME NEW u \in Uri, FetchFromCache(u) PROVE IInv'
  <2>1. ClientInv' /\ ~connected' /\ ~sslEnabled'
    BY <1>13, DisconnectKeeps DEF FetchFromCache, ResetClient
  <2>2. HttpTypeOK'
    BY <1>13 DEF HttpTypeOK, HttpStates, AssocStates, FetchFromCache,
       ResetClient, worldVars
  <2>3. FlagsOK'
    BY <1>13 DEF FlagsOK, FetchFromCache, ResetClient, worldVars
  <2>4. buffered' = {} /\ parsed' \subseteq {fetch'}
    BY <1>13 DEF FetchFromCache, FinishFetch
  <2>5. DocTypeOK'
    <3>1. fetch' \in Requests
      BY <1>13 DEF HttpTypeOK, FetchFromCache, ResetClient, Requests, Fetches
    <3> QED BY <1>13, <2>4, <3>1 DEF DocTypeOK, FetchFromCache, FinishFetch
  <2>6. OwnAnswers' /\ ErrorText \notin parsed'
    BY <1>13, <2>1, <2>2, <2>4 DEF OwnAnswers, HttpTypeOK, ErrorText
  <2>7. StateInv' /\ ErrorInv'
    BY <1>13, <2>1, <2>6 DEF StateInv, ErrorInv, Talking, TalkingOnOpenSocket,
       FetchFromCache, ResetClient
  <2> QED BY <2>1, <2>2, <2>3, <2>5, <2>6, <2>7
<1>14. CASE EndFetch
  <2>1. ClientInv' /\ ~connected' /\ ~sslEnabled'
    BY <1>14, DisconnectKeeps DEF EndFetch
  <2>2. HttpTypeOK'
    BY <1>14 DEF HttpTypeOK, EndFetch, worldVars
  <2>3. FlagsOK'
    BY <1>14 DEF FlagsOK, EndFetch, worldVars
  <2>4. DocTypeOK'
    BY <1>14 DEF DocTypeOK, EndFetch, FinishFetch, docVars
  <2>5. StateInv'
    BY <1>14, <2>1 DEF StateInv, TalkingOnOpenSocket, EndFetch
  <2>6. OwnAnswers' /\ ErrorInv'
    BY <1>14, <2>1 DEF OwnAnswers, ErrorInv, EndFetch, FinishFetch, HasPage,
       docVars
  <2> QED BY <2>1, <2>2, <2>3, <2>4, <2>5, <2>6
<1>15. CASE ConnectSocket
  <2>1. /\ ClientInv' /\ ~sslEnabled'
        /\ \/ connected' /\ open'[fd'] = {} /\ state' = "PROXY_SSL_HANDSHAKE"
           \/ ~connected' /\ state' \in {"CONNECT_SOCKET", "FAILED"}
    <3>1. ~connected /\ ~sslEnabled /\ connectState # "CLIENT_CONNECT_DONE"
      BY <1>15 DEF ConnectSocket, Round, StateInv, Early, ClientInv
    <3>2. CASE ConnectsNow /\ state' = "PROXY_SSL_HANDSHAKE"
      BY <3>1, <3>2, ConnectSucceedsKeeps DEF ConnectsNow
    <3>3. CASE NotYetConnected /\ state' \in {"CONNECT_SOCKET", "FAILED"}
      BY <3>1, <3>3, ConnectInitialKeeps, ConnectFailsKeeps DEF NotYetConnected
    <3> QED BY <1>15, <3>2, <3>3 DEF ConnectSocket, Round
  <2>2. HttpTypeOK'
    BY <1>15 DEF HttpTypeOK, HttpStates, ConnectSocket, Round, worldVars
  <2>3. FlagsOK'
    BY <1>15 DEF FlagsOK, ConnectSocket, worldVars
  <2>4. DocTypeOK' /\ OwnAnswers'
    BY <1>15, <2>1 DEF DocTypeOK, OwnAnswers, ConnectSocket, Round, docVars
  <2>5. StateInv' /\ ErrorInv'
    BY <1>15, <2>1 DEF StateInv, ErrorInv, Early, Talking, TalkingOnOpenSocket,
       ClientInv, ConnectSocket, Round, docVars
  <2> QED BY <2>1, <2>2, <2>3, <2>4, <2>5
<1>16. CASE ProxySslHandshake
  <2>1. /\ fetching /\ ~finished /\ ~handshaking /\ connected /\ ~sslEnabled
        /\ total = 0 /\ ErrorText \notin parsed
        /\ UNCHANGED <<fetch, fetching, uri, redirected>>
    BY <1>16 DEF ProxySslHandshake, Round, StateInv, ErrorInv, Talking,
       TalkingOnOpenSocket
  <2>2. ClientInv' /\ connected' /\ ~sslEnabled'
        /\ open'[fd'] \subseteq {fetch, ProxyAnswer}
    <3>1. CASE UNCHANGED clientVars
      BY <2>1, <3>1, ClientUnchanged DEF OwnAnswers
    <3>2. CASE ProxyIsSlow
      <4>1. CASE Write(ProxyAnswer)
        BY <2>1, <3>2, <4>1, WriteKeeps DEF ProxyIsSlow, OwnAnswers, Requests
      <4>2. CASE UNCHANGED open
        BY <3>1, <3>2, <4>2 DEF ProxyIsSlow, clientVars
      <4> QED BY <3>2, <4>1, <4>2 DEF ProxyIsSlow
    <3> QED BY <1>16, <3>1, <3>2 DEF ProxySslHandshake, ProxyAnswers, NoProxy
  <2>3. /\ total' \in {0, 1} /\ (finished' => uri.head) /\ finished' \in BOOLEAN
        /\ parsed' = parsed /\ buffered' \subseteq buffered \cup {ProxyAnswer}
        /\ status' \in {status, "INPROGRESS"}
    <3>1. CASE ProxyAnswers
      <4>1. uri.head \in BOOLEAN
        BY DEF HttpTypeOK, Uri
      <4>2. (finished' => uri.head) /\ finished' \in BOOLEAN
        BY <2>1, <3>1, <4>1, Zenon DEF ProxyAnswers
      <4>3. /\ total' = 1 /\ parsed' = parsed /\ status' = "INPROGRESS"
            /\ buffered' = buffered \cup {ProxyAnswer}
        BY <2>1, <3>1 DEF ProxyAnswers, Append
      <4> QED BY <4>2, <4>3
    <3>2. CASE ProxyIsSlow \/ NoProxy
      <4>1. finished \in BOOLEAN
        BY DEF FlagsOK
      <4>2. UNCHANGED <<total, finished, docVars>>
        BY <3>2 DEF ProxyIsSlow, NoProxy
      <4> QED BY <2>1, <4>1, <4>2 DEF docVars
    <3> QED BY <1>16, <3>1, <3>2 DEF ProxySslHandshake
  <2>4. HttpTypeOK'
    BY <1>16, <2>1, <2>3 DEF HttpTypeOK, HttpStates, ProxySslHandshake, Round,
       worldVars
  <2>5. FlagsOK'
    BY <1>16, <2>3 DEF FlagsOK, ProxySslHandshake, worldVars
  <2>6. DocTypeOK' /\ OwnAnswers'
    BY <2>1, <2>2, <2>3 DEF DocTypeOK, OwnAnswers, Requests
  <2>7. StateInv' /\ ErrorInv'
    BY <1>16, <2>1, <2>2, <2>3 DEF StateInv, ErrorInv, Early, Talking,
       TalkingOnOpenSocket, ClientInv, ProxySslHandshake, Round
  <2> QED BY <2>2, <2>4, <2>5, <2>6, <2>7
<1>17. CASE HandshakeSucceeds
  <2>1. /\ ClientInv' /\ connected' = connected /\ sslEnabled'
        /\ open' = open /\ fd' = fd /\ connected
    BY <1>17 DEF HandshakeSucceeds, SslEnable, ClientInv, ClientTypeOK,
       StateInv, Talking, TalkingOnOpenSocket
  <2>2. HttpTypeOK'
    BY <1>17 DEF HttpTypeOK, HttpStates, HandshakeSucceeds, worldVars
  <2>3. FlagsOK'
    BY <1>17 DEF FlagsOK, HandshakeSucceeds, worldVars
  <2>4. DocTypeOK' /\ OwnAnswers'
    BY <1>17, <2>1 DEF DocTypeOK, OwnAnswers, HandshakeSucceeds, docVars
  <2>5. StateInv' /\ ErrorInv'
    BY <1>17, <2>1 DEF StateInv, ErrorInv, Early, Talking, TalkingOnOpenSocket,
       HandshakeSucceeds, docVars
  <2> QED BY <2>1, <2>2, <2>3, <2>4, <2>5
<1>18. CASE GetUrl
  <2>1. /\ fetching /\ ~finished /\ ~handshaking /\ connected
        /\ state = "GET_URL" /\ fetch \in Requests
    BY <1>18 DEF GetUrl, Round, StateInv, Talking, TalkingOnOpenSocket,
       HttpTypeOK, Requests, Fetches, ProxyAnswer
  <2>2. /\ ClientInv' /\ connected' /\ sslEnabled' = sslEnabled
        /\ open'[fd'] \subseteq {fetch, ProxyAnswer}
    <3>1. CASE UNCHANGED open
      BY <1>18, <2>1, <3>1, ClientUnchanged DEF GetUrl, clientVars, OwnAnswers
    <3>2. CASE Write(fetch)
      BY <1>18, <2>1, <3>2, WriteKeeps DEF GetUrl, OwnAnswers
    <3> QED BY <1>18, <3>1, <3>2 DEF GetUrl
  <2>3. HttpTypeOK'
    BY <1>18 DEF HttpTypeOK, HttpStates, GetUrl, worldVars
  <2>4. FlagsOK'
    BY <1>18 DEF FlagsOK, GetUrl, worldVars
  <2>5. DocTypeOK' /\ OwnAnswers'
    BY <1>18, <2>2 DEF DocTypeOK, OwnAnswers, GetUrl, docVars
  <2>6. StateInv' /\ ErrorInv'
    BY <1>18, <2>1, <2>2 DEF StateInv, ErrorInv, Early, Talking,
       TalkingOnOpenSocket, ClientInv, GetUrl, docVars
  <2> QED BY <2>2, <2>3, <2>4, <2>5, <2>6
<1>19. CASE ReadBlock
  <2>1. /\ fetching /\ ~finished /\ ~handshaking /\ connected
        /\ state = "READING_ALL" /\ ErrorText \notin parsed
    BY <1>19 DEF ReadBlock, Round, StateInv, ErrorInv, Talking,
       TalkingOnOpenSocket
  <2>2. PICK a \in open[fd] :
          /\ Append(a)
          /\ open' = [open EXCEPT ![fd] = open[fd] \ {ProxyAnswer}]
    BY <1>19 DEF ReadBlock
  <2>3. ClientInv'
    BY <1>19, <2>2 DEF ClientInv, ClientTypeOK, ReadBlock
  <2>4. connected' /\ open'[fd'] \subseteq {fetch', ProxyAnswer}
    BY <1>19, <2>1, <2>2 DEF ReadBlock, ClientInv, OwnAnswers
  <2>5. /\ parsed' = parsed /\ status' = "INPROGRESS"
        /\ buffered' = buffered \cup {a} /\ a \in {fetch, ProxyAnswer}
        /\ a \in Requests
    BY <2>1, <2>2 DEF Append, OwnAnswers, ClientInv, ClientTypeOK
  <2>6. HttpTypeOK'
    BY <1>19 DEF HttpTypeOK, ReadBlock, worldVars
  <2>7. FlagsOK' /\ (finished' => uri.head)
    <3>1. uri.head => finished' \in BOOLEAN
      BY <1>19 DEF ReadBlock
    <3>2. ~uri.head => ~finished'
      BY <1>19 DEF ReadBlock
    <3> QED BY <1>19, <3>1, <3>2 DEF FlagsOK, ReadBlock, worldVars
  <2>8. DocTypeOK' /\ OwnAnswers'
    BY <1>19, <2>4, <2>5 DEF DocTypeOK, OwnAnswers, ReadBlock
  <2>9. StateInv' /\ ErrorInv'
    BY <1>19, <2>1, <2>3, <2>4, <2>5, <2>7 DEF StateInv, ErrorInv, Early,
       Talking, TalkingOnOpenSocket, ClientInv, ReadBlock
  <2> QED BY <2>3, <2>6, <2>7, <2>8, <2>9
<1>20. CASE ReadClosed
  <2>1. /\ ClientInv' /\ connected' = connected /\ open' = open /\ fd' = fd
        /\ ErrorText \notin parsed \cup buffered
    BY <1>20, ClientUnchanged DEF ReadClosed, Round, ErrorInv, DocTypeOK,
       Requests, Fetches, ErrorText, ProxyAnswer
  <2>2. parsed' = parsed \cup buffered /\ buffered' = {}
    BY <1>20 DEF ReadClosed, Flush
  <2>3. HttpTypeOK'
    BY <1>20 DEF HttpTypeOK, HttpStates, ReadClosed, worldVars
  <2>4. FlagsOK'
    BY <1>20 DEF FlagsOK, ReadClosed, worldVars
  <2>5. DocTypeOK' /\ OwnAnswers'
    BY <1>20, <2>1, <2>2 DEF DocTypeOK, OwnAnswers, ReadClosed, Flush
  <2>6. StateInv' /\ ErrorInv'
    BY <1>20, <2>1, <2>2 DEF StateInv, ErrorInv, Early, Talking,
       TalkingOnOpenSocket, ReadClosed, Round
  <2> QED BY <2>1, <2>3, <2>4, <2>5, <2>6
<1>21. CASE Fail
  <2>1. ClientInv' /\ connected' = connected /\ open' = open /\ fd' = fd
    BY <1>21, ClientUnchanged DEF Fail
  <2>2. HttpTypeOK'
    BY <1>21 DEF HttpTypeOK, Fail, worldVars
  <2>3. FlagsOK'
    BY <1>21 DEF FlagsOK, Fail, worldVars
  <2>4. DocTypeOK' /\ OwnAnswers'
    BY <1>21, <2>1 DEF DocTypeOK, OwnAnswers, Fail, LoadError
  <2>5. StateInv' /\ ErrorInv'
    BY <1>21, <2>1 DEF StateInv, ErrorInv, Early, Talking, TalkingOnOpenSocket,
       Fail, LoadError, Round
  <2> QED BY <2>1, <2>2, <2>3, <2>4, <2>5
<1> QED
  BY <1>1, <1>2, <1>3, <1>4, <1>5, <1>6, <1>7, <1>8, <1>9, <1>10, <1>11, <1>12,
     <1>13, <1>14, <1>15, <1>16, <1>17, <1>18, <1>19, <1>20, <1>21
     DEF Next, HandleNextState

----------------------------------------------------------------------------
LEMMA Invariant == Spec => []IInv
BY InitIInv, StepIInv, PTL DEF Spec

\* The fields of the client, of HttpClient and of the document stay within
\* their types: in particular no redirect is followed beyond m_maxRedirects,
\* and the proxy's answer adds no more than one block to m_total.
THEOREM TypeCorrect == Spec => []TypeInvariant
<1>1. IInv => TypeInvariant
  BY DEF IInv, ClientInv, HttpTypeOK, FlagsOK, DocTypeOK, TypeInvariant
<1> QED BY <1>1, Invariant, PTL

\* Whatever the order of timeouts, stops, lost connections and new fetches,
\* HttpClient reads the answer to an https request over TLS, and the answer
\* to any other in the clear.
THEOREM SecureRequestsEncrypted == Spec => []RequestNeverInClear
<1>1. IInv => RequestNeverInClear
  BY DEF IInv, StateInv, RequestNeverInClear
<1> QED BY <1>1, Invariant, PTL

\* HttpClient never talks on a client that is not connected, or on a socket
\* that is closed.
THEOREM NeverTalksOnClosedSocket == Spec => []TalkingOnOpenSocket
<1>1. IInv => TalkingOnOpenSocket
  BY DEF IInv, StateInv
<1> QED BY <1>1, Invariant, PTL

\* No answer of one fetch gets into the page of another.
THEOREM PagesNeverMix == Spec => []OnePageOneFetch
<1>1. IInv => OnePageOneFetch
  BY DEF IInv, OwnAnswers, OnePageOneFetch
<1> QED BY <1>1, Invariant, PTL

\* A failed fetch leaves the error page and nothing besides.
THEOREM FailuresShown == Spec => []FailureIsShown
<1>1. IInv => FailureIsShown
  BY DEF IInv, ErrorInv, FailureIsShown
<1> QED BY <1>1, Invariant, PTL
=============================================================================
