------------------------------ MODULE NdsClient ------------------------------
(***************************************************************************)
(* nds::Client (ndspp/source/common/Client.cpp), the TCP and TLS client    *)
(* that HttpClient inherits from, and as much of the sockets under it as   *)
(* it uses.  Every operation is one call of the client: it says what the   *)
(* call does to the client's own fields and to the sockets, and leaves the *)
(* rest of a step to the caller.                                           *)
(***************************************************************************)
EXTENDS Integers, FiniteSets, Functions

CONSTANTS Sockets,     \* the sockets of the network stack, which has few
          NoSocket     \* the value of server_fd.fd when it holds none

ASSUME SocketsAssumption == NoSocket \notin Sockets

VARIABLES connectState,  \* m_connectState
          connected,     \* m_connected
          sslEnabled,    \* m_sslEnabled
          initialised,   \* m_mbedtlsInitialized
          fd,            \* server_fd.fd
          open           \* the open sockets, each with the set of requests
                         \* written to it whose answers it may deliver

clientVars == <<connectState, connected, sslEnabled, initialised, fd, open>>

ConnectStates ==
  {"CLIENT_CONNECT_INITIAL", "CLIENT_CONNECT_READY_TO_CONNECT",
   "CLIENT_CONNECT_DONE"}

ClientTypeOK(Requests) ==
  /\ connectState \in ConnectStates
  /\ connected \in BOOLEAN /\ sslEnabled \in BOOLEAN
  /\ initialised \in BOOLEAN
  /\ fd \in Sockets \cup {NoSocket}
  /\ DOMAIN open \subseteq Sockets
  /\ \A s \in DOMAIN open : open[s] \subseteq Requests

ClientInit ==
  /\ connectState = "CLIENT_CONNECT_INITIAL"
  /\ connected = FALSE /\ sslEnabled = FALSE /\ initialised = FALSE
  /\ fd = NoSocket
  /\ open = [s \in {} |-> {}]

----------------------------------------------------------------------------
\* mbedtlsDeinit closes the socket only when it frees the contexts too.
SocketsAfterDeinit ==
  IF initialised THEN Restrict(open, DOMAIN open \ {fd}) ELSE open

\* Mutant: a new fetch goes on over the connection that the last one left.
KeepConnection == UNCHANGED clientVars

Disconnect ==
  /\ connectState' = IF connected THEN "CLIENT_CONNECT_INITIAL"
                                  ELSE connectState
  /\ connected' = FALSE
  /\ sslEnabled' = (sslEnabled /\ ~connected)
  /\ initialised' = FALSE
  /\ fd' = IF initialised THEN NoSocket ELSE fd
  /\ open' = SocketsAfterDeinit

\* Disconnects first, then makes fresh contexts: server_fd forgets a socket
\* that mbedtlsDeinit did not close.
ConnectInitial ==
  /\ connectState = "CLIENT_CONNECT_INITIAL"
  /\ connectState' = "CLIENT_CONNECT_READY_TO_CONNECT"
  /\ connected' = FALSE
  /\ sslEnabled' = (sslEnabled /\ ~connected)
  /\ initialised' = TRUE
  /\ fd' = NoSocket
  /\ open' = SocketsAfterDeinit

\* mbedtls_net_connect opens a socket and overwrites the one it was given.
OpenSocket == \E s \in Sockets \ DOMAIN open :
                /\ fd' = s
                /\ open' = [t \in DOMAIN open \cup {s} |->
                              IF t = s THEN {} ELSE open[t]]

ConnectSucceeds ==
  /\ connectState = "CLIENT_CONNECT_READY_TO_CONNECT"
  /\ OpenSocket
  /\ connected' = TRUE
  /\ connectState' = "CLIENT_CONNECT_DONE"
  /\ UNCHANGED <<sslEnabled, initialised>>

\* tryConnect fails: no connection, or one that cannot be made non-blocking,
\* whose socket stays open.
ConnectFails ==
  /\ connectState = "CLIENT_CONNECT_READY_TO_CONNECT"
  /\ (fd' = NoSocket /\ UNCHANGED open) \/ OpenSocket
  /\ UNCHANGED <<connectState, connected, sslEnabled, initialised>>

\* connect(), after which the client is connected, or is not yet; it does
\* nothing for one that is connected.
ConnectsNow == IF connectState = "CLIENT_CONNECT_DONE" THEN UNCHANGED clientVars
                                                       ELSE ConnectSucceeds

NotYetConnected == ConnectInitial \/ ConnectFails

----------------------------------------------------------------------------
\* The whole of a request goes out: answers to it may now come in.
Write(r) == open' = [open EXCEPT ![fd] = open[fd] \cup {r}]

\* sslEnable returns 0.
SslEnable == /\ sslEnabled' = TRUE
             /\ UNCHANGED <<connectState, connected, initialised, fd, open>>
=============================================================================
