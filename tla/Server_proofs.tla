--------------------------- MODULE Server_proofs ---------------------------
(***************************************************************************)
(* Handlers work for their own connection and execute their own request,   *)
(* for any set of connections and any number of requests.                  *)
(***************************************************************************)
EXTENDS Server, TLAPS

Steps ==
  {"closed", "start", "unlock", "read", "get_transaction", "begin", "register",
   "lock", "parse", "analyze", "failed", "run", "reply"}

ServerTypeOK ==
  /\ main \in {"lock", "accept", "create", "down"}
  /\ sockfd \in Conns \cup {NoConn}
  /\ sockfd_mutex \in BOOLEAN
  /\ pc \in [Conns -> Steps]
  /\ fd \in [Conns -> Conns \cup {NoConn}]
  /\ query \in [Conns -> Conns \cup {NoConn}]

\* A handler that still needs the main thread's variable.
Takes(c) == pc[c] \in {"start", "unlock"}

\* sockfd_mutex passes from the main thread, which locks it before accept, to
\* the new handler, which unlocks it: while the handler needs sockfd, the
\* variable is that handler's and the main thread waits for the mutex.
SocketHandedOver ==
  /\ main \in {"accept", "create"} => sockfd_mutex /\ \A c \in Conns : ~Takes(c)
  /\ main = "create" => sockfd \in Conns /\ pc[sockfd] = "closed"
  /\ \A c \in Conns : Takes(c) => sockfd_mutex /\ sockfd = c /\ main \in {"lock", "down"}
  /\ \A c \in Conns : pc[c] \notin {"closed", "start"} => fd[c] = c

\* buffer_mutex protects the parse tree from yyparse to the end of do_analyze.
ParserOwned ==
  /\ \A c \in Conns : pc[c] \in {"parse", "analyze", "failed"} => buffer_mutex = c
  /\ \A c \in Conns : pc[c] = "analyze" => parse_tree = c
  /\ \A c \in Conns : pc[c] = "run" => query[c] = c

ServerInv == ServerTypeOK /\ SocketHandedOver /\ ParserOwned

LEMMA ServerInvInit == Init => ServerInv
BY DEF Init, ServerInv, ServerTypeOK, SocketHandedOver, ParserOwned, Takes, Steps

\* A step of the main thread.
LEMMA ServerInvMain ==
  ASSUME ServerInv, LockSocket \/ CreateThread \/ AcceptFails \/ Shutdown
  PROVE  ServerInv'
<1> USE DEF ServerInv, ServerTypeOK, SocketHandedOver, ParserOwned, Takes, Steps,
            parser, transactions
<1>1. CASE LockSocket
  BY <1>1 DEF LockSocket
<1>2. CASE CreateThread
  BY <1>2 DEF CreateThread
<1>3. CASE AcceptFails
  BY <1>3 DEF AcceptFails
<1>4. CASE Shutdown
  BY <1>4 DEF Shutdown, Down
<1> QED
  BY <1>1, <1>2, <1>3, <1>4

\* A step of a handler, or of the main thread for a connection.
LEMMA ServerInvHandler ==
  ASSUME ServerInv, NEW c \in Conns, Accept(c) \/ Receive(c) \/ Close(c) \/ HandlerStep(c)
  PROVE  ServerInv'
<1> USE ConnsAssumption
    DEF ServerInv, ServerTypeOK, SocketHandedOver, ParserOwned, Takes, Steps, Goes,
        socket, parser, transactions
<1>1. CASE Accept(c)
  BY <1>1 DEF Accept
<1>2. CASE Receive(c)
  BY <1>2 DEF Receive
<1>3. CASE Close(c)
  BY <1>3 DEF Close
<1>4. CASE TakeSocket(c)
  <2>1. Takes(c) /\ sockfd_mutex /\ sockfd = c /\ main \in {"lock", "down"}
    BY <1>4 DEF TakeSocket
  <2>2. \A d \in Conns \ {c} : ~Takes(d) /\ pc'[d] = pc[d] /\ fd'[d] = fd[d]
    <3>1. \A d \in Conns \ {c} : ~Takes(d)
      BY <2>1
    <3>2. \E step \in Steps : pc' = [pc EXCEPT ![c] = step]
      BY <1>4 DEF TakeSocket
    <3>3. fd' = fd \/ fd' = [fd EXCEPT ![c] = sockfd]
      BY <1>4 DEF TakeSocket
    <3> QED
      BY <3>1, <3>2, <3>3
  <2>3. ServerTypeOK'
    <3>1. CASE pc[c] = "start"
      BY <1>4, <2>1, <3>1 DEF TakeSocket
    <3>2. CASE pc[c] = "unlock"
      <4>1. /\ pc' = [pc EXCEPT ![c] = "read"]
            /\ sockfd_mutex' = FALSE
            /\ UNCHANGED <<main, sockfd, fd, query>>
        BY <1>4, <3>2 DEF TakeSocket
      <4> QED
        BY <4>1
    <3> QED
      BY <2>1, <3>1, <3>2
  <2>4. SocketHandedOver'
    <3>1. CASE pc[c] = "start"
      BY <1>4, <2>1, <2>2, <3>1 DEF TakeSocket
    <3>2. CASE pc[c] = "unlock"
      BY <1>4, <2>1, <2>2, <3>2 DEF TakeSocket
    <3> QED
      BY <2>1, <3>1, <3>2
  <2>5. ParserOwned'
    BY <1>4, <2>1, <2>2 DEF TakeSocket
  <2> QED
    BY <2>3, <2>4, <2>5
<1>5. CASE GetTransaction(c)
  BY <1>5 DEF GetTransaction, Down
<1>6. CASE NewTransaction(c)
  BY <1>6 DEF NewTransaction
<1>7. CASE RegisterTransaction(c)
  BY <1>7 DEF RegisterTransaction
<1>8. CASE LockParser(c)
  BY <1>8 DEF LockParser
<1>9. CASE Parse(c)
  BY <1>9 DEF Parse
<1>10. CASE ParseFails(c)
  BY <1>10 DEF ParseFails
<1>11. CASE Analyze(c)
  BY <1>11 DEF Analyze
<1>12. CASE AnalyzeThrows(c)
  BY <1>12 DEF AnalyzeThrows
<1>13. CASE UnlockAfterFailure(c)
  BY <1>13 DEF UnlockAfterFailure
<1>14. CASE Run(c)
  BY <1>14 DEF Run
<1>15. CASE Reply(c)
  BY <1>15 DEF Reply
<1>16. CASE ReplyFails(c)
  BY <1>16 DEF ReplyFails
<1> QED
  BY <1>1, <1>2, <1>3, <1>4, <1>5, <1>6, <1>7, <1>8, <1>9, <1>10, <1>11, <1>12,
     <1>13, <1>14, <1>15, <1>16 DEF HandlerStep

LEMMA ServerInvStep == ServerInv /\ [Next]_vars => ServerInv'
<1> SUFFICES ASSUME ServerInv, [Next]_vars PROVE ServerInv'
  OBVIOUS
<1>1. CASE UNCHANGED vars
  BY <1>1 DEF ServerInv, ServerTypeOK, SocketHandedOver, ParserOwned, Takes, vars,
              socket, parser
<1>2. CASE IsDown
  BY <1>1, <1>2 DEF IsDown
<1>3. CASE LockSocket \/ CreateThread \/ AcceptFails \/ Shutdown
  BY <1>3, ServerInvMain
<1>4. ASSUME NEW c \in Conns, Accept(c) \/ Receive(c) \/ Close(c) \/ HandlerStep(c)
      PROVE  ServerInv'
  BY <1>4, ServerInvHandler
<1> QED
  BY <1>1, <1>2, <1>3, <1>4 DEF Next, MainStep

\* Init and the steps of Next establish and keep the invariant.
THEOREM ServerInvariant == Spec => []ServerInv
BY ServerInvInit, ServerInvStep, PTL DEF Spec

\* However many clients connect, and in whatever order their threads run, a
\* handler reads from and writes to the connection it was created for
\* (client_handler's copy of the main thread's sockfd).
THEOREM HandlersOwnTheirSocket == Spec => []OwnSocket
<1>1. ServerInv => OwnSocket
  BY DEF ServerInv, SocketHandedOver, OwnSocket
<1> QED
  BY <1>1, ServerInvariant, PTL

\* No handler runs a query that was analyzed from another handler's request,
\* although the parse tree is one global variable.
THEOREM HandlersRunTheirRequest == Spec => []OwnRequest
<1>1. ServerInv => OwnRequest
  BY DEF ServerInv, ParserOwned, OwnRequest
<1> QED
  BY <1>1, ServerInvariant, PTL

=============================================================================
