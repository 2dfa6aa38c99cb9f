------------------------------- MODULE Server -------------------------------
(***************************************************************************)
(* The server's threads: the main thread accepts connections, a handler    *)
(* thread per connection executes its requests.  They share the socket     *)
(* variable on the main thread's stack, the parser's global parse tree and *)
(* the transaction table.  What a statement does to tables is left out.    *)
(***************************************************************************)
EXTENDS Integers, FiniteSets

CONSTANTS
  Conns,         \* connections a client may open; its handler has its name
  NoConn,
  MaxRequests    \* bound: requests the clients send altogether

ASSUME ConnsAssumption == NoConn \notin Conns

VARIABLES
  main,           \* what the main thread does next
  sockfd,         \* its variable sockfd
  sockfd_mutex,   \* is sockfd_mutex locked
  buffer_mutex,   \* the handler that has locked buffer_mutex, or NoConn
  pc,             \* what each handler does next
  fd,             \* the connection each handler works for
  parse_tree,     \* ast::parse_tree: the handler whose request it is of
  query,          \* the handler whose request each handler has analyzed
  txn,            \* each handler's current Transaction
  txn_map,        \* txn_map[i]: the handler whose transaction has id i
  requests        \* requests sent so far

socket == <<main, sockfd, sockfd_mutex, fd>>
parser == <<buffer_mutex, parse_tree, query>>
transactions == <<txn, txn_map>>
vars == <<socket, parser, transactions, pc, requests>>

NoTxn == -1
TxnIds == 0 .. MaxRequests - 1
NewTxn(i) == [id |-> i, state |-> "DEFAULT", txn_mode |-> FALSE]

Init ==
  /\ main = "lock"
  /\ sockfd = NoConn
  /\ sockfd_mutex = FALSE
  /\ buffer_mutex = NoConn
  /\ pc = [c \in Conns |-> "closed"]
  /\ fd = [c \in Conns |-> NoConn]
  /\ parse_tree = NoConn
  /\ query = [c \in Conns |-> NoConn]
  /\ txn = [c \in Conns |-> NewTxn(NoTxn)]
  /\ txn_map = [i \in TxnIds |-> NoConn]
  /\ requests = 0

Goes(c, from, to) == pc[c] = from /\ pc' = [pc EXCEPT ![c] = to]

-----------------------------------------------------------------------------
(* start_server *)

LockSocket ==
  /\ main = "lock"
  /\ ~ sockfd_mutex
  /\ sockfd_mutex' = TRUE
  /\ main' = "accept"
  /\ UNCHANGED <<sockfd, fd, parser, transactions, pc, requests>>

Accept(c) ==
  /\ main = "accept"
  /\ pc[c] = "closed"
  /\ sockfd' = c
  /\ main' = "create"
  /\ UNCHANGED <<sockfd_mutex, fd, parser, transactions, pc, requests>>

(* The loop goes on, with sockfd_mutex still locked: the main thread waits *)
(* for a mutex that no handler is going to unlock.                         *)
AcceptFails ==
  /\ main = "accept"
  /\ sockfd' = NoConn
  /\ main' = "lock"
  /\ UNCHANGED <<sockfd_mutex, fd, parser, transactions, pc, requests>>

(* pthread_create: a handler begins, without a transaction.                *)
CreateThread ==
  /\ main = "create"
  /\ main' = "lock"
  /\ pc' = [pc EXCEPT ![sockfd] = "start"]
  /\ txn' = [txn EXCEPT ![sockfd] = NewTxn(NoTxn)]
  /\ UNCHANGED <<sockfd, sockfd_mutex, fd, parser, txn_map, requests>>

(* The process ends: SIGINT, a request "crash", a failed pthread_create, a *)
(* failed assertion.                                                       *)
Down == main' = "down" /\ pc' = [c \in Conns |-> "closed"]

Shutdown ==
  /\ main # "down"
  /\ Down
  /\ UNCHANGED <<sockfd, sockfd_mutex, fd, parser, transactions, requests>>

IsDown == main = "down" /\ UNCHANGED vars

-----------------------------------------------------------------------------
(* client_handler *)

UnlocksFirst(c) ==
  \/ /\ Goes(c, "start", "unlock")
     /\ sockfd_mutex' = FALSE
     /\ UNCHANGED <<main, sockfd, fd, parser, transactions, requests>>
  \/ /\ Goes(c, "unlock", "read")
     /\ fd' = [fd EXCEPT ![c] = sockfd]
     /\ UNCHANGED <<main, sockfd, sockfd_mutex, parser, transactions, requests>>

UnlockForgotten(c) ==
  \/ /\ Goes(c, "start", "unlock")
     /\ fd' = [fd EXCEPT ![c] = sockfd]
     /\ UNCHANGED <<main, sockfd, sockfd_mutex, parser, transactions, requests>>
  \/ /\ Goes(c, "unlock", "read")
     /\ UNCHANGED <<socket, parser, transactions, requests>>

(* The handler copies the socket, and then lets the main thread go on.     *)
TakeSocket(c) ==
  \/ /\ Goes(c, "start", "unlock")
     /\ fd' = [fd EXCEPT ![c] = sockfd]
     /\ UNCHANGED <<main, sockfd, sockfd_mutex, parser, transactions, requests>>
  \/ /\ Goes(c, "unlock", "read")
     /\ sockfd_mutex' = FALSE
     /\ UNCHANGED <<main, sockfd, fd, parser, transactions, requests>>

(* The client sends a request, or the connection ends.                     *)
Receive(c) ==
  /\ requests < MaxRequests
  /\ Goes(c, "read", "get_transaction")
  /\ requests' = requests + 1
  /\ UNCHANGED <<socket, parser, transactions>>

Close(c) ==
  /\ Goes(c, "read", "closed")
  /\ UNCHANGED <<socket, parser, transactions, requests>>

(* SetTransaction keeps an open transaction and begins a new one otherwise. *)
(* get_transaction asserts that the transaction with this id is the        *)
(* thread's own.                                                           *)
IsOpen(c) == txn[c].state = "DEFAULT"
GetTransaction(c) ==
  /\ pc[c] = "get_transaction"
  /\ IF txn[c].id = NoTxn \/ (txn_map[txn[c].id] = c /\ ~ IsOpen(c))
     THEN Goes(c, "get_transaction", "begin") /\ UNCHANGED main
     ELSE IF txn_map[txn[c].id] = c
     THEN Goes(c, "get_transaction", "lock") /\ UNCHANGED main
     ELSE Down
  /\ UNCHANGED <<sockfd, sockfd_mutex, fd, parser, transactions, requests>>

(* TransactionManager::begin: the new id is the size of the table, ...     *)
NumTxns == Cardinality({i \in TxnIds : txn_map[i] # NoConn})
NewTransaction(c) ==
  /\ Goes(c, "begin", "register")
  /\ txn' = [txn EXCEPT ![c] = NewTxn(NumTxns)]
  /\ UNCHANGED <<socket, parser, txn_map, requests>>

(* ... which the transaction enters afterwards, under latch_.              *)
RegisterTransaction(c) ==
  /\ Goes(c, "register", "lock")
  /\ txn_map' = [txn_map EXCEPT ![txn[c].id] = c]
  /\ UNCHANGED <<socket, parser, txn, requests>>

ParserNotLocked(c) ==
  /\ Goes(c, "lock", "parse")
  /\ buffer_mutex' = c
  /\ UNCHANGED <<socket, parse_tree, query, transactions, requests>>

LockParser(c) ==
  /\ buffer_mutex = NoConn
  /\ Goes(c, "lock", "parse")
  /\ buffer_mutex' = c
  /\ UNCHANGED <<socket, parse_tree, query, transactions, requests>>

(* yyparse fails or leaves no tree, or do_analyze has its tree.            *)
Parse(c) ==
  /\ Goes(c, "parse", "analyze")
  /\ parse_tree' = c
  /\ UNCHANGED <<socket, buffer_mutex, query, transactions, requests>>

ParseFails(c) ==
  /\ Goes(c, "parse", "failed")
  /\ UNCHANGED <<socket, parser, transactions, requests>>

Analyze(c) ==
  /\ Goes(c, "analyze", "run")
  /\ query' = [query EXCEPT ![c] = parse_tree]
  /\ buffer_mutex' = NoConn
  /\ UNCHANGED <<socket, parse_tree, transactions, requests>>

AnalyzeThrows(c) ==
  /\ Goes(c, "analyze", "failed")
  /\ UNCHANGED <<socket, parser, transactions, requests>>

MutexKeptOnFailure(c) ==
  /\ Goes(c, "failed", "reply")
  /\ UNCHANGED <<socket, parser, transactions, requests>>

(* finish_analyze is still false.                                          *)
UnlockAfterFailure(c) ==
  /\ Goes(c, "failed", "reply")
  /\ buffer_mutex' = NoConn
  /\ UNCHANGED <<socket, parse_tree, query, transactions, requests>>

(* plan_query, portal start and run: BEGIN makes the transaction explicit, *)
(* COMMIT, ABORT and a TransactionAbortException close it; any other       *)
(* statement, and any other error, leaves it as it is.                     *)
Run(c) ==
  /\ Goes(c, "run", "reply")
  /\ \/ txn' = [txn EXCEPT ![c].txn_mode = TRUE]
     \/ \E state \in {"COMMITTED", "ABORTED"} : txn' = [txn EXCEPT ![c].state = state]
     \/ UNCHANGED txn
  /\ UNCHANGED <<socket, parser, txn_map, requests>>

(* The answer is sent, and an implicit transaction committed.              *)
Reply(c) ==
  /\ Goes(c, "reply", "read")
  /\ txn' = IF txn[c].txn_mode THEN txn ELSE [txn EXCEPT ![c].state = "COMMITTED"]
  /\ UNCHANGED <<socket, parser, txn_map, requests>>

ReplyFails(c) ==
  /\ Goes(c, "reply", "closed")
  /\ UNCHANGED <<socket, parser, transactions, requests>>

(* What a handler does without waiting for its client.                     *)
HandlerStep(c) ==
  \/ TakeSocket(c) \/ GetTransaction(c) \/ NewTransaction(c)
  \/ RegisterTransaction(c) \/ LockParser(c) \/ Parse(c) \/ ParseFails(c)
  \/ Analyze(c) \/ AnalyzeThrows(c) \/ UnlockAfterFailure(c)
  \/ Run(c) \/ Reply(c) \/ ReplyFails(c)

MainStep == LockSocket \/ CreateThread

Next ==
  \/ MainStep \/ AcceptFails \/ Shutdown \/ IsDown
  \/ \E c \in Conns : Accept(c) \/ Receive(c) \/ Close(c) \/ HandlerStep(c)

(* Every thread runs on.  Requests are bounded, so that a handler waiting  *)
(* for buffer_mutex is not overtaken for ever.                             *)
Fairness ==
  /\ WF_vars(MainStep)
  /\ \A c \in Conns : WF_vars(HandlerStep(c))

Spec == Init /\ [][Next]_vars /\ Fairness

-----------------------------------------------------------------------------

(* A handler works for the connection it was created for, although all of  *)
(* them read the socket from the one variable of the main thread.          *)
OwnSocket == \A c \in Conns : pc[c] \notin {"closed", "start", "unlock"} => fd[c] = c

(* A handler executes its own request: between yyparse and the end of      *)
(* do_analyze no other handler replaces the global parse tree.             *)
OwnRequest == \A c \in Conns : pc[c] = "run" => query[c] = c

(* Every request is answered, also one that does not parse, that throws or *)
(* whose connection is gone, unless the server goes down.                  *)
RequestsAreAnswered ==
  \A c \in Conns : pc[c] = "get_transaction" ~> pc[c] \in {"read", "closed"}

(* A connection does not wait for the others: the handler takes over the   *)
(* socket and the main thread goes on to accept the next one, however long *)
(* the requests of the connected clients take.                             *)
MainAcceptsAgain == main = "create" ~> main \in {"accept", "down"}

(* The id of a transaction identifies it (transaction.h), and              *)
(* get_transaction asserts that it leads to the thread's own transaction.  *)
OwnTransaction ==
  \A c \in Conns :
    (pc[c] \notin {"closed", "register"} /\ txn[c].id # NoTxn) => txn_map[txn[c].id] = c
=============================================================================
