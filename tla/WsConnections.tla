--------------------------- MODULE WsConnections ----------------------------
(***************************************************************************)
(* The WebSocket side of the service: the connection store kept in Redis   *)
(* (src/redis.ts), the lambdas that fill and clean it (src/ws/connection,  *)
(* join, admin) and onNewTx (src/ws/txNotify.ts), which takes new          *)
(* transactions from an SQS queue and posts them to the connections that   *)
(* joined a wallet.  Every Redis command is a step of its own, except the  *)
(* commands of a multi.  API Gateway and SQS are external.                 *)
(***************************************************************************)
EXTENDS Integers, FiniteSets

CONSTANTS
    Conn,         \* connection ids, never used twice by API Gateway
    Joinable,     \* wallets with a row in the wallet table: those a client can join
    Msg,          \* new-tx messages
    Affected,     \* Affected[m]: wallets the transaction affects
    MaxErrors,    \* bound: executions of onNewTx and of addNewTx that fail
    MaxTimeouts   \* bound: executions of the other lambdas that end early

ASSUME WsAssumption ==
    /\ IsFiniteSet(Conn) /\ IsFiniteSet(Joinable)
    /\ Affected \in [Msg -> SUBSET Joinable]
    /\ MaxErrors \in Nat /\ MaxTimeouts \in Nat

VARIABLES
    link,        \* the connection at API Gateway: "new", "open", "closed"
    conns,       \* keys walletsvc:conn:<id>
    chans,       \* keys walletsvc:chan:wallet-<wallet>:<id>, as <<wallet, id>>
    leaving,     \* connections whose $disconnect lambda has not run yet
    multis,      \* endWsConnection: deletions queued, multi not executed yet
    joining,     \* join lambdas: [c, w, pc]
    joined,      \* <<w, c>> that were answered join-success (history variable)
    added,       \* messages whose transaction is committed
    queue,       \* messages in SQS
    posting,     \* onNewTx executions: [m, scan: wallets, to: connections]
    delivered,   \* <<m, c>> posted (history variable)
    errors, timeouts

store == <<conns, chans>>
wsVars == <<link, conns, chans, leaving, multis, joining, joined, added, queue, posting,
          delivered, errors, timeouts>>

Posting == [m : Msg, scan : SUBSET Joinable, to : SUBSET Conn]
Joining == [c : Conn, w : Joinable, pc : {"set", "reply"}]

WsTypeOK ==
    /\ link \in [Conn -> {"new", "open", "closed"}]
    /\ conns \subseteq Conn
    /\ chans \subseteq Joinable \X Conn
    /\ leaving \subseteq Conn
    /\ multis \subseteq [c : Conn, keys : SUBSET Joinable]
    /\ joining \subseteq Joining
    /\ joined \subseteq Joinable \X Conn
    /\ added \subseteq Msg /\ queue \subseteq Msg
    /\ posting \subseteq Posting
    /\ delivered \subseteq Msg \X Conn
    /\ errors \in 0..MaxErrors /\ timeouts \in 0..MaxTimeouts

WsInit ==
    /\ link = [c \in Conn |-> "new"]
    /\ conns = {} /\ chans = {}
    /\ leaving = {} /\ multis = {}
    /\ joining = {} /\ joined = {}
    /\ added = {} /\ queue = {} /\ posting = {}
    /\ delivered = {}
    /\ errors = 0 /\ timeouts = 0

-----------------------------------------------------------------------------
(* Redis *)

\* wsGetChannelConnections
ChannelConnections(w) == {c \in Conn : <<w, c>> \in chans}

\* Mutant: the channel keys of the connection are not looked for.
ForgetConnOnly(c) == multis' = multis \cup {[c |-> c, keys |-> {}]}

\* endWsConnection scans the channels of the connection and queues one
\* deletion per key ...
EndWsConnection(c) ==
    multis' = multis \cup {[c |-> c, keys |-> {w \in Joinable : <<w, c>> \in chans}]}

\* ... which multi.exec performs together, some time later: nobody awaits it.
Exec(e) ==
    /\ e \in multis
    /\ multis' = multis \ {e}
    /\ conns' = conns \ {e.c}
    /\ chans' = chans \ {<<w, e.c>> : w \in e.keys}
    /\ UNCHANGED <<link, leaving, joining, joined, added, queue, posting, delivered, errors, timeouts>>

-----------------------------------------------------------------------------
(* API Gateway *)

Connect(c) ==
    /\ link[c] = "new"
    /\ link' = [link EXCEPT ![c] = "open"]
    /\ conns' = conns \cup {c}
    /\ UNCHANGED <<chans, leaving, multis, joining, joined, added, queue, posting>>
    /\ UNCHANGED <<delivered, errors, timeouts>>

\* The client goes away, or admin.disconnect has API Gateway close the link.
Close(c) ==
    /\ link[c] = "open"
    /\ link' = [link EXCEPT ![c] = "closed"]
    /\ leaving' = leaving \cup {c}
    /\ UNCHANGED <<store, multis, joining, joined, added, queue, posting, delivered, errors, timeouts>>

Disconnect(c) ==
    /\ c \in leaving
    /\ leaving' = leaving \ {c}
    /\ EndWsConnection(c)
    /\ UNCHANGED <<link, store, joining, joined, added, queue, posting, delivered, errors, timeouts>>

\* Mutant: the connection is cleaned up whatever the answer.
SendOnce(c) == EndWsConnection(c)

\* sendMessageToClient: a closed link is answered 410 GONE, which cleans up.
Send(c) == IF link[c] = "open" THEN UNCHANGED multis ELSE EndWsConnection(c)

\* connection.connect with route ping, and admin.broadcast: a message that
\* finds the link closed.
SendGone(c) ==
    /\ c \in conns
    /\ link[c] = "closed"
    /\ Send(c)
    /\ UNCHANGED <<link, store, leaving, joining, joined, added, queue, posting, delivered, errors, timeouts>>

-----------------------------------------------------------------------------
(* join.handler *)

Join(c, w) ==
    /\ link[c] = "open"
    /\ joining' = joining \cup {[c |-> c, w |-> w, pc |-> "set"]}
    /\ UNCHANGED <<link, store, leaving, multis, joined, added, queue, posting, delivered, errors, timeouts>>

\* wsJoinWallet, whether or not the connection is still in the store.
WsJoinWallet(j) ==
    /\ j \in joining
    /\ j.pc = "set"
    /\ chans' = chans \cup {<<j.w, j.c>>}
    /\ joining' = (joining \ {j}) \cup {[c |-> j.c, w |-> j.w, pc |-> "reply"]}
    /\ UNCHANGED <<link, conns, leaving, multis, joined, added, queue, posting, delivered, errors, timeouts>>

JoinReply(j) ==
    /\ j \in joining
    /\ j.pc = "reply"
    /\ Send(j.c)
    /\ joined' = IF link[j.c] = "open" THEN joined \cup {<<j.w, j.c>>} ELSE joined
    /\ joining' = joining \ {j}
    /\ UNCHANGED <<link, store, leaving, added, queue, posting, delivered, errors, timeouts>>

\* An execution of join, of $disconnect or of an unawaited multi is cut short.
Timeout ==
    /\ timeouts < MaxTimeouts
    /\ timeouts' = timeouts + 1
    /\ \/ \E j \in joining : joining' = joining \ {j} /\ UNCHANGED <<leaving, multis>>
       \/ \E c \in leaving : leaving' = leaving \ {c} /\ UNCHANGED <<joining, multis>>
       \/ \E e \in multis : multis' = multis \ {e} /\ UNCHANGED <<joining, leaving>>
    /\ UNCHANGED <<link, store, joined, added, queue, posting, delivered, errors>>

-----------------------------------------------------------------------------
(* txNotify.onNewTx *)

\* The last thing _unsafeAddNewTx does is to send the message ...
NewTx(m) ==
    /\ m \notin added
    /\ added' = added \cup {m}
    /\ queue' = queue \cup {m}
    /\ UNCHANGED <<link, store, leaving, multis, joining, joined, posting, delivered, errors, timeouts>>

\* ... before the COMMIT, which may fail: the daemon brings the transaction again.
RollBack(m) ==
    /\ m \notin added
    /\ errors < MaxErrors
    /\ errors' = errors + 1
    /\ queue' = queue \cup {m}
    /\ UNCHANGED <<link, store, leaving, multis, joining, joined, added, posting, delivered, timeouts>>

Receive(m) ==
    /\ m \in queue
    /\ queue' = queue \ {m}
    /\ posting' = posting \cup {[m |-> m, scan |-> Affected[m], to |-> {}]}
    /\ UNCHANGED <<link, store, leaving, multis, joining, joined, added, delivered, errors, timeouts>>

\* Mutant: the connections of the next wallet replace those of the last one.
ScanLastWallet(s, w) ==
    /\ s \in posting
    /\ w \in s.scan
    /\ posting' = (posting \ {s}) \cup
                  {[m |-> s.m, scan |-> s.scan \ {w}, to |-> ChannelConnections(w)]}
    /\ UNCHANGED <<link, store, leaving, multis, joining, joined, added, queue, delivered, errors, timeouts>>

ScanWallet(s, w) ==
    /\ s \in posting
    /\ w \in s.scan
    /\ posting' = (posting \ {s}) \cup
                  {[m |-> s.m, scan |-> s.scan \ {w}, to |-> s.to \cup ChannelConnections(w)]}
    /\ UNCHANGED <<link, store, leaving, multis, joining, joined, added, queue, delivered, errors, timeouts>>

Post(s, c) ==
    /\ s \in posting
    /\ c \in s.to
    /\ Send(c)
    /\ delivered' = IF link[c] = "open" THEN delivered \cup {<<s.m, c>>} ELSE delivered
    /\ posting' = (posting \ {s}) \cup {[m |-> s.m, scan |-> s.scan, to |-> s.to \ {c}]}
    /\ UNCHANGED <<link, store, leaving, joining, joined, added, queue, errors, timeouts>>

\* Every promise is resolved: SQS forgets the message.
Done(s) ==
    /\ s \in posting
    /\ s.scan = {} /\ s.to = {}
    /\ posting' = posting \ {s}
    /\ UNCHANGED <<link, store, leaving, multis, joining, joined, added, queue, delivered, errors, timeouts>>

\* One promise rejects (an error other than 410, a key that is gone when its
\* url is read) or the lambda times out: SQS delivers the message again.
Fails(s) ==
    /\ s \in posting
    /\ errors < MaxErrors
    /\ errors' = errors + 1
    /\ posting' = posting \ {s}
    /\ queue' = queue \cup {s.m}
    /\ UNCHANGED <<link, store, leaving, multis, joining, joined, added, delivered, timeouts>>

-----------------------------------------------------------------------------

Notify(m) ==
    \/ Receive(m)
    \/ \E s \in {x \in posting : x.m = m} :
          \/ \E w \in s.scan : ScanWallet(s, w)
          \/ \E c \in s.to : Post(s, c)
          \/ Done(s)

WsNext ==
    \/ \E c \in Conn : \/ Connect(c)
                       \/ Close(c)
                       \/ Disconnect(c)
                       \/ SendGone(c)
                       \/ \E w \in Joinable : Join(c, w)
    \/ \E j \in joining : WsJoinWallet(j) \/ JoinReply(j)
    \/ \E e \in multis : Exec(e)
    \/ Timeout
    \/ \E m \in Msg : NewTx(m) \/ RollBack(m) \/ Notify(m)
    \/ \E s \in posting : Fails(s)

WsSpec == WsInit /\ [][WsNext]_wsVars

\* A lambda that was invoked runs, and SQS delivers what it holds; clients and
\* new transactions owe nothing.
FairWsSpec ==
    /\ WsSpec
    /\ \A c \in Conn : WF_wsVars(Disconnect(c))
    /\ \A j \in Joining : WF_wsVars(WsJoinWallet(j)) /\ WF_wsVars(JoinReply(j))
    /\ \A e \in [c : Conn, keys : SUBSET Joinable] : WF_wsVars(Exec(e))
    /\ \A m \in Msg : WF_wsVars(Notify(m))

-----------------------------------------------------------------------------
(* Properties *)

\* endWsConnection (redis.ts) and the 410 branch of sendMessageToClient never
\* take a listener out of the store: who was told join-success and is still
\* connected is found by wsGetWalletConnections.
ListenersStay ==
    \A l \in joined : link[l[2]] = "open" => l \in chans

\* onNewTx: a transaction sent to SQS reaches every connection that had joined
\* one of its wallets by then and stays open, through failed executions.
Listening(m, c) == \E w \in Affected[m] : <<w, c>> \in joined
ListenersAreNotified ==
    \A m \in Msg, c \in Conn :
        m \in queue /\ Listening(m, c) ~> <<m, c>> \in delivered \/ link[c] = "closed"

\* "the connection store should hold an updated list of connected clients"
\* (README): nothing of a closed connection stays in Redis, also when it closed
\* while a join was under way - unless a Lambda timeout cut one of them short.
Forgotten(c) == c \notin conns /\ \A w \in Joinable : <<w, c>> \notin chans
DeadAreForgotten ==
    \A c \in Conn : link[c] = "closed" ~> Forgotten(c) \/ timeouts # 0
=============================================================================
