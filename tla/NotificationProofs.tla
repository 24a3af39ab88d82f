------------------------- MODULE NotificationProofs -------------------------
(***************************************************************************)
(* Theorems about the two ways a client hears of a transaction, for any    *)
(* number of devices, connections, wallets and messages and every          *)
(* interleaving of the lambdas.  PushDevices: what the statements of the   *)
(* push lambdas do to a device's row.  WsConnections: the clean-up of dead *)
(* connections never takes a listener out of the store.                    *)
(***************************************************************************)
EXTENDS PushDevices, WsConnections, TLAPS

USE PushAssumption, RowAssumption, WsAssumption

-----------------------------------------------------------------------------
(* PushDevices: the invariant *)

\* The send lambda unregisters a token only once FCM has forgotten it.
UnregistersTheDead == \A n \in Notification : <<"unregister", n>> \in sending => n.device \notin alive

\* A registration that is about to insert finds no row of the device, and is
\* the only one.
InsertsFindNoRow ==
    ~overlap => \A p \in pending : p.op = "insert" =>
        /\ row[p.device] = NoRow
        /\ \A q \in pending : q.op = "insert" /\ q.device = p.device => q = p

PushInv == TypeOK /\ UnregistersTheDead /\ InsertsFindNoRow

-----------------------------------------------------------------------------
(* The statements *)

LEMMA StoredIsARow ==
    ASSUME NEW s, s \in Settings \cup PushRow, NEW isOld \in BOOLEAN
    PROVE  Stored(s, isOld) \in PushRow /\ Stored(s, isOld) # NoRow
<1>1. s.wallet \in Wallet /\ s.push \in BOOLEAN /\ s.amounts \in BOOLEAN
    BY DEF Settings, PushRow
<1>2. Stored(s, isOld) \in PushRow
    BY <1>1 DEF Stored, PushRow
<1> QED
    BY <1>2

\* Every statement keeps the types.
LEMMA TypesKept == TypeOK /\ [Next]_vars => TypeOK'
<1> SUFFICES ASSUME TypeOK, [Next]_vars PROVE TypeOK'
    OBVIOUS
<1> USE DEF TypeOK
<1>1. ASSUME NEW d \in Device, NEW s \in Settings, Register(d, s) PROVE TypeOK'
    BY <1>1 DEF Register, WithoutDevice, Pending
<1>2. ASSUME NEW d \in Device, NEW s \in Settings, Update(d, s) PROVE TypeOK'
    BY <1>2 DEF Update, Pending
<1>3. ASSUME NEW p \in pending, RegisterPushDevice(p) PROVE TypeOK'
  <2>1. p.device \in Device /\ p.settings \in Settings
      BY DEF Pending
  <2>2. row' \in [Device -> PushRow \cup {NoRow}]
      BY <1>3, <2>1, StoredIsARow DEF RegisterPushDevice
  <2> QED
      BY <1>3, <2>2 DEF RegisterPushDevice
<1>4. ASSUME NEW p \in pending, UpdatePushDevice(p) PROVE TypeOK'
  <2>1. p.device \in Device /\ p.settings \in Settings
      BY DEF Pending
  <2>2. row' \in [Device -> PushRow \cup {NoRow}]
      BY <1>4, <2>1, StoredIsARow DEF UpdatePushDevice
  <2> QED
      BY <1>4, <2>2 DEF UpdatePushDevice
<1>5. ASSUME NEW d \in Device, NEW w \in Wallet, Unregister(d, w) PROVE TypeOK'
    BY <1>5 DEF Unregister, WithoutDeviceOf, WithoutDevice
<1>6. CASE MonthPasses
  <2>1. ASSUME NEW d \in Device, row[d] # NoRow PROVE Stored(row[d], TRUE) \in PushRow
      BY <2>1, StoredIsARow
  <2> QED
      BY <1>6, <2>1 DEF MonthPasses
<1>7. CASE DeleteStalePushDevices
    BY <1>7 DEF DeleteStalePushDevices
<1>8. ASSUME NEW t \in Tx, OnNewTx(t) PROVE TypeOK'
    BY <1>8 DEF OnNewTx, InvokeOnTxPushNotificationRequested
<1>9. ASSUME NEW t \in Tx, HandleRequest(t) PROVE TypeOK'
  <2>1. ASSUME NEW d \in DevicesEnabledToPush(t) PROVE Assemble(t, d) \in Notification
    <3>1. d \in Device /\ row[d] \in PushRow
        BY DEF DevicesEnabledToPush, PushDeviceSettingsList, ExistsPushDevice
    <3>2. row[d].wallet \in Wallet /\ row[d].amounts \in BOOLEAN
        BY <3>1 DEF PushRow
    <3> QED
        BY <3>1, <3>2 DEF Assemble, Notification
  <2> QED
      BY <1>9, <2>1 DEF HandleRequest
<1>10. ASSUME NEW n \in outbox, SendNotification(n) PROVE TypeOK'
    BY <1>10 DEF SendNotification, InvokeSendNotificationHandler
<1>11. ASSUME NEW n \in Notification, GetPushDevice(n) PROVE TypeOK'
    BY <1>11 DEF GetPushDevice
<1>12. ASSUME NEW n \in Notification, SendToFcm(n) PROVE TypeOK'
    BY <1>12 DEF SendToFcm
<1>13. ASSUME NEW n \in Notification, UnregisterDead(n) PROVE TypeOK'
    BY <1>13 DEF UnregisterDead, WithoutDevice
<1>14. ASSUME NEW d \in Device, TokenDies(d) PROVE TypeOK'
    BY <1>14 DEF TokenDies
<1>15. CASE UNCHANGED vars
    BY <1>15 DEF vars
<1> QED
    BY <1>1, <1>2, <1>3, <1>4, <1>5, <1>6, <1>7, <1>8, <1>9, <1>10, <1>11, <1>12,
       <1>13, <1>14, <1>15 DEF Next

LEMMA DeadStayDead ==
    ASSUME TypeOK, UnregistersTheDead, [Next]_vars PROVE UnregistersTheDead'
<1> USE DEF UnregistersTheDead
<1>1. CASE UNCHANGED <<sending, alive>>
    BY <1>1
<1>2. ASSUME NEW n \in outbox, SendNotification(n) PROVE UnregistersTheDead'
    BY <1>2 DEF SendNotification, InvokeSendNotificationHandler
<1>3. ASSUME NEW n \in Notification, GetPushDevice(n) PROVE UnregistersTheDead'
    BY <1>3 DEF GetPushDevice
<1>4. ASSUME NEW n \in Notification, SendToFcm(n) PROVE UnregistersTheDead'
    BY <1>4 DEF SendToFcm
<1>5. ASSUME NEW n \in Notification, UnregisterDead(n) PROVE UnregistersTheDead'
    BY <1>5 DEF UnregisterDead
<1>6. ASSUME NEW d \in Device, TokenDies(d) PROVE UnregistersTheDead'
    BY <1>6 DEF TokenDies
<1> QED
    BY <1>1, <1>2, <1>3, <1>4, <1>5, <1>6
       DEF Next, vars, Register, Update, RegisterPushDevice, UpdatePushDevice, Unregister,
           MonthPasses, DeleteStalePushDevices, OnNewTx, HandleRequest

\* A row appears by an INSERT only.
LEMMA NoRowStays ==
    ASSUME TypeOK, [Next]_vars, NEW d \in Device, row[d] = NoRow,
           \A p \in pending : ~(p.device = d /\ RegisterPushDevice(p))
    PROVE  row'[d] = NoRow
<1> USE DEF TypeOK
<1>1. CASE row' = row
    BY <1>1
<1>2. ASSUME NEW e \in Device, row' = WithoutDevice(e) PROVE row'[d] = NoRow
    BY <1>2 DEF WithoutDevice
<1>3. ASSUME NEW p \in pending, RegisterPushDevice(p) PROVE row'[d] = NoRow
    BY <1>3 DEF RegisterPushDevice, Pending
<1>4. ASSUME NEW p \in pending, UpdatePushDevice(p) PROVE row'[d] = NoRow
    BY <1>4 DEF UpdatePushDevice, ExistsPushDevice, Pending
<1>5. CASE MonthPasses \/ DeleteStalePushDevices
    BY <1>5 DEF MonthPasses, DeleteStalePushDevices
<1>6. ASSUME NEW n \in Notification, UnregisterDead(n) PROVE row'[d] = NoRow
    BY <1>2, <1>6 DEF UnregisterDead, Notification
<1>7. ASSUME NEW e \in Device, NEW w \in Wallet, Unregister(e, w) PROVE row'[d] = NoRow
    BY <1>1, <1>2, <1>7 DEF Unregister, WithoutDeviceOf
<1>8. ASSUME NEW e \in Device, NEW s \in Settings, Register(e, s) PROVE row'[d] = NoRow
    BY <1>2, <1>8 DEF Register
<1> QED
    BY <1>1, <1>3, <1>4, <1>5, <1>6, <1>7, <1>8
       DEF Next, vars, Update, OnNewTx, HandleRequest, SendNotification,
           GetPushDevice, SendToFcm, TokenDies

LEMMA InsertsStayAlone ==
    ASSUME TypeOK, InsertsFindNoRow, [Next]_vars PROVE InsertsFindNoRow'
<1> SUFFICES ASSUME ~overlap', NEW p \in pending', p.op = "insert"
             PROVE  /\ row'[p.device] = NoRow
                    /\ \A q \in pending' : q.op = "insert" /\ q.device = p.device => q = p
    BY DEF InsertsFindNoRow
<1> DEFINE Alone == /\ row'[p.device] = NoRow
                    /\ \A q \in pending' : q.op = "insert" /\ q.device = p.device => q = p
<1>1. ~overlap /\ p.device \in Device
  <2>1. TypeOK'
      BY TypesKept
  <2> QED
      BY <2>1 DEF TypeOK, Pending, Next, vars, Register, Update, RegisterPushDevice,
            UpdatePushDevice, Unregister, MonthPasses, DeleteStalePushDevices, OnNewTx,
            HandleRequest, SendNotification, GetPushDevice, SendToFcm, UnregisterDead, TokenDies
<1>2. CASE pending' \subseteq pending
  <2>1. \A q \in pending : RegisterPushDevice(q) /\ q.device = p.device => q = p /\ q \notin pending'
      BY <1>1, <1>2 DEF InsertsFindNoRow, RegisterPushDevice
  <2> QED
      BY <1>1, <1>2, <2>1, NoRowStays DEF InsertsFindNoRow
<1>3. ASSUME NEW d \in Device, NEW s \in Settings, Register(d, s) PROVE Alone
  <2>1. /\ pending' = pending \cup {[op |-> "insert", device |-> d, settings |-> s]}
        /\ row' = [row EXCEPT ![d] = NoRow]
        /\ \A q \in pending : q.op = "insert" => q.device # d
      BY <1>1, <1>3 DEF Register, WithoutDevice
  <2> QED
      BY <1>1, <2>1 DEF InsertsFindNoRow, TypeOK
<1>4. ASSUME NEW d \in Device, NEW s \in Settings, Update(d, s) PROVE Alone
    BY <1>1, <1>4 DEF Update, InsertsFindNoRow
<1> QED
    BY <1>2, <1>3, <1>4
       DEF Next, vars, RegisterPushDevice, UpdatePushDevice, Unregister, MonthPasses,
           DeleteStalePushDevices, OnNewTx, HandleRequest, SendNotification, GetPushDevice,
           SendToFcm, UnregisterDead, TokenDies

-----------------------------------------------------------------------------

\* The inductive invariant of the push lambdas (src/api/push*.ts).
THEOREM PushInvariant == Spec => []PushInv
<1>1. Init => PushInv
    BY DEF Init, PushInv, TypeOK, UnregistersTheDead, InsertsFindNoRow
<1>2. PushInv /\ [Next]_vars => PushInv'
    BY TypesKept, DeadStayDead, InsertsStayAlone DEF PushInv
<1> QED
    BY <1>1, <1>2, PTL DEF Spec

\* The tables and the lambdas hold values of their types.
THEOREM PushTypes == Spec => []TypeOK
<1>1. PushInv => TypeOK
    BY DEF PushInv
<1> QED
    BY <1>1, PushInvariant, PTL

\* register (src/api/pushRegister.ts) answers success once the row is the one
\* asked for, however many lambdas run, if no other registers the same device.
THEOREM RegistrationsTakeEffect == Spec => RegisterTakesEffect
<1>1. PushInv /\ [Next]_vars =>
          [~overlap => \A p \in pending \ pending' : TakesEffect(p)]_vars
  <2> SUFFICES ASSUME PushInv, [Next]_vars, ~overlap, NEW p \in pending, p \notin pending',
                      p.op = "insert"
               PROVE  row'[p.device] = Stored(p.settings, FALSE)
      BY DEF TakesEffect
  <2>1. RegisterPushDevice(p)
      BY DEF Next, vars, Register, Update, RegisterPushDevice, UpdatePushDevice, Unregister,
             MonthPasses, DeleteStalePushDevices, OnNewTx, HandleRequest, SendNotification,
             GetPushDevice, SendToFcm, UnregisterDead, TokenDies
  <2>2. p.device \in Device /\ row[p.device] = NoRow
      BY DEF PushInv, TypeOK, Pending, InsertsFindNoRow
  <2> QED
      BY <2>1, <2>2 DEF RegisterPushDevice, PushInv, TypeOK
<1> QED
    BY <1>1, PushInvariant, PTL DEF Spec, RegisterTakesEffect

\* No race of the push lambdas removes the row of a device: its own wallet does,
\* another registration, FCM having forgotten the token, or the monthly clean-up.
THEOREM RowsLeaveForAReason == Spec => RowLeavesForAReason
<1> DEFINE Reason(d) ==
          \/ Unregister(d, row[d].wallet)
          \/ \E p \in pending' : p.op = "insert" /\ p.device = d
          \/ d \notin alive
          \/ row[d].old
<1>1. ASSUME PushInv, [Next]_vars, NEW d \in Device, row[d] # NoRow, row'[d] = NoRow
      PROVE  Reason(d)
  <2> USE <1>1 DEF PushInv, TypeOK
  <2>1. ASSUME NEW e \in Device, NEW s \in Settings, Register(e, s) PROVE Reason(d)
    <3> DEFINE q == [op |-> "insert", device |-> e, settings |-> s]
    <3>1. row' = [row EXCEPT ![e] = NoRow] /\ q \in pending'
        BY <2>1 DEF Register, WithoutDevice
    <3>2. e = d
        BY <3>1
    <3>3. q.op = "insert" /\ q.device = d
        BY <3>2
    <3> HIDE DEF q
    <3> QED
        BY <3>1, <3>3
  <2>2. ASSUME NEW p \in pending, RegisterPushDevice(p) \/ UpdatePushDevice(p) PROVE Reason(d)
    <3>1. p.device \in Device /\ p.settings \in Settings
        BY DEF Pending
    <3>2. row'[d] # NoRow
        BY <2>2, <3>1, StoredIsARow DEF RegisterPushDevice, UpdatePushDevice
    <3> QED
        BY <3>2
  <2>3. ASSUME NEW e \in Device, NEW w \in Wallet, Unregister(e, w) PROVE Reason(d)
      BY <2>3 DEF Unregister, WithoutDeviceOf, WithoutDevice, ExistsPushDevice
  <2>4. CASE MonthPasses
      BY <2>4, StoredIsARow DEF MonthPasses
  <2>5. CASE DeleteStalePushDevices
      BY <2>5 DEF DeleteStalePushDevices
  <2>6. ASSUME NEW n \in Notification, UnregisterDead(n) PROVE Reason(d)
      BY <2>6 DEF UnregisterDead, WithoutDevice, UnregistersTheDead
  <2>7. CASE row' = row
      BY <2>7
  <2> QED
      BY <2>1, <2>2, <2>3, <2>4, <2>5, <2>6, <2>7
         DEF Next, vars, Update, OnNewTx, HandleRequest, SendNotification, GetPushDevice,
             SendToFcm, TokenDies
<1>2. PushInv /\ [Next]_vars =>
          [\A d \in Device : row[d] # NoRow /\ row'[d] = NoRow => Reason(d)]_vars
    BY <1>1
<1> QED
    BY <1>2, PushInvariant, PTL DEF Spec, RowLeavesForAReason

\* A row never gets settings that its own wallet did not ask for, although update
\* and register (src/api/push*.ts) check and write in two statements.
THEOREM SettingsAreAskedFor == Spec => SettingsAreTheWallets
<1> DEFINE Asked(d) == \E p \in pending : p.device = d /\ p.settings = Wishes(row'[d])
<1>1. ASSUME NEW r \in PushRow, NEW isOld \in BOOLEAN PROVE Wishes(Stored(r, isOld)) = Wishes(r)
    BY <1>1, StoredIsARow DEF Wishes, Stored
<1>2. ASSUME NEW s \in Settings PROVE Wishes(Stored(s, FALSE)) = s
    BY <1>2, StoredIsARow DEF Wishes, Stored, Settings
<1>3. ASSUME PushInv, [Next]_vars, NEW d \in Device,
             Wishes(row'[d]) \notin {NoRow, Wishes(row[d])}
      PROVE  Asked(d)
  <2> USE <1>3 DEF PushInv, TypeOK
  <2>1. CASE row'[d] = row[d] \/ row'[d] = NoRow
      BY <2>1 DEF Wishes
  <2>2. ASSUME NEW p \in pending, RegisterPushDevice(p) PROVE Asked(d)
      BY <1>1, <1>2, <2>1, <2>2 DEF RegisterPushDevice, Pending
  <2>3. ASSUME NEW p \in pending, UpdatePushDevice(p) PROVE Asked(d)
      BY <1>2, <2>1, <2>3 DEF UpdatePushDevice, Pending
  <2>4. CASE MonthPasses
      BY <1>1, <2>1, <2>4 DEF MonthPasses
  <2>5. CASE DeleteStalePushDevices
      BY <2>1, <2>5 DEF DeleteStalePushDevices
  <2>6. ASSUME NEW e \in Device, row' = WithoutDevice(e) PROVE Asked(d)
      BY <2>1, <2>6 DEF WithoutDevice
  <2> QED
      BY <2>1, <2>2, <2>3, <2>4, <2>5, <2>6
         DEF Next, vars, Register, Unregister, WithoutDeviceOf, UnregisterDead, Notification,
             Update, OnNewTx, HandleRequest, SendNotification, GetPushDevice, SendToFcm, TokenDies
<1>4. PushInv /\ [Next]_vars =>
          [\A d \in Device : Wishes(row'[d]) \notin {NoRow, Wishes(row[d])} => Asked(d)]_vars
    BY <1>3
<1> QED
    BY <1>4, PushInvariant, PTL DEF Spec, SettingsAreTheWallets

-----------------------------------------------------------------------------
(* WsConnections: the invariant and its steps *)

\* Clean-ups are under way for closed connections only, ...
EndingIsClosed ==
    /\ \A c \in leaving : link[c] = "closed"
    /\ \A e \in multis : link[e.c] = "closed"

\* ... whoever is in the store or is being written to was connected once, ...
KnownIsNotNew ==
    /\ \A l \in chans \cup joined : link[l[2]] # "new"
    /\ \A j \in joining : link[j.c] # "new"
    /\ \A s \in posting : \A c \in s.to : link[c] # "new"

\* ... and the key of a join is there before its answer.
AnsweredIsStored ==
    \A j \in joining : j.pc = "reply" /\ link[j.c] = "open" => <<j.w, j.c>> \in chans

StoreInv == WsTypeOK /\ EndingIsClosed /\ KnownIsNotNew /\ AnsweredIsStored /\ ListenersStay

LEMMA InitStoreInv == WsInit => StoreInv
BY DEF WsInit, StoreInv, WsTypeOK, EndingIsClosed, KnownIsNotNew, AnsweredIsStored,
       ListenersStay, Posting, Joining

LEMMA EndCleansClosed ==
    ASSUME StoreInv, NEW c \in Conn, link[c] = "closed", EndWsConnection(c)
    PROVE  /\ multis' \subseteq [c : Conn, keys : SUBSET Joinable]
           /\ \A e \in multis' : link[e.c] = "closed"
<1> DEFINE k == {w \in Joinable : <<w, c>> \in chans}
<1>1. k \in SUBSET Joinable
    OBVIOUS
<1>2. multis' = multis \cup {[c |-> c, keys |-> k]}
    BY DEF EndWsConnection
<1> HIDE DEF k
<1> QED
    BY <1>1, <1>2 DEF StoreInv, WsTypeOK, EndingIsClosed

\* Writing to a connection starts a clean-up only when it is closed.
LEMMA SendCleansClosed ==
    ASSUME StoreInv, NEW c \in Conn, link[c] # "new", Send(c)
    PROVE  /\ multis' \subseteq [c : Conn, keys : SUBSET Joinable]
           /\ \A e \in multis' : link[e.c] = "closed"
<1>1. CASE link[c] = "open"
    BY <1>1 DEF StoreInv, WsTypeOK, EndingIsClosed, Send
<1>2. CASE link[c] # "open"
    BY <1>2, EndCleansClosed DEF StoreInv, WsTypeOK, Send
<1> QED
    BY <1>1, <1>2

LEMMA ExecKeepsStoreInv ==
    ASSUME StoreInv, NEW e \in multis, Exec(e) PROVE StoreInv'
<1>1. link[e.c] = "closed"
    BY DEF StoreInv, EndingIsClosed
<1>2. WsTypeOK'
    BY DEF Exec, StoreInv, WsTypeOK
<1>3. EndingIsClosed' /\ KnownIsNotNew'
    BY DEF Exec, StoreInv, EndingIsClosed, KnownIsNotNew
<1>4. AnsweredIsStored'
    BY <1>1 DEF Exec, StoreInv, AnsweredIsStored
<1>5. ListenersStay'
    BY <1>1 DEF Exec, StoreInv, WsTypeOK, ListenersStay
<1> QED
    BY <1>2, <1>3, <1>4, <1>5 DEF StoreInv

LEMMA GatewayKeepsStoreInv ==
    ASSUME StoreInv, NEW c \in Conn,
           Connect(c) \/ Close(c) \/ Disconnect(c) \/ SendGone(c)
                      \/ \E w \in Joinable : Join(c, w)
    PROVE  StoreInv'
<1>1. CASE Connect(c)
    <2>1. WsTypeOK'
        BY <1>1 DEF Connect, StoreInv, WsTypeOK
    <2>2. EndingIsClosed' /\ KnownIsNotNew' /\ AnsweredIsStored'
        BY <1>1 DEF Connect, StoreInv, WsTypeOK, EndingIsClosed, KnownIsNotNew,
                    AnsweredIsStored, Joining, Posting
    <2>3. ListenersStay'
        BY <1>1 DEF Connect, StoreInv, WsTypeOK, KnownIsNotNew, ListenersStay
    <2> QED
        BY <2>1, <2>2, <2>3 DEF StoreInv
<1>2. CASE Close(c)
    BY <1>2 DEF Close, store, StoreInv, WsTypeOK, EndingIsClosed, KnownIsNotNew,
                AnsweredIsStored, ListenersStay, Joining, Posting
<1>3. CASE Disconnect(c)
    <2>1. EndWsConnection(c) /\ link[c] = "closed"
        BY <1>3 DEF Disconnect, StoreInv, EndingIsClosed
    <2> QED
        BY <1>3, <2>1, EndCleansClosed
        DEF Disconnect, store, StoreInv, WsTypeOK, EndingIsClosed, KnownIsNotNew,
            AnsweredIsStored, ListenersStay
<1>4. CASE SendGone(c)
    <2>1. Send(c) /\ link[c] # "new"
        BY <1>4 DEF SendGone
    <2> QED
        BY <1>4, <2>1, SendCleansClosed
        DEF SendGone, store, StoreInv, WsTypeOK, EndingIsClosed, KnownIsNotNew,
            AnsweredIsStored, ListenersStay
<1>5. ASSUME NEW w \in Joinable, Join(c, w) PROVE StoreInv'
    BY <1>5 DEF Join, store, StoreInv, WsTypeOK, EndingIsClosed, KnownIsNotNew,
                AnsweredIsStored, ListenersStay, Joining
<1> QED
    BY <1>1, <1>2, <1>3, <1>4, <1>5

LEMMA JoinKeepsStoreInv ==
    ASSUME StoreInv, NEW j \in joining, WsJoinWallet(j) \/ JoinReply(j)
    PROVE  StoreInv'
<1>0. j \in Joining /\ link[j.c] # "new"
    BY DEF StoreInv, WsTypeOK, KnownIsNotNew
<1>1. CASE WsJoinWallet(j)
    <2>1. WsTypeOK'
        BY <1>0, <1>1 DEF WsJoinWallet, StoreInv, WsTypeOK, Joining
    <2>2. EndingIsClosed' /\ KnownIsNotNew' /\ AnsweredIsStored' /\ ListenersStay'
        BY <1>0, <1>1 DEF WsJoinWallet, StoreInv, WsTypeOK, EndingIsClosed,
                          KnownIsNotNew, AnsweredIsStored, ListenersStay, Joining
    <2> QED
        BY <2>1, <2>2 DEF StoreInv
<1>2. CASE JoinReply(j)
    <2>1. /\ multis' \subseteq [c : Conn, keys : SUBSET Joinable]
          /\ \A e \in multis' : link[e.c] = "closed"
        BY <1>0, <1>2, SendCleansClosed DEF JoinReply, Joining
    <2>2. WsTypeOK'
        BY <1>0, <1>2, <2>1 DEF JoinReply, store, StoreInv, WsTypeOK, Joining
    <2>3. EndingIsClosed' /\ KnownIsNotNew' /\ AnsweredIsStored'
        BY <1>2, <2>1 DEF JoinReply, store, StoreInv, EndingIsClosed, KnownIsNotNew,
                          AnsweredIsStored
    <2>4. ListenersStay'
        BY <1>2 DEF JoinReply, store, StoreInv, AnsweredIsStored, ListenersStay
    <2> QED
        BY <2>2, <2>3, <2>4 DEF StoreInv
<1> QED
    BY <1>1, <1>2

LEMMA NotifyKeepsStoreInv ==
    ASSUME StoreInv, NEW m \in Msg, NewTx(m) \/ RollBack(m) \/ Notify(m)
    PROVE  StoreInv'
<1>1. CASE NewTx(m) \/ RollBack(m)
    BY <1>1 DEF NewTx, RollBack, store, StoreInv, WsTypeOK, EndingIsClosed, KnownIsNotNew,
                AnsweredIsStored, ListenersStay
<1>2. CASE Receive(m)
    BY <1>2 DEF Receive, store, StoreInv, WsTypeOK, EndingIsClosed, KnownIsNotNew,
                AnsweredIsStored, ListenersStay, Posting
<1>3. ASSUME NEW s \in posting, NEW w \in s.scan, ScanWallet(s, w) PROVE StoreInv'
    <2>1. s \in Posting
        BY DEF StoreInv, WsTypeOK
    <2>2. /\ ChannelConnections(w) \subseteq Conn
          /\ \A c \in ChannelConnections(w) : link[c] # "new"
        BY DEF ChannelConnections, StoreInv, KnownIsNotNew
    <2>3. WsTypeOK'
        BY <1>3, <2>1, <2>2 DEF ScanWallet, store, StoreInv, WsTypeOK, Posting
    <2>4. KnownIsNotNew'
        BY <1>3, <2>1, <2>2 DEF ScanWallet, store, StoreInv, WsTypeOK, KnownIsNotNew, Posting
    <2> QED
        BY <1>3, <2>3, <2>4 DEF ScanWallet, store, StoreInv, EndingIsClosed,
                                AnsweredIsStored, ListenersStay
<1>4. ASSUME NEW s \in posting, NEW c \in s.to, Post(s, c) PROVE StoreInv'
    <2>1. s \in Posting /\ c \in Conn /\ link[c] # "new"
        BY DEF StoreInv, WsTypeOK, KnownIsNotNew, Posting
    <2>2. /\ multis' \subseteq [c : Conn, keys : SUBSET Joinable]
          /\ \A e \in multis' : link[e.c] = "closed"
        BY <1>4, <2>1, SendCleansClosed DEF Post
    <2>3. WsTypeOK'
        BY <1>4, <2>1, <2>2 DEF Post, store, StoreInv, WsTypeOK, Posting
    <2>4. EndingIsClosed' /\ KnownIsNotNew'
        BY <1>4, <2>1, <2>2 DEF Post, store, StoreInv, EndingIsClosed, KnownIsNotNew, Posting
    <2> QED
        BY <1>4, <2>3, <2>4 DEF Post, store, StoreInv, AnsweredIsStored, ListenersStay
<1>5. ASSUME NEW s \in posting, Done(s) PROVE StoreInv'
    BY <1>5 DEF Done, store, StoreInv, WsTypeOK, EndingIsClosed, KnownIsNotNew,
                AnsweredIsStored, ListenersStay
<1> QED
    BY <1>1, <1>2, <1>3, <1>4, <1>5 DEF Notify

LEMMA FailuresKeepStoreInv ==
    ASSUME StoreInv, Timeout \/ (\E s \in posting : Fails(s)) PROVE StoreInv'
<1>1. CASE Timeout
    BY <1>1 DEF Timeout, store, StoreInv, WsTypeOK, EndingIsClosed, KnownIsNotNew,
                AnsweredIsStored, ListenersStay
<1>2. ASSUME NEW s \in posting, Fails(s) PROVE StoreInv'
    <2> QED
        BY <1>2 DEF Fails, store, StoreInv, WsTypeOK, EndingIsClosed, KnownIsNotNew,
                AnsweredIsStored, ListenersStay, Posting
<1> QED
    BY <1>1, <1>2

\* redis.ts and ws/utils.ts: whoever was told join-success and is connected is
\* found by wsGetWalletConnections, for every set of connections and wallets.
THEOREM NoListenerIsLost == WsSpec => []ListenersStay
<1>1. StoreInv /\ [WsNext]_wsVars => StoreInv'
    <2> SUFFICES ASSUME StoreInv, [WsNext]_wsVars PROVE StoreInv'
        OBVIOUS
    <2>1. CASE UNCHANGED wsVars
        BY <2>1 DEF wsVars, store, StoreInv, WsTypeOK, EndingIsClosed, KnownIsNotNew,
                    AnsweredIsStored, ListenersStay
    <2> QED
        BY <2>1, ExecKeepsStoreInv, GatewayKeepsStoreInv, JoinKeepsStoreInv,
           NotifyKeepsStoreInv, FailuresKeepStoreInv DEF WsNext
<1>2. StoreInv => ListenersStay
    BY DEF StoreInv
<1> QED
    BY InitStoreInv, <1>1, <1>2, PTL DEF WsSpec
=============================================================================
