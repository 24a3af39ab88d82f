----------------------------- MODULE PushDevices ----------------------------
(***************************************************************************)
(* Push notifications: the push_devices table, the lambdas that register,  *)
(* update and unregister a device (src/api/push*.ts), the cron that drops  *)
(* stale devices, and the chain of lambdas that tells the devices of a     *)
(* wallet about a transaction: onNewTxRequest invokes                      *)
(* txPushNotificationRequested, which invokes pushSendNotificationToDevice *)
(* once per device, which calls Firebase (FCM).                            *)
(*                                                                         *)
(* No handler runs in a transaction: one action per statement or call.     *)
(***************************************************************************)
EXTENDS Naturals, FiniteSets

CONSTANTS
    Device,         \* FCM tokens, the primary key of push_devices
    Allowed,        \* devices whose provider is in PUSH_ALLOWED_PROVIDERS
    Wallet,
    Started,        \* wallets with a row in the wallet table
    MaxCalls,       \* bound on the register and update lambdas running at once
    Tx,
    Affects,        \* the wallets a transaction touches
    Receives,       \* those whose first token balance of it is above zero
    NoRow

ASSUME PushAssumption ==
    /\ Allowed \subseteq Device
    /\ Started \subseteq Wallet
    /\ Affects \in [Tx -> SUBSET Wallet]
    /\ Receives \in [Tx -> SUBSET Started]
    /\ \A t \in Tx : Receives[t] \subseteq Affects[t]
    /\ MaxCalls \in Nat

Settings == [wallet : Wallet, push : BOOLEAN, amounts : BOOLEAN]
PushRow == [wallet : Wallet, push : BOOLEAN, amounts : BOOLEAN, old : BOOLEAN]
Pending == [op : {"insert", "update"}, device : Device, settings : Settings]
Notification == [tx : Tx, wallet : Wallet, device : Device, amounts : BOOLEAN]

ASSUME RowAssumption == NoRow \notin PushRow

VARIABLES
    row,        \* push_devices; old: updated_at is more than a month ago
    pending,    \* register and update lambdas with a statement still to run
    tx,         \* the transactions: new, requested, or handled
    outbox,     \* notifications handleRequest has still to send
    sending,    \* executions of the send lambda: <<what it does next, notification>>
    alive,      \* the tokens FCM knows
    overlap     \* may two registrations of one device overlap? (never changes)

vars == <<row, pending, tx, outbox, sending, alive, overlap>>

TypeOK ==
    /\ row \in [Device -> PushRow \cup {NoRow}]
    /\ pending \subseteq Pending
    /\ tx \in [Tx -> {"new", "requested", "handled"}]
    /\ outbox \subseteq Notification
    /\ sending \subseteq {"read", "fcm", "unregister"} \X Notification
    /\ alive \subseteq Device
    /\ overlap \in BOOLEAN

Init ==
    /\ row = [d \in Device |-> NoRow]
    /\ pending = {}
    /\ tx = [t \in Tx |-> "new"]
    /\ outbox = {}
    /\ sending = {}
    /\ alive = Device
    /\ overlap \in BOOLEAN

\* Mutant: updated_at is not set.
StoredUndated(s, isOld) ==
    IF isOld THEN [wallet |-> s.wallet, push |-> s.push, amounts |-> s.amounts, old |-> isOld]
    ELSE [wallet |-> s.wallet, push |-> s.push, amounts |-> s.amounts]

Stored(s, isOld) ==
    [wallet |-> s.wallet, push |-> s.push, amounts |-> s.amounts, old |-> isOld]

ExistsWallet(w) == w \in Started
ExistsPushDevice(d, w) == row[d] # NoRow /\ row[d].wallet = w

\* DELETE by device, or by device and wallet.
WithoutDevice(d) == [row EXCEPT ![d] = NoRow]
WithoutDeviceOf(d, w) == IF ExistsPushDevice(d, w) THEN WithoutDevice(d) ELSE row

-----------------------------------------------------------------------------
(* register *)

\* Mutant: only the wallet's own row of the device is removed.
RegisterOverOwn(d, s) ==
    /\ Cardinality(pending) < MaxCalls
    /\ ExistsWallet(s.wallet)
    /\ d \in alive
    /\ overlap \/ \A p \in pending : ~(p.op = "insert" /\ p.device = d)
    /\ row' = WithoutDeviceOf(d, s.wallet)
    /\ pending' = pending \cup {[op |-> "insert", device |-> d, settings |-> s]}
    /\ UNCHANGED <<tx, outbox, sending, alive, overlap>>

\* existsWallet, then every row of the device is removed;
\* registerPushDevice follows.
Register(d, s) ==
    /\ Cardinality(pending) < MaxCalls
    /\ ExistsWallet(s.wallet)
    /\ d \in alive
    /\ overlap \/ \A p \in pending : ~(p.op = "insert" /\ p.device = d)
    /\ row' = WithoutDevice(d)
    /\ pending' = pending \cup {[op |-> "insert", device |-> d, settings |-> s]}
    /\ UNCHANGED <<tx, outbox, sending, alive, overlap>>

\* ON DUPLICATE KEY UPDATE: a row that is there again keeps its wallet and
\* settings, only updated_at changes.
RegisterPushDevice(p) ==
    /\ p.op = "insert"
    /\ row' = [row EXCEPT ![p.device] = IF @ = NoRow THEN Stored(p.settings, FALSE)
                                        ELSE Stored(@, FALSE)]
    /\ pending' = pending \ {p}
    /\ UNCHANGED <<tx, outbox, sending, alive, overlap>>

-----------------------------------------------------------------------------
(* update, unregister and the cron *)

Update(d, s) ==
    /\ Cardinality(pending) < MaxCalls
    /\ ExistsPushDevice(d, s.wallet)
    /\ pending' = pending \cup {[op |-> "update", device |-> d, settings |-> s]}
    /\ UNCHANGED <<row, tx, outbox, sending, alive, overlap>>

\* Mutant: the wallet is not in the WHERE clause.
UpdateAnyWallet(p) ==
    /\ p.op = "update"
    /\ row' = [row EXCEPT ![p.device] =
                  IF @ = NoRow THEN NoRow
                  ELSE [Stored(p.settings, FALSE) EXCEPT !.wallet = row[p.device].wallet]]
    /\ pending' = pending \ {p}
    /\ UNCHANGED <<tx, outbox, sending, alive, overlap>>

\* MySQL moves updated_at only when a column really changes.
UpdatePushDevice(p) ==
    /\ p.op = "update"
    /\ LET d == p.device
           same == row[d] \in {Stored(p.settings, isOld) : isOld \in BOOLEAN}
       IN  row' = IF ~ExistsPushDevice(d, p.settings.wallet) \/ same THEN row
                  ELSE [row EXCEPT ![d] = Stored(p.settings, FALSE)]
    /\ pending' = pending \ {p}
    /\ UNCHANGED <<tx, outbox, sending, alive, overlap>>

Unregister(d, w) ==
    /\ row' = WithoutDeviceOf(d, w)
    /\ UNCHANGED <<pending, tx, outbox, sending, alive, overlap>>

\* No lambda runs for a month.
MonthPasses ==
    /\ pending = {} /\ outbox = {} /\ sending = {}
    /\ row' = [d \in Device |-> IF row[d] = NoRow THEN NoRow ELSE Stored(row[d], TRUE)]
    /\ UNCHANGED <<pending, tx, outbox, sending, alive, overlap>>

DeleteStalePushDevices ==
    /\ row' = [d \in Device |-> IF row[d] # NoRow /\ row[d].old THEN NoRow ELSE row[d]]
    /\ UNCHANGED <<pending, tx, outbox, sending, alive, overlap>>

-----------------------------------------------------------------------------
(* From a transaction to its notifications *)

\* getWalletBalancesForTx: started wallets only.
WalletsOf(t) == Affects[t] \cap Started

\* The lambda is invoked for the wallets of t and nobody waits for it; an
\* invocation that fails is only logged.
InvokeOnTxPushNotificationRequested(t) ==
    \E outcome \in {"requested", "handled"} : tx' = [tx EXCEPT ![t] = outcome]

\* The end of onNewTxRequest.
OnNewTx(t) ==
    /\ tx[t] = "new"
    /\ IF WalletsOf(t) = {} THEN tx' = [tx EXCEPT ![t] = "handled"]
       ELSE InvokeOnTxPushNotificationRequested(t)
    /\ UNCHANGED <<row, pending, outbox, sending, alive, overlap>>

\* The devices of the wallets of the request, ...
PushDeviceSettingsList(t) ==
    {d \in Device : \E w \in WalletsOf(t) : ExistsPushDevice(d, w)}

\* ... those that want a push and whose wallet receives something, ...
DevicesEnabledToPush(t) ==
    {d \in PushDeviceSettingsList(t) : row[d].push /\ row[d].wallet \in Receives[t]}

\* ... and their messages: generic, or with the amounts.
Assemble(t, d) ==
    [tx |-> t, wallet |-> row[d].wallet, device |-> d, amounts |-> row[d].amounts]

HandleRequest(t) ==
    /\ tx[t] = "requested"
    /\ tx' = [tx EXCEPT ![t] = "handled"]
    /\ outbox' = outbox \cup {Assemble(t, d) : d \in DevicesEnabledToPush(t)}
    /\ UNCHANGED <<row, pending, sending, alive, overlap>>

\* The send lambda is invoked as an "Event"; it may be that it is not.
InvokeSendNotificationHandler(n) == sending' \in {sending, sending \cup {<<"read", n>>}}

\* Generic messages go first; an invocation that fails is only logged.
SendNotification(n) ==
    /\ n.amounts => \A m \in outbox : m.tx = n.tx => m.amounts
    /\ outbox' = outbox \ {n}
    /\ InvokeSendNotificationHandler(n)
    /\ UNCHANGED <<row, pending, tx, alive, overlap>>

-----------------------------------------------------------------------------
(* send *)

IsRegistered(d) == row[d] # NoRow

\* getPushDevice: no device, or a provider that is not allowed, ends it.
GetPushDevice(n) ==
    /\ <<"read", n>> \in sending
    /\ sending' = (sending \ {<<"read", n>>})
                    \cup IF IsRegistered(n.device) /\ n.device \in Allowed
                         THEN {<<"fcm", n>>} ELSE {}
    /\ UNCHANGED <<row, pending, tx, outbox, alive, overlap>>

\* Mutant: any error of FCM unregisters the device.
UnregisterOnError(n) ==
    /\ <<"fcm", n>> \in sending
    /\ sending' \in {sending \ {<<"fcm", n>>},
                     (sending \ {<<"fcm", n>>}) \cup {<<"unregister", n>>}}
    /\ UNCHANGED <<row, pending, tx, outbox, alive, overlap>>

\* sendToFcm delivers, is told the token is not registered, or fails.
SendToFcm(n) ==
    /\ <<"fcm", n>> \in sending
    /\ sending' \in {sending \ {<<"fcm", n>>}}
           \cup IF n.device \in alive THEN {}
                ELSE {(sending \ {<<"fcm", n>>}) \cup {<<"unregister", n>>}}
    /\ UNCHANGED <<row, pending, tx, outbox, alive, overlap>>

UnregisterDead(n) ==
    /\ <<"unregister", n>> \in sending
    /\ row' = WithoutDevice(n.device)
    /\ sending' = sending \ {<<"unregister", n>>}
    /\ UNCHANGED <<pending, tx, outbox, alive, overlap>>

\* The application is removed from the device: FCM gives a token out once.
TokenDies(d) ==
    /\ d \in alive
    /\ alive' = alive \ {d}
    /\ UNCHANGED <<row, pending, tx, outbox, sending, overlap>>

Next ==
    \/ \E d \in Device, s \in Settings : Register(d, s) \/ Update(d, s)
    \/ \E p \in pending : RegisterPushDevice(p) \/ UpdatePushDevice(p)
    \/ \E d \in Device, w \in Wallet : Unregister(d, w)
    \/ MonthPasses \/ DeleteStalePushDevices
    \/ \E t \in Tx : OnNewTx(t) \/ HandleRequest(t)
    \/ \E n \in outbox : SendNotification(n)
    \/ \E n \in Notification : GetPushDevice(n) \/ SendToFcm(n) \/ UnregisterDead(n)
    \/ \E d \in Device : TokenDies(d)

Spec == Init /\ [][Next]_vars

-----------------------------------------------------------------------------
(* Properties *)

TakesEffect(p) == p.op = "insert" => row'[p.device] = Stored(p.settings, FALSE)

\* A register call that answers success has taken effect: the device's row is
\* the one it asked for (tests/pushRegister.test.ts), whatever else runs, as long
\* as no other registration of the device does.
RegisterTakesEffect == [][~overlap => \A p \in pending \ pending' : TakesEffect(p)]_vars

\* A device loses its row only to its own wallet, to a registration about to
\* store another, to FCM having forgotten its token, or to a month without a
\* change: no other wallet, and no race, unregisters it.
RowLeavesForAReason ==
    [][\A d \in Device : row[d] # NoRow /\ row'[d] = NoRow =>
          \/ Unregister(d, row[d].wallet)
          \/ \E p \in pending' : p.op = "insert" /\ p.device = d
          \/ d \notin alive
          \/ row[d].old]_vars

Wishes(r) == IF r = NoRow THEN NoRow
             ELSE [wallet |-> r.wallet, push |-> r.push, amounts |-> r.amounts]

\* What a row says of its wallet's wishes is what a call of that wallet asked
\* for, also when the device changed hands between a check and its statement.
SettingsAreTheWallets ==
    [][\A d \in Device : Wishes(row'[d]) \notin {NoRow, Wishes(row[d])} =>
          \E p \in pending : p.device = d /\ p.settings = Wishes(row'[d])]_vars

=============================================================================
