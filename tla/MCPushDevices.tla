--------------------------- MODULE MCPushDevices ----------------------------
(***************************************************************************)
(* One device that two wallets register: bob receives something in pay,    *)
(* alice and carol pay.  carol never started a wallet.                     *)
(***************************************************************************)
EXTENDS PushDevices

CONSTANTS alice, bob, carol, pay

MCAffects == [t \in {pay} |-> {alice, bob, carol}]
MCReceives == [t \in {pay} |-> {bob}]

-----------------------------------------------------------------------------
(* What the repository says of the program and its code does not do *)

\* pushRegister.ts: "Register a device to receive push notification" - a call that
\* answers success has done so, also next to another registration.
RegisterAlwaysTakesEffect == [][\A p \in pending \ pending' : TakesEffect(p)]_vars

\* pushSendNotificationToDevice.ts: "Send a notification to the registered
\* device given a wallet": when FCM delivers to a device that is registered, it
\* is registered to that wallet.
PushedToItsWallet ==
    [][\A n \in Notification :
          SendToFcm(n) /\ n.device \in alive /\ row[n.device] # NoRow =>
              ExistsPushDevice(n.device, n.wallet)]_vars
=============================================================================
