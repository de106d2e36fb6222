--------------------------- MODULE DeviceStorage ---------------------------
(***************************************************************************)
(* What the mobile app keeps on the device and the screens that change it  *)
(* without a host: the PIN-wrapped device key (DeviceKeyVault), the pinned *)
(* host (PairingStore), the setup screen and the status screen, and the    *)
(* hosts as the app can see them.  Both controllers of the app extend this *)
(* module.  A step of a model is what runs between two awaits.             *)
(***************************************************************************)
EXTENDS Naturals, FiniteSets

CONSTANTS Hosts,            \* host public keys
          Pins, WeakPins,   \* PINs a user types, and those PinPolicy rejects
          MaxKeys,          \* device keys generated in a behaviour
          MaxTime           \* the last instant of the clock

ASSUME StorageConstants ==
    /\ WeakPins \subseteq Pins
    /\ MaxKeys \in Nat \ {0}
    /\ MaxTime \in Nat

NoKey == [pin |-> "none", key |-> 0]
NoHost == "nohost"
Idle == [step |-> "idle"]

\* Tables of views put together: @@ of module TLC, which the provers lack.
Joined(f, g) == [x \in DOMAIN f \cup DOMAIN g |-> IF x \in DOMAIN f THEN f[x] ELSE g[x]]

VARIABLES vault,      \* the stored record: the key and the PIN that opens it
          pinned,     \* the stored host, or NoHost
          screen,     \* "setup" or "home" (main.dart)
          changing,   \* the changePin call in flight on the status screen
          wiping,     \* vault.wipe() has returned, pairingStore.clear() has not
          generated,  \* number of keys generated so far
          registered, \* <<host, key>>: the hosts that accepted a pairing response
          now

storageVars == <<vault, pinned, screen, changing, wiping, generated, registered, now>>

Keys == 1..MaxKeys
Records == [pin : Pins \ WeakPins, key : Keys]
Changes == {Idle} \cup [step : {"persist"}, key : Keys, new : Pins \ WeakPins]

StorageTypeOK ==
    /\ vault \in Records \cup {NoKey}
    /\ pinned \in Hosts \cup {NoHost}
    /\ screen \in {"setup", "home"}
    /\ changing \in Changes
    /\ wiping \in BOOLEAN
    /\ generated \in 0..MaxKeys
    /\ registered \subseteq Hosts \X Keys
    /\ now \in 0..MaxTime

StorageInit ==
    /\ vault = NoKey
    /\ pinned = NoHost
    /\ screen = "setup"
    /\ changing = Idle
    /\ wiping = FALSE
    /\ generated = 0
    /\ registered = {}
    /\ now = 0

\* The key a PIN opens, if any: a wrong PIN fails the authentication tag.
Opens(pin, record) == record # NoKey /\ record.pin = pin

\* SetupScreen._create and DeviceKeyVault.create; the setup screen shows
\* nothing else, and its _creating guard leaves one call at a time.  The reset
\* of the approval flow that follows finds it as it started.
CreateKey(pin) ==
    /\ screen = "setup" /\ generated < MaxKeys
    /\ pin \notin WeakPins
    /\ vault' = [pin |-> pin, key |-> generated + 1]
    /\ generated' = generated + 1
    /\ screen' = "home"
    /\ UNCHANGED <<pinned, changing, wiping, registered, now>>

\* DeviceKeyVault.changePin: the record is read and its key unlocked; a wrong
\* PIN or a new PIN the policy refuses ends the call and changes nothing.  The
\* status screen offers it whatever else is in flight.
ChangePin(old, new) ==
    /\ screen = "home" /\ changing = Idle
    /\ Opens(old, vault) /\ new \notin WeakPins
    /\ changing' = [step |-> "persist", key |-> vault.key, new |-> new]
    /\ UNCHANGED <<vault, pinned, screen, wiping, generated, registered, now>>

\* DeviceKeyVault._persist writes without looking at what is stored by now.
ChangePinPersisted ==
    /\ changing.step = "persist"
    /\ vault' = [pin |-> changing.new, key |-> changing.key]
    /\ changing' = Idle
    /\ UNCHANGED <<pinned, screen, wiping, generated, registered, now>>

\* StatusScreen._unpair: the stored host is cleared.
Unpair ==
    /\ screen = "home"
    /\ pinned' = NoHost
    /\ UNCHANGED <<vault, screen, changing, wiping, generated, registered, now>>

\* StatusScreen._wipe: the key is deleted, then the stored host is cleared.
\* The setup screen does not appear before the next start of the app.
Wipe ==
    /\ screen = "home" /\ ~wiping
    /\ vault' = NoKey
    /\ wiping' = TRUE
    /\ UNCHANGED <<pinned, screen, changing, generated, registered, now>>

WipeClearsHost ==
    /\ wiping
    /\ pinned' = NoHost
    /\ wiping' = FALSE
    /\ UNCHANGED <<vault, screen, changing, generated, registered, now>>

Tick ==
    /\ now < MaxTime
    /\ now' = now + 1
    /\ UNCHANGED <<vault, pinned, screen, changing, wiping, generated, registered>>

\* The app is closed and started again: storage stays, calls in flight are gone.
StorageRestart ==
    /\ screen' = IF vault = NoKey THEN "setup" ELSE "home"
    /\ changing' = Idle
    /\ wiping' = FALSE
    /\ UNCHANGED <<vault, pinned, generated, registered, now>>

StorageNext ==
    \/ \E pin \in Pins : CreateKey(pin)
    \/ \E old, new \in Pins : ChangePin(old, new)
    \/ ChangePinPersisted
    \/ Unpair
    \/ Wipe
    \/ WipeClearsHost
    \/ Tick
=============================================================================
