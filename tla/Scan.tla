-------------------------------- MODULE Scan --------------------------------
(***************************************************************************)
(* What a scan makes of the advertisements it hears: which of them show    *)
(* the lock, when it stops early, which device it offers and which one     *)
(* U200Client.connect picks.  BleakTransport and BumbleTransport do the    *)
(* same with them.  Pure: module Library evaluates it.                     *)
(*                                                                         *)
(* An advertisement is [addr, signs, rssi, at]: its sender, what it shows  *)
(* of the lock (name, service, manufacturer), its strength (NoRssi when    *)
(* the stack gives none) and the second in which it comes.                 *)
(***************************************************************************)
EXTENDS Integers, Sequences, FiniteSetsExt

CONSTANT AnyAddress     \* no address is asked for

NoRssi == -999
ScanTimeout == 5        \* DEFAULT_SCAN_TIMEOUT, scaled down

\* Seconds a scan without an address listens on after its first good sign.
SettleSeconds(mac) == IF mac = AnyAddress THEN 2 ELSE 0

\* The sum of SCORE_BY_REASON.
Score(reasons) ==
    LET Points(reason, n) == IF reason \in reasons THEN n ELSE 0 IN
    Points("mac", 8) + Points("name", 4) + Points("service", 2) + Points("manufacturer", 1)

\* Why the sender may be the lock; none when another address is asked for.
Reasons(adv, mac) ==
    CASE mac = AnyAddress -> adv.signs
      [] mac = adv.addr   -> adv.signs \cup {"mac"}
      [] OTHER            -> {}

\* A candidate: its score and its strength order it, lexicographically.
Candidate(adv, mac) ==
    [addr |-> adv.addr, reasons |-> Reasons(adv, mac), rssi |-> adv.rssi,
     score |-> Score(Reasons(adv, mac))]

IsPreferred(c) == c.reasons \cap {"mac", "name", "service"} # {}

Better(c, d) == c.score > d.score \/ (c.score = d.score /\ c.rssi > d.rssi)

\* The first advertisement that arms the early stop decides when it comes.
StopsAt(advs, mac) ==
    LET arming == { i \in DOMAIN advs :
                      Reasons(advs[i], mac) # {} /\ IsPreferred(Candidate(advs[i], mac)) }
    IN  Min({ScanTimeout} \cup { advs[i].at + SettleSeconds(mac) : i \in arming })

Heard(advs, mac) == { i \in DOMAIN advs : advs[i].at <= StopsAt(advs, mac) }

\* Variant of Keep that keeps the first candidate of an address.
KeepFirst(found, adv, mac) ==
    IF Reasons(adv, mac) = {} \/ \E i \in DOMAIN found : found[i].addr = adv.addr
    THEN found
    ELSE Append(found, Candidate(adv, mac))

\* The latest candidate of an address takes the place of its earlier one,
\* whatever either showed.
Keep(found, adv, mac) ==
    LET places == { i \in DOMAIN found : found[i].addr = adv.addr } IN
    IF Reasons(adv, mac) = {}
    THEN found
    ELSE IF places = {}
         THEN Append(found, Candidate(adv, mac))
         ELSE [i \in DOMAIN found |-> IF i \in places THEN Candidate(adv, mac) ELSE found[i]]

\* What has been found after each of the advertisements.
FoundAfter(advs, mac) ==
    LET heard == Heard(advs, mac)
        found[n \in 0 .. Len(advs)] ==
          IF n = 0 THEN <<>>
          ELSE IF n \in heard THEN Keep(found[n - 1], advs[n], mac) ELSE found[n - 1]
    IN  found

Found(advs, mac) == FoundAfter(advs, mac)[Len(advs)]

\* The best at some places; of equals the one found first, since the sort is stable.
BestOf(found, pool) ==
    found[Min({ i \in pool : \A j \in pool : ~Better(found[j], found[i]) })]

NoDevice == [kind |-> "no device"]
Ambiguous == [kind |-> "ambiguous"]
Picked(c) == [kind |-> "picked", addr |-> c.addr]

\* The places of those that show more than the manufacturer; with an address,
\* of those that have it.
Preferred(found, mac) ==
    { i \in DOMAIN found : IsPreferred(found[i]) /\ mac \in {AnyAddress, found[i].addr} }

\* Variant of SelectPreferred that does not look for ties.
SelectAnyBest(found, mac) ==
    IF Preferred(found, mac) = {}
    THEN NoDevice
    ELSE Picked(BestOf(found, Preferred(found, mac)))

\* select_preferred: the lock, if exactly one device is the best of those
\* preferred, or the one of the address asked for.
SelectPreferred(found, mac) ==
    LET pool == Preferred(found, mac)
        best == BestOf(found, pool)
    IN  IF pool = {}
        THEN NoDevice
        ELSE IF mac = AnyAddress
                /\ \E i \in pool : found[i].score = best.score /\ found[i].addr # best.addr
             THEN Ambiguous
             ELSE Picked(best)

\* BleakTransport.connect with an address scans for it and takes the first.
ConnectToAddress(found) ==
    IF found = <<>> THEN NoDevice ELSE Picked(BestOf(found, DOMAIN found))

\* The ways to a device: U200Client.connect without an address, a Bleak connect
\* with one, and a caller's own scan and select_preferred.
Choice(advs, mac, way) ==
    CASE way = "connect" -> SelectPreferred(Found(advs, AnyAddress), AnyAddress)
      [] way = "address" -> ConnectToAddress(Found(advs, mac))
      [] way = "select"  -> SelectPreferred(Found(advs, AnyAddress), mac)
=============================================================================
