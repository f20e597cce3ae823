--------------------------- MODULE B25Descrambler ---------------------------
(* B25Descrambler of crates/chibitv_b25 (descrambler.rs, multi2.rs and the  *)
(* card in cas.rs): MULTI2 with the two keys of the last ECM.               *)
(*                                                                          *)
(* Time on air is cut in periods with a key each.  Packets are scrambled    *)
(* with the odd or the even key, in turns; the ECM of a period carries the  *)
(* key of the period and that of the next one.  A key is [service, period]. *)
EXTENDS Naturals, Optional

CONSTANTS
    Services,     \* the services of the transport stream
    LastPeriod    \* bound on the periods a behaviour lasts

Periods == 0 .. LastPeriod + 1

Parity(period) == IF period % 2 = 1 THEN "odd" ELSE "even"

\* What the card answers to an ECM: its keys; nothing that helps, because its
\* return_code is not looked at; an error; or a status that is no success.
Answers == {"keys", "worthless", "error", "panic"}

\* Some key that is not on air.
Worthless == [service |-> None, period |-> 0]

VARIABLE workKeys \* work_keys of the Multi2, or None

Keys == [service : Services, period : Periods] \cup {Worthless}

ASSUME B25Assumption ==
    LastPeriod \in Nat /\ None \notin [{"odd", "even"} -> Keys]

B25Init == workKeys = None

\* Mutant: the halves of the answer taken in the other order.
KeysSwapped(service, period) ==
    [parity \in {"odd", "even"} |->
        [service |-> service,
         period |-> IF Parity(period) = parity THEN period + 1 ELSE period]]

\* The odd and the even key of an ECM.
KeysOf(service, period) ==
    [parity \in {"odd", "even"} |->
        [service |-> service,
         period |-> IF Parity(period) = parity THEN period ELSE period + 1]]

\* push_ecm(): an error keeps the keys there are.
PushEcm(service, period, answer) ==
    workKeys' =
        CASE answer = "keys" -> KeysOf(service, period)
          [] answer = "worthless" -> [parity \in {"odd", "even"} |-> Worthless]
          [] OTHER -> workKeys

\* decrypt(): "none" is the NoDecryptionKeyError.
Decrypted(service, period) ==
    IF workKeys = None THEN "none"
    ELSE IF workKeys[Parity(period)] = [service |-> service, period |-> period]
    THEN "clear"
    ELSE "garbled"

B25TypeOK == workKeys \in [{"odd", "even"} -> Keys] \cup {None}
=============================================================================
