----------------------------- MODULE LeaseTable -----------------------------
(***************************************************************************)
(* What a registry of http-pierce promises, whatever its handlers do: a    *)
(* table from keys to holders that never names a holder which has retired. *)
(* A holder joins once, claims keys while it is live, and retires only     *)
(* when no key names it any more.  Anybody may drop an entry, and a claim  *)
(* may replace an earlier one: the code checks for an earlier entry and    *)
(* then writes, in two steps, and promises no more than this.              *)
(*                                                                         *)
(* The server's two registries both implement it:                          *)
(*   ROUTE_MAPPING  name -> transfer connection, retired when its          *)
(*                  channelInactive has run to the end;                    *)
(*   DYNAMIC_BOOT   port -> dynamic boot, retired when it is stopped.      *)
(***************************************************************************)
CONSTANTS Keys, Holders, None

VARIABLES table,   \* what each key maps to, None when it has no entry
          live,    \* the holders that joined and have not retired
          retired  \* the holders that retired

leaseVars == <<table, live, retired>>

Init ==
    /\ table = [k \in Keys |-> None]
    /\ live = {}
    /\ retired = {}

Join(h) ==
    /\ h \notin live \cup retired
    /\ live' = live \cup {h}
    /\ UNCHANGED <<table, retired>>

Claim(k, h) ==
    /\ h \in live
    /\ table' = [table EXCEPT ![k] = h]
    /\ UNCHANGED <<live, retired>>

Drop(k) ==
    /\ table' = [table EXCEPT ![k] = None]
    /\ UNCHANGED <<live, retired>>

Retire(h) ==
    /\ h \in live
    /\ \A k \in Keys : table[k] # h
    /\ live' = live \ {h}
    /\ retired' = retired \cup {h}
    /\ UNCHANGED table

Next ==
    \/ \E h \in Holders : Join(h) \/ Retire(h)
    \/ \E k \in Keys : Drop(k) \/ \E h \in Holders : Claim(k, h)

Spec == Init /\ [][Next]_leaseVars
=============================================================================
