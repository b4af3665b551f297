----------------------------- MODULE UnixIDScan -----------------------------
(***************************************************************************)
(* UnixIDAllocation with a history variable: the IDs that have been free   *)
(* at every moment since the allocation of each worker began its scan,     *)
(* and that the database did not refuse to reserve.                        *)
(***************************************************************************)
EXTENDS UnixIDAllocation

VARIABLE freeThroughout

scanVars == <<vars, freeThroughout>>

FreeIDs == {id \in IDRange : \A n \in Names : table[n].id # id}

ScanInit ==
    /\ Init
    /\ freeThroughout = [w \in Workers |-> {}]

\* The candidate a refused transaction made the scan pass over.
PassedOver(w) == IF pc[w] = "reserve" /\ pc'[w] = "reread" THEN {try[w]} ELSE {}

ScanNext ==
    /\ Next
    /\ freeThroughout' = [w \in Workers |->
          IF pc[w] = "hint" THEN FreeIDs'
          ELSE (freeThroughout[w] \ PassedOver(w)) \cap FreeIDs']

ScanSpec == ScanInit /\ [][ScanNext]_scanVars

Registry == INSTANCE IDRegistry WITH
    IDs <- AnyID \ {0},
    assigned <- [n \in Names |-> table[n].id]

\* With one call at a time and fresh reads the allocation is a registry: an
\* ID is given to a record that has none, is nobody else's, and stays until
\* the record is deleted (PersistentStore.cpp:669-745).
RegistrySpec == Registry!Spec

\* "Unable to allocate numeric unix ID" (PersistentStore.cpp:689) is only
\* thrown when the range is exhausted: during the scan every ID was taken at
\* some moment, or the database refused the transaction that tried it.
ExhaustionIsReal ==
    \A w \in Workers : pc[w] = "exhausted" => freeThroughout[w] = {}
=============================================================================
