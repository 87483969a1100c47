--------------------------- MODULE OrderLifecycleMC ---------------------------
(***************************************************************************)
(* Orders of one unit of one sku each; p2 pays for o2 when there is an o2,  *)
(* every other payment is for o1.                                          *)
(***************************************************************************)
EXTENDS OrderLifecycle, TLC

CONSTANTS o1, o2, p1, p2

MCProductOf == [s \in Sku |-> CHOOSE p \in Product : TRUE]

MCItemsOf == [o \in Order |-> [s \in Sku |-> 1]]

MCOrderOf == [m \in Payment |-> IF m = p2 /\ o2 \in Order THEN o2 ELSE o1]

\* Goroutines of one kind, and reservation ids, are interchangeable.
MCSymmetry ==
    UNION {Permutations(S) : S \in {HttpHandler, SucceededConsumer, CanceledConsumer,
                                    ExpiryWorker, ReservationId}}
=============================================================================
