------------------------ MODULE EncoderCloseHistory -------------------------
(***************************************************************************)
(* Encoder with a history variable: for each Close, the Marshal calls that *)
(* were executing when it got the write lock, and are executing still.     *)
(***************************************************************************)
EXTENDS EncoderProperties

VARIABLE underway  \* underway[p]: those of the last Close of goroutine p

Marshalling == {p \in Procs : call[p].op = "marshal" /\ pc[p] # "idle"}

HInit == Init /\ underway = [p \in Procs |-> {}]

HNext ==
  /\ Next
  /\ underway' =
       [p \in Procs |-> IF pc[p] = "lock" /\ pc'[p] = "close" THEN Marshalling
                        ELSE {q \in underway[p] : pc'[q] # "idle"}]

HSpec == HInit /\ [][HNext]_<<vars, underway>>

(* "Close takes the write lock and waits for the Marshal calls that are    *)
(* executing" (docs/engineering-design-order-batch.md:442): when a Close   *)
(* has returned, the Marshal calls that it met have returned too.  A       *)
(* Marshal is under the lock only from the call of MarshalPacked on        *)
(* (encoder.go:55-58, 79); a Close does not wait for one that still packs. *)
WaitsForMarshals ==
  \A p \in Procs :
    pc[p] = "idle" /\ call[p].op = "close" => underway[p] = {}
=============================================================================
