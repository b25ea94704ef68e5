-------------------------- MODULE EncoderContract ---------------------------
(***************************************************************************)
(* What one Encoder promises to the goroutines that share it: every call   *)
(* takes effect at one instant between its start and its return, Close     *)
(* closes the encoder for good, and a successful Marshal or MarshalPacked  *)
(* answers exactly the orders of its own batch.                            *)
(***************************************************************************)
EXTENDS EncoderCalls

CONSTANT Procs \* goroutines that share the Encoder

VARIABLES
  open,   \* no Close has taken effect
  phase,  \* phase[p]: "idle", "pending" (called) or "answered"
  call,   \* call[p]: the call p is executing, or made last
  answer  \* answer[p]: what the call returns, once answered

vars == <<open, phase, call, answer>>

Init ==
  /\ open = TRUE
  /\ phase = [p \in Procs |-> "idle"]
  /\ call \in [Procs -> {[op |-> "codeSize", arg |-> <<>>]}]
  /\ answer = [p \in Procs |-> NoResult]

Invoke(p) ==
  /\ phase[p] = "idle"
  /\ \E c \in Calls : call' = [call EXCEPT ![p] = c]
  /\ phase' = [phase EXCEPT ![p] = "pending"]
  /\ UNCHANGED <<open, answer>>

(* The linearization point of p's call.                                    *)
TakeEffect(p) ==
  /\ phase[p] = "pending"
  /\ phase' = [phase EXCEPT ![p] = "answered"]
  /\ answer' = [answer EXCEPT ![p] = Reply(call[p], open)]
  /\ open' = (open /\ call[p].op # "close")
  /\ UNCHANGED call

Return(p) ==
  /\ phase[p] = "answered"
  /\ phase' = [phase EXCEPT ![p] = "idle"]
  /\ answer' = [answer EXCEPT ![p] = NoResult]
  /\ UNCHANGED <<open, call>>

Next == \E p \in Procs : Invoke(p) \/ TakeEffect(p) \/ Return(p)

Fairness == \A p \in Procs : WF_vars(TakeEffect(p)) /\ WF_vars(Return(p))

Safe == Init /\ [][Next]_vars
Spec == Safe /\ Fairness
=============================================================================
