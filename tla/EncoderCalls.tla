---------------------------- MODULE EncoderCalls ----------------------------
(***************************************************************************)
(* The calls that goroutines make on one jitjson.Encoder, and what each    *)
(* call answers.  Shared by the abstract EncoderContract and by the        *)
(* detailed Encoder.  An order is a value of Orders: what its fields hold  *)
(* is the business of the packing modules; here all that matters is        *)
(* whether some string of it is invalid UTF-8.                             *)
(***************************************************************************)
EXTENDS Integers, Sequences

CONSTANTS
  Orders,        \* order values
  BadOrders,     \* those that hold a string with invalid UTF-8
  Batches,       \* batches given to Marshal
  PackedBatches, \* batches that Pack accepted, given to MarshalPacked
  TrustUTF8,     \* Options.TrustUTF8 of the Encoder
  NativeSize,    \* bytes of machine code: 195 (JIT) or 0 (static)
  NilPacked,     \* MarshalPacked(nil)
  ZeroPacked     \* MarshalPacked(&PackedBatch{}): a value Pack never filled

ASSUME OrdersAssumption == BadOrders \subseteq Orders

ASSUME BatchesAssumption ==
  /\ Batches \subseteq Seq(Orders)
  /\ PackedBatches \subseteq Seq(Orders \ BadOrders)
  /\ NilPacked \notin Seq(Orders)
  /\ ZeroPacked \notin Seq(Orders)
  /\ NilPacked # ZeroPacked

ASSUME OptionsAssumption == TrustUTF8 \in BOOLEAN /\ NativeSize \in Nat

PackedArgs == PackedBatches \cup {NilPacked, ZeroPacked}

Calls ==
  [op : {"marshal"}, arg : Batches]
    \cup [op : {"packed"}, arg : PackedArgs]
    \cup [op : {"codeSize", "close"}, arg : {<<>>}]

Errors ==
  {"none", "ErrClosed", "ErrInvalidUTF8", "ErrNilPacked", "ErrNative"}

(* What a call returns: an error, the rows of the JSON text, a code size.  *)
Result(err, output, size) == [err |-> err, output |-> output, size |-> size]
Fails(err) == Result(err, <<>>, 0)
NoResult   == Fails("none")

Rejected(order) == ~TrustUTF8 /\ order \in BadOrders

(* The answer of call c when the encoder is open (or not) at the moment    *)
(* the call takes effect.                                                  *)
MarshalReply(batch, open) ==
  IF \E i \in 1 .. Len(batch) : Rejected(batch[i]) THEN Fails("ErrInvalidUTF8")
  ELSE IF open THEN Result("none", batch, 0) ELSE Fails("ErrClosed")

PackedReply(arg, open) ==
  IF arg = NilPacked THEN Fails("ErrNilPacked")
  ELSE IF ~open THEN Fails("ErrClosed")
  ELSE IF arg = ZeroPacked THEN Fails("ErrNative") ELSE Result("none", arg, 0)

Reply(c, open) ==
  CASE c.op = "marshal"  -> MarshalReply(c.arg, open)
    [] c.op = "packed"   -> PackedReply(c.arg, open)
    [] c.op = "codeSize" -> Result("none", <<>>, IF open THEN NativeSize ELSE 0)
    [] c.op = "close"    -> IF open THEN NoResult ELSE Fails("ErrClosed")
=============================================================================
