----------------------------- MODULE ByteStream -----------------------------
(***************************************************************************)
(* What a pipe promises: a bounded first-in first-out stream of bytes with *)
(* two ends.  Bytes leave in the order in which they entered, each once;   *)
(* none enters after the read end is closed; the bytes written before the  *)
(* write end is closed can still be read.                                  *)
(***************************************************************************)
EXTENDS Integers, Sequences

CONSTANTS
  Bytes,     \* byte values
  Capacity   \* bytes the stream holds

VARIABLES
  queue,     \* bytes written and not yet read
  open       \* the ends that are open, a subset of {"read", "write"}

streamVars == <<queue, open>>

StreamInit == queue = <<>> /\ open = {}

Create == open = {} /\ open' = {"read", "write"} /\ queue' = <<>>

Put(c) ==
  /\ open = {"read", "write"}
  /\ Len(queue) < Capacity
  /\ queue' = Append(queue, c)
  /\ UNCHANGED open

Get ==
  /\ "read" \in open
  /\ queue # <<>>
  /\ queue' = Tail(queue)
  /\ UNCHANGED open

Close(e) ==
  /\ e \in open
  /\ open' = open \ {e}
  /\ queue' = IF open' = {} THEN <<>> ELSE queue

StreamNext ==
  \/ Create
  \/ \E c \in Bytes : Put(c)
  \/ Get
  \/ \E e \in {"read", "write"} : Close(e)

StreamSpec == StreamInit /\ [][StreamNext]_streamVars

=============================================================================
