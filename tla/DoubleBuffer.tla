----------------------------- MODULE DoubleBuffer -----------------------------
(***************************************************************************)
(* memkit::DoubleBuffer, the ping-pong buffer of                           *)
(* include/memkit/detail/double_buffer_core.hpp.                           *)
(*                                                                         *)
(* One producer repeats write_span, fill, publish; one consumer repeats    *)
(* read_span and reads the block.  The spans are used outside the library: *)
(* the producer writes and the consumer reads one element per step, in any *)
(* interleaving with the other side's calls.  An element is the number of  *)
(* the block it belongs to; 0 is storage that was never written.           *)
(***************************************************************************)
EXTENDS Integers, Sequences

CONSTANTS BlockSize,  \* slot_capacity_
          MaxBlocks   \* bound: blocks the producer fills in one behaviour

ASSUME DoubleBufferAssumption == BlockSize \in Nat \ {0} /\ MaxBlocks \in Nat

VARIABLES readable,   \* readable_
          buffer,     \* slot_storage_: two slots of BlockSize elements
          wpc,        \* "idle", or "fill" between write_span and publish
          wslot,      \* the slot write_span returned
          written,    \* elements of it already filled
          block,      \* number of the block being filled, or filled last
          published,  \* number of the block published last
          rpc,        \* "idle", or "read" while the consumer holds a span
          rslot,      \* the slot read_span returned
          taken,      \* number of the block that was readable at read_span
          got,        \* the elements read from the span
          overrun     \* the producer has been given the slot the consumer holds

writeVars == <<wpc, wslot, written, block, published>>
readVars == <<rpc, rslot, taken, got>>
bufferVars == <<readable, buffer, writeVars, readVars, overrun>>

Side == {0, 1}
Block == 0..MaxBlocks

\* The values of the variables.
BufferTypeOK ==
    /\ readable \in Side
    /\ buffer \in [Side -> [1..BlockSize -> Block]]
    /\ wpc \in {"idle", "fill"} /\ wslot \in Side /\ written \in 0..BlockSize
    /\ block \in Block /\ published \in Block
    /\ rpc \in {"idle", "read"} /\ rslot \in Side /\ taken \in Block
    /\ got \in Seq(Block) /\ Len(got) <= BlockSize
    /\ overrun \in BOOLEAN

BufferInit ==
    /\ readable = 0
    /\ buffer = [s \in Side |-> [i \in 1..BlockSize |-> 0]]
    /\ wpc = "idle" /\ wslot = 1 /\ written = 0 /\ block = 0 /\ published = 0
    /\ rpc = "idle" /\ rslot = 0 /\ taken = 0 /\ got = <<>>
    /\ overrun = FALSE
-----------------------------------------------------------------------------
\* write_span: the slot that is not readable.
WriteSpan ==
    /\ wpc = "idle" /\ block < MaxBlocks
    /\ wslot' = 1 - readable
    /\ overrun' = (overrun \/ (rpc = "read" /\ rslot = wslot'))
    /\ wpc' = "fill" /\ written' = 0 /\ block' = block + 1
    /\ UNCHANGED <<readable, buffer, published, readVars>>

\* The producer fills the next element of its span.
Fill ==
    /\ wpc = "fill" /\ written < BlockSize
    /\ written' = written + 1
    /\ buffer' = [buffer EXCEPT ![wslot][written + 1] = block]
    /\ UNCHANGED <<readable, wpc, wslot, block, published, readVars, overrun>>

\* Mutant: the slot becomes readable before it is filled.
PublishBlock_Early ==
    /\ wpc = "fill"
    /\ readable' = 1 - readable
    /\ published' = block /\ wpc' = "idle"
    /\ UNCHANGED <<buffer, wslot, written, block, readVars, overrun>>

\* publish, after a complete fill: flip readable_ with a release store.
PublishBlock ==
    /\ wpc = "fill" /\ written = BlockSize
    /\ readable' = 1 - readable
    /\ published' = block /\ wpc' = "idle"
    /\ UNCHANGED <<buffer, wslot, written, block, readVars, overrun>>

\* read_span: the readable slot (acquire load).
ReadSpan ==
    /\ rpc = "idle"
    /\ rslot' = readable
    /\ rpc' = "read" /\ taken' = published /\ got' = <<>> /\ overrun' = FALSE
    /\ UNCHANGED <<readable, buffer, writeVars>>

\* The consumer reads the next element of its span.
Read ==
    /\ rpc = "read" /\ Len(got) < BlockSize
    /\ got' = Append(got, buffer[rslot][Len(got) + 1])
    /\ UNCHANGED <<readable, buffer, writeVars, rpc, rslot, taken, overrun>>

\* The consumer has read the block and drops the span.
ReadDone ==
    /\ rpc = "read" /\ Len(got) = BlockSize
    /\ rpc' = "idle"
    /\ UNCHANGED <<readable, buffer, writeVars, rslot, taken, got, overrun>>

BufferNext == WriteSpan \/ Fill \/ PublishBlock \/ ReadSpan \/ Read \/ ReadDone

BufferSpec == BufferInit /\ [][BufferNext]_bufferVars
-----------------------------------------------------------------------------
\* The consumer reads one whole block, the one that was readable at read_span, unless
\* the producer has come round to the slot it holds; and that takes a publish and
\* another write_span while the consumer keeps its span.
WholeUnlessOverrun ==
    /\ ~overrun => \A i \in 1..Len(got) : got[i] = taken
    /\ overrun => published > taken /\ block > taken + 1
=============================================================================
