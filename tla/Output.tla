-------------------------------- MODULE Output --------------------------------
(****************************************************************************)
(* output.c with the buffer defop of httpd.c: one buffer, shared by all the *)
(* requests, to which json.c appends pieces and which is emptied when a     *)
(* sample is done.                                                          *)
(****************************************************************************)
EXTENDS Integers, Sequences

CONSTANTS
    OutbufDefSize,  \* OUTBUF_DEF_SIZE
    Sizes           \* sizes of the pieces json.c prints

(* A print function formats into a buffer on its stack, far smaller than a  *)
(* megabyte.                                                                *)
ASSUME SizesAssumption ==
    /\ OutbufDefSize \in Nat \ {0}
    /\ Sizes \subseteq 0 .. OutbufDefSize

VARIABLE defop      \* [size, offset, buf, encoding]

Encodings == {"unset", "none", "deflate"}

OutputInit == defop = [size |-> 0, offset |-> 0, buf |-> <<>>, encoding |-> "unset"]

(* The size of the buffer before n more bytes are copied: allocated by the  *)
(* first piece, doubled (once) when the rest of it is too small.            *)
Allocated(size) == IF size = 0 THEN OutbufDefSize ELSE size

(* Mutant: what the buffer holds already is forgotten.                      *)
GrownForAlone(size, offset, n) == IF size < n THEN size * 2 ELSE size

GrownFor(size, offset, n) == IF size - offset < n THEN size * 2 ELSE size

output_buf(op, piece, n) ==
    [op EXCEPT !.size   = GrownFor(Allocated(op.size), op.offset, n),
               !.buf    = Append(@, piece),
               !.offset = @ + n]

(* Mutant: the buffer is not emptied.                                       *)
EmptiedNever(op) == op

(* The end of output_samp_done, after its callback.                         *)
Emptied(op) == [op EXCEPT !.buf = <<>>, !.offset = 0]

(* "auto grow if not enough": every piece fits in the buffer it is copied   *)
(* to, although the buffer is doubled only once for it.                     *)
BufferFits == defop.offset <= defop.size
=============================================================================
