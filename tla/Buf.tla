---------------------------------- MODULE Buf ----------------------------------
(***************************************************************************)
(* The bounded buffer of include-private/udcinput/buf_p.h: a window          *)
(* data..data+size in an array of Capacity bytes.  The data pointer is       *)
(* written as its distance from the array's start, so that it is the         *)
(* headroom too.  Bytes leave the window at its front (pull) and enter it at *)
(* its end (add).  What the bytes say is the business of the users.          *)
(***************************************************************************)
EXTENDS Integers

CONSTANT Capacity    \* the size of the array

ASSUME BufAssumption == Capacity \in Nat

Buffer == [data : 0..Capacity, size : 0..Capacity]

\* Every byte of the window is a byte of the array.
InArray(buf) == buf.data + buf.size <= Capacity

\* udcinput_buf_create and, by its callers, the size of what is in it already.
Holding(nbytes) == [data |-> 0, size |-> nbytes]

Reset(buf) == [data |-> 0, size |-> 0]

TailOf(buf) == buf.data + buf.size
Tailroom(buf) == Capacity - buf.data - buf.size

CanPull(buf, n) == n <= buf.size
Pulled(buf, n) == [data |-> buf.data + n, size |-> buf.size - n]

-----------------------------------------------------------------------------
(* Faulty variants, no part of the buffer.                                  *)

\* One byte more than there is room for.
CanAddOneMore(buf, n) == n <= Tailroom(buf) + 1

-----------------------------------------------------------------------------
CanAdd(buf, n) == n <= Tailroom(buf)
Added(buf, n) == [data |-> buf.data, size |-> buf.size + n]

\* A smaller size cuts the end off; a larger one adds bytes of a given value.
CanResize(buf, n) == n <= buf.size \/ CanAdd(buf, n - buf.size)
Resized(buf, n) == [data |-> buf.data, size |-> n]
===============================================================================
