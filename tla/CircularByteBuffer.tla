------------------------- MODULE CircularByteBuffer -------------------------
(***************************************************************************)
(* class CircularByteBuffer (misc/src/CircularByteBuffer.cpp), as          *)
(* operators on a buffer: the array mem, the offsets put and get of m_pPut *)
(* and m_pGet, and m_len.  Callers keep to one operation at a time by      *)
(* critical sections of their own.                                         *)
(***************************************************************************)
EXTENDS Naturals, Sequences

CONSTANTS
  Bytes,   \* the values of a byte
  Size,    \* m_sz
  HighWM,  \* m_highWM
  LowWM    \* m_lowWM

ASSUME BufferAssumption ==
  /\ Size \in Nat \ {0}
  /\ HighWM \in 0..Size - 1
  /\ LowWM \in 1..Size

Offsets == 0..Size - 1

Buffers == [mem : [Offsets -> Bytes], put : Offsets, get : Offsets, len : 0..Size]

\* A pointer at the end of the array goes back to its beginning.
Wrap(n) == IF n >= Size THEN n - Size ELSE n

IsEmpty(b) == b.len = 0
IsFull(b) == b.len = Size
IsAboveHighWM(b) == b.len > HighWM
IsBelowLowWM(b) == b.len < LowWM

\* clear(): first the pointers, then the length.
ClearPointers(b) == [b EXCEPT !.put = 0, !.get = 0]
ClearLength(b) == [b EXCEPT !.len = 0]

\* put() does not look whether there is room.
Put(b, c) == [b EXCEPT !.mem[b.put] = c, !.put = Wrap(b.put + 1), !.len = @ + 1]

\* How many of n bytes there is room for, and how many of those lie before the
\* end of the array.
Room(b, n) == IF n > Size - b.len THEN Size - b.len ELSE n
BeforeEnd(offset, n) == IF Size - offset >= n THEN n ELSE Size - offset

\* putBytes(): as many as fit, in two parts if the end of the array is met.
PutBytes(b, s) ==
  LET n == Room(b, Len(s))
      k == BeforeEnd(b.put, n)
  IN [b EXCEPT !.mem = [o \in Offsets |->
                          IF o \in b.put..b.put + k - 1 THEN s[o - b.put + 1]
                          ELSE IF o \in 0..n - k - 1 THEN s[k + o + 1] ELSE @[o]],
               !.put = IF k = n THEN Wrap(b.put + n) ELSE n - k,
               !.len = @ + n]

\* get() and getBytes(): the bytes, and the buffer that is left.  (get() of
\* an empty buffer returns a question mark.)
Got(b, n) ==
  LET k == BeforeEnd(b.get, n)
  IN [i \in 1..n |-> IF i <= k THEN b.mem[b.get + i - 1] ELSE b.mem[i - k - 1]]

Left(b, n) ==
  LET k == BeforeEnd(b.get, n)
  IN [b EXCEPT !.get = IF k = n THEN Wrap(b.get + n) ELSE n - k,
               !.len = @ - n]

\* The bytes in the buffer, the oldest first.
Contents(b) == [i \in 1..b.len |-> b.mem[Wrap(b.get + i - 1)]]

\* The two pointers and the length agree.
Consistent(b) == b.put = Wrap(b.get + b.len)

=============================================================================
