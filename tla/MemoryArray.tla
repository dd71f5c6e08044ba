------------------------------- MODULE MemoryArray -----------------------------
(***************************************************************************)
(* The access functions of memory.c on the array m of bytes.  A value is   *)
(* what C sees of it: its bytes in the order of the host, a function on    *)
(* 0..k-1 where k is the size of the access.                               *)
(***************************************************************************)
EXTENDS Integers

CONSTANTS MemSize,         \* the argument of memory_create
          HostBigEndian    \* is_big_endian() of the host

Cells == 0..(MemSize - 1)
Sizes == {1, 2, 4}

\* The bytes are reversed between the host's value and the array exactly when
\* the endianness asked for is not the host's.
Swaps(be) == be # HostBigEndian

\* A bug to detect: only words are reversed.
CellOfWordsOnly(address, k, be, i) ==
    IF Swaps(be) /\ k = 4 THEN address + (k - 1 - i) ELSE address + i

\* The cell that holds byte i of the host's value.
CellOf(address, k, be, i) == IF Swaps(be) THEN address + (k - 1 - i) ELSE address + i

\* Only the first byte of an access decides whether it succeeds.
Succeeds(address) == address < MemSize

\* memory_read_byte, _half, _word: the bytes past the end stay what the local
\* array, never initialised, held (junk).
memory_read(m, address, k, be, junk) ==
    [i \in 0..(k - 1) |->
        LET cell == CellOf(address, k, be, i)
        IN  IF cell < MemSize THEN m[cell] ELSE junk[i]]

\* A bug to detect: the store ignores the endianness.
memory_writeHostOrder(m, address, k, be, value) ==
    IF ~ Succeeds(address) THEN m
    ELSE [c \in Cells |->
             IF c \in address..(address + k - 1) THEN value[c - address] ELSE m[c]]

\* A bug to detect: the loop runs once too often.
memory_writeOneMore(m, address, k, be, value) ==
    IF ~ Succeeds(address) THEN m
    ELSE [c \in Cells |->
             IF c \in address..(address + k) THEN value[(c - address) % k] ELSE m[c]]

\* memory_write_byte, _half, _word: the bytes past the end are dropped.
memory_write(m, address, k, be, value) ==
    IF ~ Succeeds(address) THEN m
    ELSE [c \in Cells |->
             IF c \in address..(address + k - 1)
             THEN value[IF Swaps(be) THEN k - 1 - (c - address) ELSE c - address]
             ELSE m[c]]
================================================================================
