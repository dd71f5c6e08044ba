--------------------------------- MODULE Memory --------------------------------
(***************************************************************************)
(* memory.c as a component: an array of bytes that comes from malloc with  *)
(* any contents, and accesses of one, two and four bytes in either         *)
(* endianness at any address.                                              *)
(***************************************************************************)
EXTENDS MemoryArray

CONSTANTS ByteValue,     \* the values of a byte
          Address     \* the addresses given (uint32_t)

ASSUME MemoryAssumption ==
    /\ MemSize \in Nat
    /\ Address \subseteq Nat
    /\ HostBigEndian \in BOOLEAN
    /\ ByteValue # {}

VARIABLES mem,     \* memory_array
          last     \* the last access: what was asked and what came back

memory_vars == <<mem, last>>

Value(k) == [0..(k - 1) -> ByteValue]

NoAccess == [op |-> "none"]

MemoryInit ==
    /\ mem \in [Cells -> ByteValue]          \* malloc does not clear
    /\ last = NoAccess

WriteBytes(address, k, be, value) ==
    /\ mem' = memory_write(mem, address, k, be, value)
    /\ last' = [op |-> "write", address |-> address, size |-> k, be |-> be,
                value |-> value, ok |-> Succeeds(address)]

\* A failing read leaves *value alone: the caller sees its own junk.
ReadBytes(address, k, be, junk) ==
    /\ last' = [op |-> "read", address |-> address, size |-> k, be |-> be,
                value |-> IF Succeeds(address)
                          THEN memory_read(mem, address, k, be, junk) ELSE junk,
                ok |-> Succeeds(address)]
    /\ UNCHANGED mem

MemoryNext ==
    \E address \in Address, k \in Sizes, be \in BOOLEAN : \E value \in Value(k) :
        \/ WriteBytes(address, k, be, value)
        \/ ReadBytes(address, k, be, value)

MemorySpec == MemoryInit /\ [][MemoryNext]_memory_vars

--------------------------------------------------------------------------------
MemoryTypeOK == mem \in [Cells -> ByteValue]

Fits(address, k) == address + k <= MemSize

\* A value that was stored within the array reads back the same with the same
\* endianness, and with its bytes reversed with the other one, on any host.
WritesReadBack ==
    last.op = "write" /\ Fits(last.address, last.size) =>
        \A junk \in Value(last.size) :
            LET k == last.size
            IN  /\ memory_read(mem, last.address, k, last.be, junk) = last.value
                /\ memory_read(mem, last.address, k, ~ last.be, junk)
                        = [i \in 0..(k - 1) |-> last.value[k - 1 - i]]

\* A big endian word is its big endian halves, the high one at the lower address,
\* and a little endian word the converse: the sizes see the same memory.
SizesAgree ==
    \A address \in Cells, be \in BOOLEAN : Fits(address, 4) =>
        \A junk \in Value(4) :
            LET word == memory_read(mem, address, 4, be, junk)
                near == memory_read(mem, address, 2, be, junk)
                far  == memory_read(mem, address + 2, 2, be, junk)
                half == IF Swaps(be) THEN [low |-> far, high |-> near]
                                     ELSE [low |-> near, high |-> far]
            IN  word = [i \in 0..3 |-> IF i < 2 THEN half.low[i] ELSE half.high[i - 2]]

\* No access, failing or straddling the end included, changes a byte outside
\* the ones it addresses, and a read changes none.
OnlyAddressedBytes ==
    [][\A c \in Cells :
           mem'[c] # mem[c] =>
               /\ last'.op = "write"
               /\ last'.ok
               /\ c \in last'.address..(last'.address + last'.size - 1)]_memory_vars

\* memory.h: the return value indicates a success or a failure.  A store that
\* succeeds has stored every byte of its value.
SuccessIsComplete ==
    last.op = "write" /\ last.ok => Fits(last.address, last.size)
================================================================================
