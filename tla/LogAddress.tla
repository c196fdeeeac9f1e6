----------------------------- MODULE LogAddress -----------------------------
(***************************************************************************)
(* Addresses of the record log in the I2C EEPROM: the log is the ring of   *)
(* bytes First..Last-1, records of ItemSize bytes follow each other in it, *)
(* across the pages of the chip and across the end of the ring.            *)
(***************************************************************************)
EXTENDS Integers

CONSTANTS
  First,      \* LOG_FIRST_VALID_ADDRESS, 256
  Last,       \* LOG_LAST_VALID_ADDRESS, 524288: one past the last byte
  ItemSize,   \* sizeof(DL_LOG_ITEM), 21
  PageSize    \* 256: the bytes that share PAGE_BYTE and MSB_BYTE

ASSUME LogAssumption ==
  /\ PageSize \in Nat \ {0}
  /\ ItemSize \in 1..PageSize
  /\ First \in Nat /\ First % PageSize = 0
  /\ Last \in Nat /\ Last % PageSize = 0
  /\ First + PageSize < Last

Cells == First..Last-1

\* The places an iterator can have.  Last is one of them.
Places == First..Last

\* (Variant: the wrap forgets the last byte of the ring.)
ForwardOffByOne(z) ==
  IF z > Last - ItemSize THEN First + (z - (Last - ItemSize)) - 1 ELSE z + ItemSize

\* dl_iterator_moveforward by one record.
Forward(z) ==
  IF z > Last - ItemSize THEN First + (z - (Last - ItemSize)) ELSE z + ItemSize

\* dl_iterator_moveback by n records; the code calls it for one only (Back).
BackBy(z, n) ==
  IF z < First + n * ItemSize THEN Last - (First + n * ItemSize - z) ELSE z - n * ItemSize

Back(z) == BackBy(z, 1)

\* The part of the record at z that lies in the next page, and whether it is
\* transferred on its own.
Spill(z) == Forward(z) % PageSize
Split(z) == Spill(z) # 0 /\ Spill(z) < ItemSize

\* A transfer: len bytes of the record, from byte offset on, at address start.
Transfer(start, offset, len) == [start |-> start, offset |-> offset, len |-> len]

HeadOf(z) ==
  Transfer(z, 0, IF Split(z) THEN ItemSize - Spill(z) ELSE ItemSize)
TailOf(z) ==
  Transfer(Forward(z) - Spill(z), ItemSize - Spill(z), IF Split(z) THEN Spill(z) ELSE 0)

\* Where byte k of the record at z belongs in the ring.
RingAddress(z, k) == IF z + k >= Last THEN First + (z + k - Last) ELSE z + k

\* Which address the transfers give to byte k of the record at z.
ByteAddress(z, k) ==
  IF k < HeadOf(z).len THEN HeadOf(z).start + k
                       ELSE TailOf(z).start + (k - TailOf(z).offset)

\* (Variant: the byte after the record.)
FlagBehind(z) == z + ItemSize

\* The flag is the last byte of DL_LOG_ITEM; send_data_with_post adds its
\* offset to the address of the record.
FlagAddress(z) == z + ItemSize - 1
=============================================================================
