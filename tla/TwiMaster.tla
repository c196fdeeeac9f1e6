----------------------------- MODULE TwiMaster ------------------------------
(***************************************************************************)
(* twim.c, the master of the two I2C buses, under AT24CXX.c and MB7040.c:  *)
(* the main loop starts a transfer and spins on its status, the interrupt  *)
(* moves the bytes.  One descriptor, transfer, serves both buses.  The bus *)
(* with its chips is external: it takes a command and raises an interrupt  *)
(* with one of the flags the handler tells apart.                          *)
(***************************************************************************)
EXTENDS Naturals, Sequences

CONSTANTS Calls   \* the calls: sequences of packages [addr, length, read]

Package == [addr : Nat, length : Nat, read : BOOLEAN]

ASSUME TwiMasterAssumption == Calls \subseteq Seq(Package) \ {<<>>}

VARIABLES
  todo,      \* the packages of the running call, the current one first
  pc,        \* "idle", "acquire", "wait" for the status, "settle" for the bus
  transfer,  \* addr_count, data_count, locked, status
  command,   \* what the master asked of the bus last
  flag,      \* what the interrupt will see in MASTER.STATUS
  busIdle,   \* MASTER.STATUS says idle
  taken,     \* bytes the chip has taken in this transfer
  given,     \* bytes the chip has sent in this transfer
  inOrder    \* the n-th byte of the package was the n-th to be moved

vars == <<todo, pc, transfer, command, flag, busIdle, taken, given, inOrder>>

moved == <<taken, given, inOrder>>
bus == <<command, flag, busIdle, moved>>

pkg == Head(todo)

Init ==
  /\ todo = <<>> /\ pc = "idle"
  /\ transfer = [addr_count |-> 0, data_count |-> 0, locked |-> FALSE, status |-> "OK"]
  /\ command = "none" /\ flag = "none" /\ busIdle = TRUE
  /\ taken = 0 /\ given = 0 /\ inOrder = TRUE

\* AT24CXX_Init and MB7040_init: twi_master_setup, twi_master_init.
Setup ==
  /\ pc = "idle"
  /\ transfer' = [transfer EXCEPT !.locked = FALSE, !.status = "OK"]
  /\ busIdle' = TRUE
  /\ UNCHANGED <<todo, pc, command, flag, moved>>

\* AT24CXX_WriteBlockA and ReadBlockA call for one transfer; WriteBlockB for one
\* without an address; ReadBlockB and MB7040_readDistance for a write and, whatever
\* comes of it, a read.
Call ==
  /\ pc = "idle"
  /\ todo' \in Calls /\ pc' = "acquire"
  /\ UNCHANGED <<transfer, bus>>

\* twim_acquire, and the start of twi_master_transfer: a read without address bytes
\* begins with the read bit.  no_wait is never set.
Acquire ==
  /\ pc = "acquire" /\ ~transfer.locked
  /\ transfer' = [addr_count |-> 0, data_count |-> 0, locked |-> TRUE, status |-> "IN_PROGRESS"]
  /\ command' = (IF pkg.addr > 0 \/ ~pkg.read THEN "write" ELSE "read")
  /\ busIdle' = FALSE
  /\ taken' = 0 /\ given' = 0 /\ inOrder' = TRUE
  /\ pc' = "wait"
  /\ UNCHANGED <<todo, flag>>

\* twim_release waits for the status,
StatusSet ==
  /\ pc = "wait" /\ transfer.status # "IN_PROGRESS"
  /\ pc' = "settle"
  /\ UNCHANGED <<todo, transfer, bus>>

\* (Variant: the lock stays.)
LockKept == TRUE
Unlocked == FALSE

\* and then for the bus; the caller goes on to its next package.
Release ==
  /\ pc = "settle" /\ busIdle
  /\ transfer' = [transfer EXCEPT !.locked = Unlocked]
  /\ todo' = Tail(todo)
  /\ pc' = (IF Len(todo) = 1 THEN "idle" ELSE "acquire")
  /\ UNCHANGED bus

-----------------------------------------------------------------------------
(***************************************************************************)
(* twim_interrupt_handler.                                                 *)
(***************************************************************************)

Interrupted(f) == flag = f /\ flag' = "none"

Stop(status) ==
  /\ command' = "stop"
  /\ transfer' = [transfer EXCEPT !.status = status]

\* Arbitration lost.
Lost ==
  /\ Interrupted("arblost")
  /\ Stop("BUSY")
  /\ UNCHANGED <<todo, pc, busIdle, moved>>

\* A bus error or a byte that is not acknowledged.
Refused ==
  /\ Interrupted("nack")
  /\ Stop("IO_ERROR")
  /\ UNCHANGED <<todo, pc, busIdle, moved>>

\* (Variant: a transfer is over one byte early.)
WriteDoneEarly == transfer.data_count + 1 >= pkg.length
WriteDone == transfer.data_count >= pkg.length

\* (Variant: the repeated start without the read bit.)
RestartWriting == "write"
Restart == "read"

\* twim_write_handler: the address bytes, then a repeated start for a read or the
\* data, then the stop.
Written ==
  /\ Interrupted("written")
  /\ \/ /\ transfer.addr_count < pkg.addr
        /\ transfer' = [transfer EXCEPT !.addr_count = @ + 1]
        /\ command' = "byte"
     \/ /\ transfer.addr_count >= pkg.addr /\ ~WriteDone
        /\ IF pkg.read THEN command' = Restart /\ UNCHANGED transfer
           ELSE command' = "byte" /\ transfer' = [transfer EXCEPT !.data_count = @ + 1]
     \/ transfer.addr_count >= pkg.addr /\ WriteDone /\ Stop("OK")
  /\ UNCHANGED <<todo, pc, busIdle, moved>>

\* twim_read_handler: the last byte ends the transfer; a byte too many is an error.
ReadByte ==
  /\ Interrupted("read")
  /\ IF transfer.data_count < pkg.length
     THEN /\ inOrder' = (inOrder /\ given = transfer.data_count + 1)
          /\ transfer' = [transfer EXCEPT !.data_count = @ + 1,
                            !.status = IF transfer.data_count + 1 >= pkg.length THEN "OK" ELSE @]
          /\ command' = (IF transfer.data_count + 1 >= pkg.length THEN "stop" ELSE "receive")
     ELSE Stop("NO_MEMORY") /\ UNCHANGED inOrder
  /\ UNCHANGED <<todo, pc, busIdle, taken, given>>

-----------------------------------------------------------------------------
(***************************************************************************)
(* The bus and its chips (external).                                       *)
(***************************************************************************)

\* The number of the byte the master has put on the bus, the last it counted.
Byte == IF transfer.data_count = 0 THEN transfer.addr_count
        ELSE pkg.addr + transfer.data_count

\* The chip's address or a byte is acknowledged.
ChipFound ==
  /\ command = "write"
  /\ flag' = "written" /\ command' = "none"
  /\ UNCHANGED <<todo, pc, transfer, busIdle, moved>>

ChipTakes ==
  /\ command = "byte"
  /\ taken' = taken + 1
  /\ inOrder' = (inOrder /\ Byte = taken + 1)
  /\ flag' = "written" /\ command' = "none"
  /\ UNCHANGED <<todo, pc, transfer, busIdle, given>>

\* A byte from the chip.
ChipGives ==
  /\ command \in {"read", "receive"}
  /\ given' = given + 1
  /\ flag' = "read" /\ command' = "none"
  /\ UNCHANGED <<todo, pc, transfer, busIdle, taken, inOrder>>

\* The chip is not there or busy writing, or the bus is disturbed.
ChipRefuses ==
  /\ command \in {"write", "byte", "read"}
  /\ flag' \in {"nack", "arblost"} /\ command' = "none"
  /\ UNCHANGED <<todo, pc, transfer, busIdle, moved>>

BusStops ==
  /\ command = "stop"
  /\ busIdle' = TRUE /\ command' = "none"
  /\ UNCHANGED <<todo, pc, transfer, flag, moved>>

Interrupt == Lost \/ Refused \/ Written \/ ReadByte
Bus == ChipFound \/ ChipTakes \/ ChipGives \/ ChipRefuses \/ BusStops
Main == Acquire \/ StatusSet \/ Release

Next == Setup \/ Call \/ Main \/ Interrupt \/ Bus

\* Every command is answered: a chip that holds the clock line, or a bus that does
\* not become idle, stops the station, as nothing in twim.c counts time.
Fairness == WF_vars(Main) /\ WF_vars(Interrupt) /\ WF_vars(Bus)

Spec == Init /\ [][Next]_vars /\ Fairness

-----------------------------------------------------------------------------
TypeOK ==
  /\ todo \in Seq(Package)
  /\ pc # "idle" => todo # <<>>
  /\ pc \in {"idle", "acquire", "wait", "settle"}
  /\ transfer \in [addr_count : Nat, data_count : Nat, locked : BOOLEAN,
                   status : {"OK", "IN_PROGRESS", "BUSY", "IO_ERROR", "NO_MEMORY"}]
  /\ busIdle \in BOOLEAN /\ taken \in Nat /\ given \in Nat /\ inOrder \in BOOLEAN
  /\ command \in {"none", "write", "byte", "read", "receive", "stop"}
  /\ flag \in {"none", "written", "read", "nack", "arblost"}

\* A transfer that reports STATUS_OK has moved every byte of its package, in order:
\* the address bytes and the data to the chip, or as many of its bytes into the
\* buffer.
TransferComplete ==
  pc = "settle" /\ transfer.status = "OK" =>
    /\ inOrder
    /\ taken = pkg.addr + (IF pkg.read THEN 0 ELSE pkg.length)
    /\ pkg.read => given = pkg.length

\* One interrupt at a time, and none once the transfer has its status: the handler
\* of one transfer never runs in the next, though they share the descriptor.
OneEventPending ==
  /\ flag # "none" => command = "none" /\ transfer.status = "IN_PROGRESS"
  /\ pc \in {"idle", "acquire"} => command = "none" /\ ~transfer.locked

\* Every transfer ends when the bus answers.
TransfersEnd == pc = "acquire" ~> pc = "settle" /\ busIdle
=============================================================================
