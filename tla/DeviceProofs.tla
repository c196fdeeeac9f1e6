---------------------------- MODULE DeviceProofs -----------------------------
(***************************************************************************)
(* Proofs about the devices on the I2C buses.                              *)
(*                                                                         *)
(* TwiMaster, for every set of calls: packages with any number of address  *)
(* bytes and of data.  The type invariant does not tell how the counters   *)
(* of the descriptor relate to what has gone over the bus; Counts says it  *)
(* for each command and each flag.                                         *)
(*                                                                         *)
(* LevelSensor, for a buffer of any length.  ReadingsKept says where the   *)
(* index is between two readings and where the reading goes while it is    *)
(* stored; Stored adds the index between its stores, which depends on the  *)
(* order the compiler has chosen.                                          *)
(***************************************************************************)
EXTENDS TwiMaster, LevelSensor, SequenceTheorems, TLAPS

Running == pc = "wait" /\ transfer.status = "IN_PROGRESS"

\* Who holds the bus: an interrupt is pending, or a command is, of a transfer that
\* is under way; the stop of one that is over keeps the bus busy.
Turns ==
  /\ flag # "none" => command = "none" /\ Running
  /\ command \in {"write", "byte", "read", "receive"} => Running
  /\ command = "stop" => pc \in {"wait", "settle"} /\ ~busIdle /\ ~Running
  /\ Running => ~busIdle
  /\ pc = "settle" => transfer.status # "IN_PROGRESS"
  /\ pc \in {"idle", "acquire"} => ~transfer.locked

\* The bytes the master has counted, of a transfer that writes so far.
Writes ==
  /\ transfer.addr_count <= pkg.addr /\ transfer.data_count <= pkg.length
  /\ transfer.data_count > 0 => transfer.addr_count = pkg.addr /\ ~pkg.read
  /\ given = 0

\* All address bytes are on the chip, and it sends.
Reads ==
  /\ transfer.addr_count = pkg.addr /\ transfer.data_count <= pkg.length
  /\ taken = pkg.addr /\ pkg.read

Counts ==
  /\ command = "write" => Writes /\ taken = transfer.addr_count + transfer.data_count
  /\ command = "byte" => Writes /\ taken + 1 = transfer.addr_count + transfer.data_count
  /\ flag = "written" => Writes /\ taken = transfer.addr_count + transfer.data_count
  /\ command \in {"read", "receive"} => Reads /\ given = transfer.data_count
  /\ flag = "read" => Reads /\ given = transfer.data_count + 1

Complete ==
  /\ inOrder
  /\ taken = pkg.addr + (IF pkg.read THEN 0 ELSE pkg.length)
  /\ pkg.read => given = pkg.length

Moved ==
  /\ Running => inOrder
  /\ pc \in {"wait", "settle"} /\ transfer.status = "OK" => Complete

IInv == TypeOK /\ Turns /\ Counts /\ Moved

-----------------------------------------------------------------------------
\* The current package is one.
LEMMA PackageTyped ==
  ASSUME TypeOK, pc # "idle"
  PROVE  /\ pkg \in Package
         /\ pkg.addr \in Nat /\ pkg.length \in Nat /\ pkg.read \in BOOLEAN
<1>1. todo \in Seq(Package) /\ todo # <<>>
  BY DEF TypeOK
<1>2. Head(todo) \in Package
  BY <1>1
<1> QED BY <1>2 DEF pkg, Package

LEMMA TransferTyped ==
  ASSUME TypeOK
  PROVE  /\ transfer.addr_count \in Nat /\ transfer.data_count \in Nat
         /\ transfer.locked \in BOOLEAN
         /\ transfer = [addr_count |-> transfer.addr_count, data_count |-> transfer.data_count,
                        locked |-> transfer.locked, status |-> transfer.status]
  BY DEF TypeOK

LEMMA InitInv == Init => IInv
<1> SUFFICES ASSUME Init PROVE IInv
  OBVIOUS
<1>1. TypeOK
  BY DEF Init, TypeOK
<1>2. Turns /\ Counts /\ Moved
  BY DEF Init, Turns, Counts, Moved, Running
<1> QED BY <1>1, <1>2 DEF IInv

-----------------------------------------------------------------------------
(***************************************************************************)
(* The main loop.                                                          *)
(***************************************************************************)

LEMMA SetupInv == IInv /\ Setup => IInv'
<1> SUFFICES ASSUME IInv, Setup PROVE IInv'
  OBVIOUS
<1> USE TransferTyped DEF IInv, Setup, moved
<1>1. TypeOK'
  BY DEF TypeOK
<1>2. Turns' /\ Counts'
  BY DEF Turns, Counts, Running
<1>3. Moved'
  BY DEF Moved, Running
<1> QED BY <1>1, <1>2, <1>3

LEMMA CallInv == IInv /\ Call => IInv'
<1> SUFFICES ASSUME IInv, Call PROVE IInv'
  OBVIOUS
<1> USE DEF IInv, Call, bus, moved
<1>1. TypeOK'
  BY TwiMasterAssumption DEF TypeOK
<1>2. command = "none" /\ flag = "none"
  BY DEF Turns, Running, TypeOK
<1>3. Turns' /\ Counts' /\ Moved'
  BY <1>2 DEF Turns, Counts, Moved, Running
<1> QED BY <1>1, <1>3

LEMMA AcquireInv == IInv /\ Acquire => IInv'
<1> SUFFICES ASSUME IInv, Acquire PROVE IInv'
  OBVIOUS
<1> USE PackageTyped DEF IInv, Acquire
<1>1. TypeOK'
  BY DEF TypeOK
<1>2. command = "none" /\ flag = "none"
  BY DEF Turns, Running, TypeOK
<1>3. Turns'
  BY <1>2 DEF Turns, Running
<1>4. pkg' = pkg
  BY DEF pkg
<1>5. Counts'
  BY <1>2, <1>4 DEF Counts, Writes, Reads
<1>6. Moved'
  BY DEF Moved, Running
<1> QED BY <1>1, <1>3, <1>5, <1>6

LEMMA StatusSetInv == IInv /\ StatusSet => IInv'
<1> SUFFICES ASSUME IInv, StatusSet PROVE IInv'
  OBVIOUS
<1> USE DEF IInv, StatusSet, bus, moved
<1>1. TypeOK'
  BY DEF TypeOK
<1>2. Turns'
  BY DEF Turns, Running
<1>3. pkg' = pkg
  BY DEF pkg
<1>4. Counts' /\ Moved'
  BY <1>3 DEF Turns, Counts, Writes, Reads, Moved, Complete, Running
<1> QED BY <1>1, <1>2, <1>4

LEMMA ReleaseInv == IInv /\ Release => IInv'
<1> SUFFICES ASSUME IInv, Release PROVE IInv'
  OBVIOUS
<1> USE TransferTyped DEF IInv, Release, bus, moved, Unlocked
<1>1. todo \in Seq(Package) /\ todo # <<>>
  BY DEF TypeOK
<1>2. todo' \in Seq(Package) /\ (Len(todo) # 1 => todo' # <<>>)
  <2>1. todo' \in Seq(Package) /\ Len(todo') = Len(todo) - 1
    BY <1>1, HeadTailProperties
  <2>2. Len(todo) \in Nat \ {0}
    BY <1>1, EmptySeq
  <2>3. Len(todo) # 1 => Len(todo') # 0
    BY <2>1, <2>2
  <2> QED BY <2>1, <2>3, EmptySeq
<1>3. TypeOK'
  BY <1>2 DEF TypeOK
<1>4. command = "none" /\ flag = "none"
  BY DEF Turns, Running, TypeOK
<1>5. Turns' /\ Counts' /\ Moved'
  BY <1>4 DEF Turns, Counts, Moved, Running
<1> QED BY <1>3, <1>5

-----------------------------------------------------------------------------
(***************************************************************************)
(* The interrupt.                                                          *)
(***************************************************************************)

LEMMA ErrorInv == IInv /\ (Lost \/ Refused) => IInv'
<1> SUFFICES ASSUME IInv, Lost \/ Refused PROVE IInv'
  OBVIOUS
<1> USE TransferTyped DEF IInv, Lost, Refused, Interrupted, Stop, moved
<1>1. TypeOK'
  BY DEF TypeOK
<1>2. Running /\ command = "none" /\ flag' = "none" /\ command' = "stop"
  BY DEF Turns
<1>3. pc' = "wait" /\ transfer'.status \in {"BUSY", "IO_ERROR"}
  BY <1>2 DEF Running
<1>4. ~busIdle'
  BY <1>2 DEF Turns
<1>5. Turns'
  BY <1>2, <1>3, <1>4 DEF Turns, Running
<1>6. Counts' /\ Moved'
  BY <1>2, <1>3 DEF Counts, Moved, Running
<1> QED BY <1>1, <1>5, <1>6

LEMMA WrittenInv == IInv /\ Written => IInv'
<1> SUFFICES ASSUME IInv, Written PROVE IInv'
  OBVIOUS
<1> USE TransferTyped DEF IInv, Written, Interrupted, Stop, moved
<1>1. Running /\ command = "none" /\ ~busIdle /\ flag = "written"
  BY DEF Turns
<1>2. Writes /\ taken = transfer.addr_count + transfer.data_count /\ inOrder
  BY <1>1 DEF Counts, Moved
<1>3. pkg' = pkg /\ pkg.addr \in Nat /\ pkg.length \in Nat /\ pkg.read \in BOOLEAN
  BY <1>1, PackageTyped DEF Running, pkg
<1>4. TypeOK'
  BY DEF TypeOK, Restart
<1>5. CASE transfer.addr_count < pkg.addr
  <2>1. /\ transfer' = [transfer EXCEPT !.addr_count = @ + 1] /\ command' = "byte"
        /\ flag' = "none" /\ pc' = "wait" /\ taken' = taken /\ given' = given
        /\ inOrder' /\ ~busIdle'
    BY <1>1, <1>2, <1>3, <1>5 DEF Running
  <2>2. /\ transfer'.addr_count = transfer.addr_count + 1
        /\ transfer'.data_count = transfer.data_count
        /\ transfer'.status = "IN_PROGRESS"
    BY <2>1, <1>1 DEF Running
  <2>3. Turns' /\ Moved'
    BY <2>1, <2>2 DEF Turns, Moved, Running
  <2>4. Counts'
    BY <1>2, <1>3, <1>5, <2>1, <2>2 DEF Counts, Writes
  <2> QED BY <1>4, <2>3, <2>4
<1>6. CASE transfer.addr_count >= pkg.addr /\ ~WriteDone /\ pkg.read
  <2>1. /\ transfer' = transfer /\ command' = "read"
        /\ flag' = "none" /\ pc' = "wait" /\ taken' = taken /\ given' = given
        /\ inOrder' /\ ~busIdle'
    BY <1>1, <1>2, <1>3, <1>6 DEF Running, Restart
  <2>2. Turns' /\ Moved'
    BY <1>1, <2>1 DEF Turns, Moved, Running
  <2>3. Counts'
    BY <1>2, <1>3, <1>6, <2>1 DEF Counts, Writes, Reads
  <2> QED BY <1>4, <2>2, <2>3
<1>7. CASE transfer.addr_count >= pkg.addr /\ ~WriteDone /\ ~pkg.read
  <2>1. /\ transfer' = [transfer EXCEPT !.data_count = @ + 1] /\ command' = "byte"
        /\ flag' = "none" /\ pc' = "wait" /\ taken' = taken /\ given' = given
        /\ inOrder' /\ ~busIdle'
    BY <1>1, <1>2, <1>3, <1>7 DEF Running
  <2>2. /\ transfer'.addr_count = transfer.addr_count
        /\ transfer'.data_count = transfer.data_count + 1
        /\ transfer'.status = "IN_PROGRESS"
    BY <2>1, <1>1 DEF Running
  <2>3. Turns' /\ Moved'
    BY <2>1, <2>2 DEF Turns, Moved, Running
  <2>4. Counts'
    BY <1>2, <1>3, <1>7, <2>1, <2>2 DEF Counts, Writes, WriteDone
  <2> QED BY <1>4, <2>3, <2>4
<1>8. CASE transfer.addr_count >= pkg.addr /\ WriteDone
  <2>1. /\ transfer' = [transfer EXCEPT !.status = "OK"] /\ command' = "stop"
        /\ flag' = "none" /\ pc' = "wait" /\ taken' = taken /\ given' = given
        /\ inOrder' /\ ~busIdle'
    BY <1>1, <1>2, <1>3, <1>8 DEF Running
  <2>2. transfer'.status = "OK"
    BY <2>1
  <2>3. Turns' /\ Counts'
    BY <2>1, <2>2 DEF Turns, Counts, Running
  <2>4. Complete'
    BY <1>2, <1>3, <1>8, <2>1 DEF Complete, Writes, WriteDone
  <2>5. Moved'
    BY <2>2, <2>4 DEF Moved, Running
  <2> QED BY <1>4, <2>3, <2>5
<1> QED BY <1>3, <1>5, <1>6, <1>7, <1>8

LEMMA ReadByteInv == IInv /\ ReadByte => IInv'
<1> SUFFICES ASSUME IInv, ReadByte PROVE IInv'
  OBVIOUS
<1> USE TransferTyped DEF IInv, ReadByte, Interrupted, Stop
<1>1. Running /\ command = "none" /\ ~busIdle /\ flag = "read"
  BY DEF Turns
<1>2. Reads /\ given = transfer.data_count + 1 /\ inOrder
  BY <1>1 DEF Counts, Moved
<1>3. pkg' = pkg /\ pkg.addr \in Nat /\ pkg.length \in Nat /\ pkg.read \in BOOLEAN
  BY <1>1, PackageTyped DEF Running, pkg
<1>5. flag' = "none" /\ pc' = "wait" /\ taken' = taken /\ given' = given /\ ~busIdle'
  BY <1>1 DEF Running
<1>6. CASE transfer.data_count + 1 < pkg.length
  <2>4. ~(transfer.data_count + 1 >= pkg.length) /\ transfer.data_count < pkg.length
    BY <1>3, <1>6
  <2>5. /\ transfer' = [transfer EXCEPT !.data_count = @ + 1, !.status = @]
        /\ command' = "receive" /\ inOrder'
    BY <1>2, <2>4
  <2>6. transfer' = [addr_count |-> transfer.addr_count, data_count |-> transfer.data_count + 1,
                     locked |-> transfer.locked, status |-> transfer.status]
    BY <2>5
  <2>1. /\ transfer'.addr_count = transfer.addr_count
        /\ transfer'.data_count = transfer.data_count + 1
        /\ transfer'.status = "IN_PROGRESS"
        /\ command' = "receive" /\ inOrder'
    BY <1>1, <2>5, <2>6 DEF Running
  <2>7. TypeOK'
    BY <1>5, <2>5, <2>6 DEF TypeOK
  <2>2. Turns' /\ Moved'
    BY <1>5, <2>1 DEF Turns, Moved, Running
  <2>3. Counts'
    BY <1>2, <1>3, <1>5, <1>6, <2>1 DEF Counts, Reads
  <2> QED BY <2>7, <2>2, <2>3
<1>7. CASE transfer.data_count + 1 = pkg.length
  <2>5. transfer.data_count + 1 >= pkg.length /\ transfer.data_count < pkg.length
    BY <1>3, <1>7
  <2>6. /\ transfer' = [transfer EXCEPT !.data_count = @ + 1, !.status = "OK"]
        /\ command' = "stop" /\ inOrder'
    BY <1>2, <2>5
  <2>1. transfer'.status = "OK" /\ command' = "stop" /\ inOrder'
    BY <2>6
  <2>7. TypeOK'
    BY <1>5, <2>6 DEF TypeOK
  <2>2. Turns' /\ Counts'
    BY <1>5, <2>1 DEF Turns, Counts, Running
  <2>3. Complete'
    BY <1>2, <1>3, <1>5, <1>7, <2>1 DEF Complete, Reads
  <2>4. Moved'
    BY <2>1, <2>3 DEF Moved, Running
  <2> QED BY <2>7, <2>2, <2>4
<1>8. CASE transfer.data_count = pkg.length
  <2>1. transfer'.status = "NO_MEMORY" /\ command' = "stop"
    BY <1>3, <1>8
  <2>3. TypeOK'
    BY <1>3, <1>5, <1>8 DEF TypeOK
  <2>2. Turns' /\ Counts' /\ Moved'
    BY <1>5, <2>1 DEF Turns, Counts, Moved, Running
  <2> QED BY <2>2, <2>3
<1> QED BY <1>2, <1>3, <1>6, <1>7, <1>8 DEF Reads

-----------------------------------------------------------------------------
(***************************************************************************)
(* The bus.                                                                *)
(***************************************************************************)

LEMMA BusInv == IInv /\ Bus => IInv'
<1> SUFFICES ASSUME IInv, Bus PROVE IInv'
  OBVIOUS
<1> USE DEF IInv, moved
<1>1. pkg' = pkg
  BY DEF Bus, ChipFound, ChipTakes, ChipGives, ChipRefuses, BusStops, pkg
<1>2. TypeOK'
  <2>1. ASSUME ChipFound \/ ChipGives PROVE TypeOK'
    BY <2>1 DEF TypeOK, ChipFound, ChipGives
  <2>2. ASSUME ChipRefuses \/ BusStops PROVE TypeOK'
    BY <2>2 DEF TypeOK, ChipRefuses, BusStops
  <2>3. ASSUME ChipTakes PROVE TypeOK'
    <3>1. inOrder' \in BOOLEAN
      BY <2>3, Zenon DEF ChipTakes
    <3> QED BY <2>3, <3>1 DEF TypeOK, ChipTakes
  <2> QED BY <2>1, <2>2, <2>3 DEF Bus
<1>3. CASE ChipFound
  <2>1. Turns' /\ Moved'
    BY <1>3 DEF ChipFound, Turns, Moved, Complete, Running
  <2>2. Counts'
    BY <1>1, <1>3 DEF ChipFound, Counts, Writes
  <2> QED BY <1>2, <2>1, <2>2
<1>4. CASE ChipTakes
  <2>1. Running /\ Writes /\ taken + 1 = transfer.addr_count + transfer.data_count /\ inOrder
    BY <1>4 DEF ChipTakes, Turns, Counts, Moved
  <2>2. Byte = transfer.addr_count + transfer.data_count
    BY <2>1, PackageTyped, TransferTyped DEF Byte, Writes, Running
  <2>3. inOrder'
    BY <1>4, <2>1, <2>2 DEF ChipTakes
  <2>4. Turns' /\ Moved'
    BY <1>4, <2>1, <2>3 DEF ChipTakes, Turns, Moved, Running
  <2>5. Counts'
    BY <1>1, <1>4, <2>1 DEF ChipTakes, Counts, Writes
  <2> QED BY <1>2, <2>4, <2>5
<1>5. CASE ChipGives
  <2>1. Running /\ Reads /\ given = transfer.data_count /\ inOrder
    BY <1>5 DEF ChipGives, Turns, Counts, Moved
  <2>2. Turns' /\ Moved'
    BY <1>5, <2>1 DEF ChipGives, Turns, Moved, Running
  <2>3. Counts'
    BY <1>1, <1>5, <2>1 DEF ChipGives, Counts, Reads
  <2> QED BY <1>2, <2>2, <2>3
<1>6. CASE ChipRefuses
  <2>1. Turns' /\ Counts' /\ Moved'
    BY <1>6 DEF ChipRefuses, Turns, Counts, Moved, Complete, Running
  <2> QED BY <1>2, <2>1
<1>7. CASE BusStops
  <2>1. flag = "none" /\ ~Running
    BY <1>7 DEF BusStops, Turns
  <2>2. Turns' /\ Counts' /\ Moved'
    BY <1>1, <1>7, <2>1 DEF BusStops, Turns, Counts, Moved, Complete, Running
  <2> QED BY <1>2, <2>2
<1> QED BY <1>3, <1>4, <1>5, <1>6, <1>7 DEF Bus

LEMMA NextInv == IInv /\ [Next]_vars => IInv'
<1> SUFFICES ASSUME IInv, [Next]_vars PROVE IInv'
  OBVIOUS
<1>1. CASE UNCHANGED vars
  BY <1>1 DEF IInv, TypeOK, Turns, Counts, Writes, Reads, Moved, Complete, Running, pkg, vars
<1>2. CASE Main
  BY <1>2, AcquireInv, StatusSetInv, ReleaseInv DEF Main
<1>3. CASE Interrupt
  BY <1>3, ErrorInv, WrittenInv, ReadByteInv DEF Interrupt
<1> QED BY <1>1, <1>2, <1>3, SetupInv, CallInv, BusInv DEF Next

THEOREM Inductive == Spec => []IInv
  BY InitInv, NextInv, PTL DEF Spec

\* A transfer that twi_master_transfer reports as done has moved every byte of its
\* package in order, however many address bytes and data it has, and whatever
\* the bus did before.
THEOREM SuccessMeansMoved == Spec => []TransferComplete
<1>1. IInv => TransferComplete
  BY DEF IInv, Moved, Complete, TransferComplete
<1> QED BY <1>1, Inductive, PTL

\* twim_interrupt_handler runs for the transfer that is under way, and for no
\* other: the one descriptor serves both buses.
THEOREM InterruptsBelong == Spec => []OneEventPending
<1>1. IInv => OneEventPending
  BY DEF IInv, TypeOK, Turns, Running, OneEventPending
<1> QED BY <1>1, Inductive, PTL

-----------------------------------------------------------------------------
(***************************************************************************)
(* The readings of the level sensor.                                       *)
(***************************************************************************)

\* What is left to be stored, in either order.
IndexDue == {<<"index", "half", "value">>, <<"half", "value", "index">>, <<"value", "index">>, <<"index">>}
IndexDone == {<<"half", "value">>, <<"value">>}

Stored ==
  /\ made \in Nat /\ index \in Places /\ slot \in Places
  /\ left \in IndexDue \cup IndexDone \cup {<<>>}
  /\ ~raced => /\ left = <<>> => index = made % Slots
               /\ left # <<>> => made > 0 /\ slot = (made - 1) % Slots
               /\ left \in IndexDue => index = slot
               /\ left \in IndexDone => index = (slot + 1) % Slots

-----------------------------------------------------------------------------
LEMMA RemainderUnique ==
  ASSUME NEW S \in Nat \ {0}, NEW q \in Int, NEW r \in 0..(S - 1)
  PROVE  (S * q + r) % S = r
  OBVIOUS

\* The index after a reading is that of one reading more.
LEMMA NextIndex ==
  ASSUME NEW S \in Nat \ {0}, NEW a \in Nat
  PROVE  /\ a % S \in 0..(S - 1)
         /\ ((a % S) + 1) % S = (a + 1) % S
<1> DEFINE q == a \div S
           r == a % S
<1>1. q \in Int /\ r \in 0..(S - 1) /\ a = S * q + r
  OBVIOUS
<1> HIDE DEF q, r
<1>2. CASE r + 1 < S
  <2>1. r + 1 \in 0..(S - 1) /\ a + 1 = S * q + (r + 1)
    BY <1>1, <1>2
  <2>2. (a + 1) % S = r + 1
    BY <1>1, <2>1, RemainderUnique
  <2>3. (r + 1) % S = r + 1
    BY <2>1
  <2> QED BY <1>1, <2>2, <2>3 DEF r
<1>3. CASE r + 1 = S
  <2>1. a + 1 = S * (q + 1) + 0 /\ q + 1 \in Int /\ 0 \in 0..(S - 1)
    BY <1>1, <1>3
  <2>2. (a + 1) % S = 0
    BY <2>1, RemainderUnique
  <2>3. (r + 1) % S = 0
    BY <1>3
  <2> QED BY <1>1, <2>2, <2>3 DEF r
<1> QED BY <1>1, <1>2, <1>3

LEMMA Shorter ==
  /\ Tail(<<"index", "half", "value">>) = <<"half", "value">>
  /\ Tail(<<"half", "value", "index">>) = <<"value", "index">>
  /\ Tail(<<"half", "value">>) = <<"value">>
  /\ Tail(<<"value", "index">>) = <<"index">>
  /\ Tail(<<"value">>) = <<>> /\ Tail(<<"index">>) = <<>>
  /\ Head(<<"index", "half", "value">>) = "index" /\ Head(<<"index">>) = "index"
  /\ Head(<<"half", "value", "index">>) = "half" /\ Head(<<"half", "value">>) = "half"
  /\ Head(<<"value", "index">>) = "value" /\ Head(<<"value">>) = "value"
  OBVIOUS

\* The index is due, or done, or there is nothing to store.
LEMMA Apart ==
  /\ \A s \in IndexDue : s # <<>> /\ s \notin IndexDone
  /\ \A s \in IndexDone : s # <<>>
<1>1. /\ Len(<<"index", "half", "value">>) = 3 /\ Len(<<"half", "value", "index">>) = 3
      /\ Len(<<"half", "value">>) = 2 /\ Len(<<"value", "index">>) = 2
      /\ Len(<<"value">>) = 1 /\ Len(<<"index">>) = 1 /\ Len(<<>>) = 0
  OBVIOUS
<1>2. \A s \in IndexDue \cup IndexDone : Len(s) # 0
  BY <1>1 DEF IndexDue, IndexDone
<1>3. <<"value", "index">> # <<"half", "value">> /\ <<"index">> # <<"value">>
  BY Shorter
<1>4. \A s \in IndexDue : s \notin IndexDone
  BY <1>1, <1>3 DEF IndexDue, IndexDone
<1> QED BY <1>1, <1>2, <1>4

-----------------------------------------------------------------------------
LEMMA MeasureStored ==
  ASSUME Slots \in Nat \ {0}, Stored, Measure
  PROVE  Stored'
<1> USE DEF Stored, Measure
<1>1. left' \in {<<"index", "half", "value">>, <<"half", "value", "index">>}
  BY DEF Orders
<1>2. left' \in IndexDue /\ left' # <<>> /\ left' \notin IndexDone
  BY <1>1, Apart DEF IndexDue
<1>3. made' = made + 1 /\ made' \in Nat /\ made' > 0 /\ made' - 1 = made
  OBVIOUS
<1>4. slot' = index /\ index' = index /\ raced' = raced /\ left = <<>>
  OBVIOUS
<1> QED BY <1>2, <1>3, <1>4

LEMMA StoreStored ==
  ASSUME Slots \in Nat \ {0}, Stored, Store
  PROVE  Stored'
<1> USE Shorter DEF Stored
<1>1. /\ left # <<>> /\ left' = Tail(left)
      /\ slot' = slot /\ made' = made /\ raced' = raced
      /\ IF Head(left) = "index" THEN index' = (slot + 1) % Slots ELSE index' = index
  BY DEF Store, IndexDue, IndexDone
<1>2. (slot + 1) % Slots \in Places
  BY DEF Places
<1>3. ~raced => (slot + 1) % Slots = made % Slots
  <2>1. ~raced => made > 0 /\ slot = (made - 1) % Slots
    BY <1>1
  <2>2. ASSUME made > 0, slot = (made - 1) % Slots
        PROVE  (slot + 1) % Slots = made % Slots
    <3>1. made - 1 \in Nat /\ (made - 1) + 1 = made
      BY <2>2
    <3>2. (((made - 1) % Slots) + 1) % Slots = ((made - 1) + 1) % Slots
      BY <3>1, NextIndex
    <3> QED BY <2>2, <3>1, <3>2
  <2> QED BY <2>1, <2>2
<1>4. CASE left \in {<<"index", "half", "value">>, <<"index">>}
  <2>1. index' = (slot + 1) % Slots /\ left' \in {<<"half", "value">>, <<>>}
    BY <1>1, <1>4
  <2>2. left' \in IndexDone \cup {<<>>} /\ left' \notin IndexDue
    BY <2>1, Apart DEF IndexDone
  <2> QED BY <1>1, <1>2, <1>3, <2>1, <2>2
<1>5. CASE left \in {<<"half", "value", "index">>, <<"value", "index">>}
  <2>1. index' = index /\ left' \in {<<"value", "index">>, <<"index">>}
    BY <1>1, <1>5
  <2>2. left \in IndexDue /\ left' \in IndexDue /\ left' \notin IndexDone /\ left' # <<>>
    BY <1>5, <2>1, Apart DEF IndexDue
  <2> QED BY <1>1, <2>1, <2>2
<1>6. CASE left \in IndexDone
  <2>1. index' = index /\ left' \in {<<"value">>, <<>>}
    BY <1>1, <1>6 DEF IndexDone
  <2>2. left' \in IndexDone \cup {<<>>} /\ left' \notin IndexDue
    BY <2>1, Apart DEF IndexDone
  <2> QED BY <1>1, <1>3, <1>6, <2>1, <2>2
<1> QED BY <1>1, <1>4, <1>5, <1>6 DEF IndexDue

LEMMA TickStored ==
  ASSUME Slots \in Nat \ {0}, Stored, Tick
  PROVE  Stored'
<1>1. /\ index' = 0 /\ made' = 0 /\ left' = left /\ slot' = slot
      /\ raced' = (left # <<>>)
  BY DEF Tick, IndexReset
<1>2. 0 \in Places /\ 0 % Slots = 0
  BY DEF Places
<1>3. ~raced' => left = <<>>
  BY <1>1
<1>4. <<>> \notin IndexDue \cup IndexDone
  BY DEF IndexDue, IndexDone
<1> QED BY <1>1, <1>2, <1>3, <1>4 DEF Stored

THEOREM StoredInvariant == SensorSpec => []Stored
<1>1. SensorInit => Stored
  BY LevelSensorAssumption DEF SensorInit, Stored, Places, IndexDue, IndexDone
<1>2. Stored /\ [SensorNext]_sensorVars => Stored'
  <2> SUFFICES ASSUME Stored, [SensorNext]_sensorVars PROVE Stored'
    OBVIOUS
  <2>1. CASE SensorNext
    BY <2>1, LevelSensorAssumption, MeasureStored, StoreStored, TickStored DEF SensorNext
  <2>2. CASE UNCHANGED sensorVars
    BY <2>2 DEF Stored, sensorVars
  <2> QED BY <2>1, <2>2
<1> QED BY <1>1, <1>2, PTL DEF SensorSpec

\* Unless a tick came between the stores of a reading, the buffer is filled without
\* a gap: the reading that follows finds its index right behind those made since
\* the statistics, whichever order of the stores the compiler has chosen.
THEOREM ReadingsAreKept == SensorSpec => []ReadingsKept
<1>1. Stored => ReadingsKept
  BY DEF Stored, ReadingsKept
<1> QED BY <1>1, StoredInvariant, PTL

\* MB7040_getStats in the tick counts, between two readings that no tick has raced
\* with, the readings since the statistics before, modulo the 256 that g_index can
\* tell: the part of StatisticsTrue that the values of the readings have no say in.
CountTrue ==
  [][stats' # Nothing /\ left = <<>> /\ ~raced => stats'.n = made % Slots]_sensorVars

THEOREM StatisticsCountReadings == SensorSpec => CountTrue
<1>1. ASSUME Stored, SensorNext, stats' # Nothing, left = <<>>, ~raced
      PROVE  stats'.n = made % Slots
  <2>1. CASE Tick
    <3>1. index = made % Slots
      BY <1>1 DEF Stored
    <3>2. (IF index = 0 THEN [n |-> 0] ELSE Statistics(index)).n = index
      BY DEF Statistics
    <3> QED BY <2>1, <3>1, <3>2 DEF Tick
  <2>2. CASE Measure \/ Store
    BY <1>1, <2>2 DEF Measure, Store
  <2> QED BY <1>1, <2>1, <2>2 DEF SensorNext
<1>2. Stored /\ [SensorNext]_sensorVars
        => [stats' # Nothing /\ left = <<>> /\ ~raced => stats'.n = made % Slots]_sensorVars
  BY <1>1
<1> QED BY <1>2, StoredInvariant, PTL DEF SensorSpec, CountTrue

-----------------------------------------------------------------------------
\* MB7040_getStats: what is left of the window between its two quartiles is not
\* empty, so that no mean divides by zero, as long as the readings are less than
\* Parts / 2 windows, 96 of the code's: the quartile is one of all the readings,
\* the window is only the last of them.
THEOREM WindowLeft ==
  ASSUME Window \in Nat, Parts \in Nat, Parts > 2,
         NEW n \in Nat, n > 0, 2 * n < Parts * Window
  PROVE  /\ WindowFirst(n) >= 0 /\ WindowFirst(n) <= WindowStart(n)
         /\ WindowStart(n) < WindowEnd(n) /\ WindowEnd(n) <= n
<1> DEFINE q == Quartile(n)
<1>1. q \in Nat /\ Parts * q <= n
  BY DEF Quartile
<1> HIDE DEF q
<1>2. 2 * q < Window
  <2>1. SUFFICES ASSUME 2 * q >= Window PROVE FALSE
    BY <1>1
  <2>2. Parts * (2 * q) >= Parts * Window
    BY <1>1, <2>1
  <2>3. Parts * (2 * q) = 2 * (Parts * q)
    BY <1>1
  <2> QED BY <1>1, <2>2, <2>3
<1>3. 2 * q < n
  <2>1. CASE q = 0
    BY <2>1
  <2>2. CASE q > 0
    <3>1. Parts * q >= 3 * q
      BY <1>1
    <3> QED BY <1>1, <2>2, <3>1
  <2> QED BY <1>1, <2>1, <2>2
<1>4. WindowFirst(n) = IF n >= Window THEN n - Window ELSE 0
  BY DEF WindowFirst
<1>5. WindowStart(n) = WindowFirst(n) + q /\ WindowEnd(n) = n - q
  BY DEF WindowStart, WindowEnd, q
<1> QED BY <1>1, <1>2, <1>3, <1>4, <1>5

\* From that many readings on nothing is left.
THEOREM WindowGone ==
  ASSUME Parts \in Nat \ {0}, NEW half \in Nat, Window = 2 * half,
         NEW n \in Nat, n >= Parts * half, n >= Window
  PROVE  WindowStart(n) >= WindowEnd(n)
<1> DEFINE q == Quartile(n)
<1>1. q \in Nat /\ n < Parts * (q + 1)
  BY DEF Quartile
<1> HIDE DEF q
<1>2. q >= half
  <2>1. SUFFICES ASSUME q + 1 <= half PROVE FALSE
    BY <1>1
  <2>2. Parts * (q + 1) <= Parts * half
    BY <1>1, <2>1
  <2>3. Parts * (q + 1) \in Nat /\ Parts * half \in Nat
    BY <1>1
  <2> QED BY <1>1, <2>2, <2>3
<1>3. WindowStart(n) = (n - Window) + q /\ WindowEnd(n) = n - q
  BY DEF WindowStart, WindowEnd, WindowFirst, q
<1> QED BY <1>1, <1>2, <1>3
=============================================================================
