------------------------------ MODULE Transfer ------------------------------
(***************************************************************************)
(* Reception of a program over COM2 (command_kern/transfer.c): a host      *)
(* sends frames -- magic, size, data --, the port holds a few bytes, and   *)
(* each `load' of the shell reads one frame into a block of the heap,      *)
(* which the programs that run between two loads use as well.              *)
(*                                                                         *)
(* Nothing ties the host to the shell: frames may be sent before anyone    *)
(* asks for them, be cut short, or carry a wrong magic or size.            *)
(*                                                                         *)
(* What becomes of the data once it is received is in module Load.         *)
(***************************************************************************)
EXTENDS Integers, SequencesExt

CONSTANTS
  BASE,           \* number of values of a byte
  MAGIC,          \* "KELF"
  SIZE_BYTES,     \* bytes of the size field
  KELF_MAX_SIZE,
  Address,        \* the bytes of memory
  HEAP_BASE,      \* the first byte heap_sbrk hands out
  HEAP,           \* how many it can hand out in all
  FIFO,           \* bytes the port holds
  Sendings,       \* what a host sends, one after the other
  MaxSent         \* bound: how many of them

Byte == 0 .. (BASE - 1)
HeapLimit == HEAP_BASE + HEAP

ASSUME TransferAssumption ==
  /\ BASE \in Nat \ {0}
  /\ SIZE_BYTES \in Nat
  /\ KELF_MAX_SIZE \in Nat
  /\ HEAP_BASE \in Nat /\ HEAP \in Nat \ {0}
  /\ Address \subseteq Nat /\ HEAP_BASE .. (HeapLimit - 1) \subseteq Address
  /\ FIFO \in Nat \ {0}
  /\ MAGIC \in Seq(Byte) /\ MAGIC # <<>>
  /\ Sendings \subseteq Seq(Byte)

Reception == [ok : BOOLEAN, addr : Nat, size : Nat, room : Nat]

VARIABLES
  wire,             \* sent, not yet in the port
  fifo,             \* in the port
  com2_initialized,
  pc,               \* "prompt", the field being read, or a step of Load
  got,              \* what this com2_recv_buf has read
  buf, size,        \* the block of this load
  mem,
  heap_cur,
  sent,             \* history: what the host has sent
  loads,            \* history: the receptions so far, with the room each found
  taken,            \* history: what this load has read
  room,             \* history: bytes left in the heap when this load began
  dropped           \* history: com2_init has thrown bytes away

port == <<wire, fifo, com2_initialized, dropped>>
heap == <<mem, heap_cur>>
load == <<pc, got, buf, size, room, taken>>
transfer == <<port, heap, load, sent, loads>>

----------------------------------------------------------------------------
TransferInit ==
  /\ wire = <<>> /\ fifo = <<>> /\ com2_initialized = FALSE
  /\ pc = "prompt" /\ got = <<>> /\ buf = HEAP_BASE /\ size = 0
  /\ mem = [a \in Address |-> 0] /\ heap_cur = HEAP_BASE
  /\ sent = <<>> /\ loads = <<>> /\ taken = <<>> /\ room = 0 /\ dropped = FALSE

Receiving == pc \in {"magic", "size", "data"}

\* The bytes com2_recv_buf is asked for.
Wanted == CASE pc = "magic" -> Len(MAGIC)
            [] pc = "size"  -> SIZE_BYTES
            [] pc = "data"  -> size

\* The size field, least significant byte first.
Value(b) == FoldRight(LAMBDA x, v : x + BASE * v, b, 0)

----------------------------------------------------------------------------
(* The host and the port, which holds the host back when it is full.       *)

HostSends(f) == /\ Len(sent) < MaxSent
                /\ sent' = Append(sent, f)
                /\ wire' = wire \o f
                /\ UNCHANGED <<fifo, com2_initialized, dropped, heap, load, loads>>

Arrive == /\ wire # <<>> /\ Len(fifo) < FIFO
          /\ fifo' = Append(fifo, Head(wire))
          /\ wire' = Tail(wire)
          /\ UNCHANGED <<com2_initialized, dropped, heap, load, sent, loads>>

----------------------------------------------------------------------------
(* The shell: transfer_recv_elf.                                           *)

\* com2_init clears the port.
PortInit_EveryTime == fifo' = <<>>
PortInit == fifo' = IF com2_initialized THEN fifo ELSE <<>>

LoadCommand == /\ pc = "prompt"
               /\ PortInit
               /\ com2_initialized' = TRUE
               /\ dropped' = (dropped \/ (~com2_initialized /\ fifo # <<>>))
               /\ pc' = "magic" /\ got' = <<>> /\ taken' = <<>>
               /\ room' = HeapLimit - heap_cur
               /\ UNCHANGED <<wire, heap, buf, size, sent, loads>>

\* com2_recv_byte, as soon as a byte is there.
RecvByte_WhenFull ==
  /\ Receiving /\ Len(got) < Wanted /\ Len(fifo) = FIFO
  /\ fifo' = Tail(fifo)
  /\ got' = Append(got, Head(fifo)) /\ taken' = Append(taken, Head(fifo))
  /\ mem' = IF pc = "data" THEN [mem EXCEPT ![buf + Len(got)] = Head(fifo)] ELSE mem
  /\ UNCHANGED <<wire, com2_initialized, dropped, heap_cur, pc, buf, size, room, sent, loads>>
RecvByte ==
  /\ Receiving /\ Len(got) < Wanted /\ fifo # <<>>
  /\ fifo' = Tail(fifo)
  /\ got' = Append(got, Head(fifo)) /\ taken' = Append(taken, Head(fifo))
  /\ mem' = IF pc = "data" THEN [mem EXCEPT ![buf + Len(got)] = Head(fifo)] ELSE mem
  /\ UNCHANGED <<wire, com2_initialized, dropped, heap_cur, pc, buf, size, room, sent, loads>>

Done(ok, next) ==
  /\ loads' = Append(loads, [ok |-> ok, addr |-> buf, size |-> size, room |-> room])
  /\ pc' = next
  /\ UNCHANGED <<port, heap, got, buf, size, room, taken, sent>>

MagicRead == pc = "magic" /\ Len(got) = Wanted

AcceptMagic_FirstByte == /\ MagicRead
                         /\ Head(got) = Head(MAGIC)
                         /\ pc' = "size" /\ got' = <<>>
                         /\ UNCHANGED <<port, heap, buf, size, room, taken, sent, loads>>
AcceptMagic == /\ MagicRead
               /\ got = MAGIC
               /\ pc' = "size" /\ got' = <<>>
               /\ UNCHANGED <<port, heap, buf, size, room, taken, sent, loads>>

RefuseMagic == MagicRead /\ got # MAGIC /\ Done(FALSE, "prompt")

SizeRead == pc = "size" /\ Len(got) = Wanted
InRange(n) == n \in 1 .. KELF_MAX_SIZE

Granted_LimitOff(n) == heap_cur + n <= HeapLimit + 1
Granted(n) == heap_cur + n <= HeapLimit

Taken_OneShort(n) == heap_cur' = heap_cur + n - 1
Taken(n) == heap_cur' = heap_cur + n

AcceptSize == /\ SizeRead
              /\ InRange(Value(got)) /\ Granted(Value(got))
              /\ size' = Value(got)
              /\ buf' = heap_cur
              /\ Taken(size')
              /\ pc' = "data" /\ got' = <<>>
              /\ UNCHANGED <<port, mem, room, taken, sent, loads>>

RefuseSize == /\ SizeRead
              /\ ~(InRange(Value(got)) /\ Granted(Value(got)))
              /\ Done(FALSE, "prompt")

DataRead == pc = "data" /\ Len(got) = Wanted /\ Done(TRUE, "elf")

Receives == \/ RecvByte \/ AcceptMagic \/ RefuseMagic
            \/ AcceptSize \/ RefuseSize \/ DataRead

----------------------------------------------------------------------------
(* The shape of the state; whatever the size field says, the block being   *)
(* filled lies inside the heap.                                            *)
TransferTypeOK ==
  /\ wire \in Seq(Byte)
  /\ fifo \in Seq(Byte) /\ Len(fifo) <= FIFO
  /\ com2_initialized \in BOOLEAN /\ dropped \in BOOLEAN
  /\ got \in Seq(Byte) /\ taken \in Seq(Byte)
  /\ (Receiving => Len(got) <= Wanted)
  /\ mem \in [Address -> Byte]
  /\ heap_cur \in HEAP_BASE .. HeapLimit /\ room \in 0 .. HEAP
  /\ buf \in HEAP_BASE .. heap_cur /\ size \in 0 .. KELF_MAX_SIZE /\ buf + size <= heap_cur
  /\ sent \in Seq(Sendings)
  /\ loads \in Seq(Reception)

----------------------------------------------------------------------------
Header == Len(MAGIC) + SIZE_BYTES
SizeField(f) == SubSeq(f, Len(MAGIC) + 1, Header)
Data(f) == SubSeq(f, Header + 1, Len(f))

\* What transfer.h asks of a sender.
WellFormed(f) == /\ Len(f) > Header
                 /\ SubSeq(f, 1, Len(MAGIC)) = MAGIC
                 /\ Value(SizeField(f)) = Len(Data(f))
                 /\ Len(Data(f)) <= KELF_MAX_SIZE

Contents(l) == [n \in 1 .. l.size |-> mem[l.addr + n - 1]]

(***************************************************************************)
(* As long as the host keeps to the protocol, each load gives the shell    *)
(* the frame that belongs to it, byte for byte and for as long as the      *)
(* shell runs; it is refused only if the heap has no room -- even if the   *)
(* host is frames ahead of the shell, provided no byte was in the port     *)
(* when the first load cleared it.                                         *)
(***************************************************************************)
FramesReceived ==
  \A i \in DOMAIN loads \cap DOMAIN sent :
    /\ ~dropped
    /\ \A j \in 1 .. i : WellFormed(sent[j])
    /\ \A j \in 1 .. (i - 1) : loads[j].ok
    => IF Len(Data(sent[i])) <= loads[i].room
         THEN loads[i].ok /\ Contents(loads[i]) = Data(sent[i])
         ELSE ~loads[i].ok

BlocksSame == \A i \in DOMAIN loads :
                loads[i].ok => Contents(loads[i]) = Contents(loads[i])'

(***************************************************************************)
(* Whatever the host sends, neither a later load nor a program writes into *)
(* what an earlier load received.                                          *)
(***************************************************************************)
BuffersKept == [][BlocksSame]_transfer
============================================================================
