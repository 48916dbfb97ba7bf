----------------------------- MODULE FrameStream -----------------------------
(***************************************************************************)
(* What the KELF protocol promises (transfer.h): the bytes from the host   *)
(* are one stream, and each request takes from its front either one whole  *)
(* frame, whose data is the outcome, or the part of it that shows that it  *)
(* is none, with outcome <<>>.  The stream is not searched for the next    *)
(* magic after a bad frame.                                                *)
(***************************************************************************)
EXTENDS Integers, SequencesExt

CONSTANTS BASE, MAGIC, SIZE_BYTES, KELF_MAX_SIZE

VARIABLES
  stream,    \* bytes of the host nobody has taken
  waiting,   \* a request is being served
  opened,    \* there has been a request
  outcomes   \* what each request so far was given

fvars == <<stream, waiting, opened, outcomes>>

Header == Len(MAGIC) + SIZE_BYTES

\* A size is sent with its least significant byte first.
SizeOf(field) == MapThenSumSet(LAMBDA k : field[k] * BASE ^ (k - 1), 1 .. SIZE_BYTES)

\* The size that the header at the front announces.
Announced == SizeOf(SubSeq(stream, Len(MAGIC) + 1, Header))

BadMagic == /\ Len(stream) >= Len(MAGIC)
            /\ ~IsPrefix(MAGIC, stream)
Headed == Len(stream) >= Header /\ IsPrefix(MAGIC, stream)
GoodSize == 0 < Announced /\ Announced <= KELF_MAX_SIZE
Whole == Headed /\ GoodSize /\ Len(stream) >= Header + Announced

Init == stream = <<>> /\ waiting = FALSE /\ opened = FALSE /\ outcomes = <<>>

Send == IsPrefix(stream, stream') /\ UNCHANGED <<waiting, opened, outcomes>>

\* The first request may find the port holding bytes, which it throws away.
Ask == /\ ~waiting /\ waiting'
       /\ opened'
       /\ IF opened THEN stream' = stream ELSE IsSuffix(stream', stream)
       /\ UNCHANGED outcomes

Give(outcome, n) == /\ waiting /\ ~waiting'
                    /\ outcomes' = Append(outcomes, outcome)
                    /\ stream' = SubSeq(stream, n + 1, Len(stream))
                    /\ UNCHANGED opened

RefuseMagic == BadMagic /\ Give(<<>>, Len(MAGIC))

\* A size out of range, or one for which there is no memory.
RefuseSize == Headed /\ Give(<<>>, Header)

GiveFrame == /\ Whole
             /\ Give(SubSeq(stream, Header + 1, Header + Announced), Header + Announced)

Next == Send \/ Ask \/ RefuseMagic \/ RefuseSize \/ GiveFrame

Answerable == waiting /\ (BadMagic \/ (Headed /\ ~GoodSize) \/ Whole)
Answered == ~waiting

Safety == Init /\ [][Next]_fvars

\* A request is answered once the stream shows what is at its front.
Spec == Safety /\ (Answerable ~> Answered)
============================================================================
