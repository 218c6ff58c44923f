------------------------------- MODULE SHA256 -------------------------------
(***************************************************************************)
(* The SHA-256 context and SHA256Helper: the bytes of a message are        *)
(* gathered into blocks, the length is counted in two words, and the last  *)
(* block is padded.  The compression function is not computed: the         *)
(* intermediate hash is the sequence of the blocks it was applied to, so   *)
(* that equal hashes are equal blocks.  The two words of the length fill   *)
(* one cell each at the end of a block (four bytes each in the code).      *)
(***************************************************************************)
EXTENDS Integers, Sequences, SequencesExt

CONSTANTS
    BlockSize,      \* SHA256_Message_Block_Size
    LowWord,        \* 2^32: the low word of the length
    HighWord,       \* 2^32: the high word
    Pieces,         \* the strings that are given to the hash
    FinalBits,      \* pairs of a byte and a number of bits
    MaxBytes        \* bound: the length of a message

VARIABLES
    context,
    message,    \* the bytes given since the last reset
    bits,       \* the final bits given after them, or <<>>
    raw,        \* SHA256Result or SHA256FinalBits was called since then
    call        \* the last call: its code and, for a result, the blocks hashed
                \* and the message and final bits they should be of

vars == <<context, message, bits, raw, call>>

shaSuccess == 0
shaStateError == 3
LengthAt == BlockSize - 2   \* where the length begins

\* SHA224_256Reset.
Fresh ==
    [hash |-> <<>>, block |-> <<>>, high |-> 0, low |-> 0, computed |-> FALSE,
     corrupted |-> shaSuccess]

-----------------------------------------------------------------------------
ProcessMessageBlock(c) == [c EXCEPT !.hash = Append(@, c.block), !.block = <<>>]

\* SHA224_256AddLength, modulo the word; the high word wraps to zero at the end.
AddLength(c, n) ==
    LET carry == c.low + n >= LowWord
        wrapped == carry /\ (c.high + 1) % HighWord = 0
    IN  [c EXCEPT !.low = (@ + n) % LowWord,
                  !.high = IF carry THEN (@ + 1) % HighWord ELSE @,
                  !.corrupted = IF wrapped THEN 1 ELSE 0]

\* The condition of the loop of SHA256Input.
Continues(c) == c.corrupted = shaSuccess

\* One turn of the loop of SHA256Input.
AddByte(c, b) ==
    IF ~Continues(c) THEN c
    ELSE LET d == AddLength([c EXCEPT !.block = Append(@, b)], 8)
         IN  IF d.corrupted = shaSuccess /\ Len(d.block) = BlockSize
             THEN ProcessMessageBlock(d) ELSE d

\* The context after SHA256Input.
InputOf(c, data) ==
    IF data = <<>> THEN c
    ELSE IF c.computed THEN [c EXCEPT !.corrupted = shaStateError]
    ELSE FoldLeft(AddByte, c, data)

\* What SHA256Input returns: a message that becomes too long is not yet refused.
InputCode(c, data) ==
    CASE data = <<>> -> shaSuccess
      [] data # <<>> /\ c.computed -> shaStateError
      [] OTHER -> c.corrupted

Zeros(n) == [i \in 1 .. n |-> 0]

\* The padding byte and the length do not both fit into the block.
Spills(c) == Len(c.block) >= LengthAt

\* SHA224_256PadMessage.
PadMessage(c, pad) ==
    LET d == [c EXCEPT !.block = Append(@, pad)]
        e == IF Spills(c)
             THEN ProcessMessageBlock([d EXCEPT !.block = @ \o Zeros(BlockSize - Len(@))])
             ELSE d
        f == [e EXCEPT !.block = SubSeq(@ \o Zeros(LengthAt), 1, LengthAt)
                                 \o <<e.high, e.low>>]
    IN  ProcessMessageBlock(f)

\* SHA224_256Finalize.
Finalize(c, pad) == [PadMessage(c, pad) EXCEPT !.low = 0, !.high = 0, !.computed = TRUE]

\* (message_bits & masks[n]) | markbit[n].
PadByte(b, n) == (b \div 2 ^ (8 - n)) * 2 ^ (8 - n) + 2 ^ (7 - n)

\* The context after SHA256FinalBits.
FinalBitsOf(c, b, n) ==
    IF n = 0 THEN c
    ELSE IF c.computed \/ n >= 8 THEN [c EXCEPT !.corrupted = shaStateError]
    ELSE IF c.corrupted # shaSuccess THEN c
    ELSE Finalize(AddLength(c, n), PadByte(b, n))

FinalBitsCode(c, n) ==
    CASE n = 0 -> shaSuccess
      [] n > 0 /\ (c.computed \/ n >= 8) -> shaStateError
      [] OTHER -> c.corrupted

\* The context after SHA224_256ResultN.
ResultOf(c) == IF c.corrupted = shaSuccess /\ ~c.computed THEN Finalize(c, 128) ELSE c

-----------------------------------------------------------------------------
NoDigest(code) == [code |-> code, digest |-> <<>>, message |-> <<>>, bits |-> <<>>]

\* What a caller of SHA256Result sees after m and the final bits fb.
ResultCall(c, m, fb) ==
    IF c.corrupted # shaSuccess THEN NoDigest(c.corrupted)
    ELSE [code |-> shaSuccess, digest |-> ResultOf(c).hash, message |-> m, bits |-> fb]

Init ==
    /\ context = Fresh
    /\ message = <<>>
    /\ bits = <<>>
    /\ raw = FALSE
    /\ call = NoDigest(shaSuccess)

(* The calls on a context *)

Reset ==
    /\ context' = Fresh
    /\ message' = <<>>
    /\ bits' = <<>>
    /\ raw' = FALSE
    /\ call' = NoDigest(shaSuccess)

\* append of SHA256Helper is SHA256Input.
Input(data) ==
    /\ Len(message) + Len(data) <= MaxBytes
    /\ context' = InputOf(context, data)
    /\ call' = NoDigest(InputCode(context, data))
    /\ message' = IF call'.code = shaSuccess THEN message \o data ELSE message
    /\ UNCHANGED <<bits, raw>>

AddFinalBits(b, n) ==
    /\ context' = FinalBitsOf(context, b, n)
    /\ call' = NoDigest(FinalBitsCode(context, n))
    /\ bits' = IF call'.code = shaSuccess /\ n > 0 THEN <<b, n>> ELSE bits
    /\ raw' = TRUE
    /\ UNCHANGED message

Result ==
    /\ context' = ResultOf(context)
    /\ call' = ResultCall(context, message, bits)
    /\ raw' = TRUE
    /\ UNCHANGED <<message, bits>>

-----------------------------------------------------------------------------
(* SHA256Helper *)

\* The end of execute: a reset, unless there is no digest.
AfterResult(c) == IF c.corrupted = shaSuccess THEN Fresh ELSE c

execute ==
    LET done == context.corrupted = shaSuccess
    IN  /\ context' = AfterResult(context)
        /\ call' = ResultCall(context, message, bits)
        /\ message' = IF done THEN <<>> ELSE message
        /\ bits' = IF done THEN <<>> ELSE bits
        /\ raw' = (raw /\ ~done)

\* hash, of one string: a reset, the string and execute.
hashNow(data) ==
    LET c == InputOf(Fresh, data)
    IN  /\ Len(data) <= MaxBytes
        /\ context' = AfterResult(c)
        /\ message' = IF c.corrupted = shaSuccess THEN <<>> ELSE data
        /\ bits' = <<>>
        /\ raw' = FALSE
        /\ call' = ResultCall(c, data, <<>>)

\* hash, for appends to follow: a reset and the string.
hashFirst(data) ==
    /\ Len(data) <= MaxBytes
    /\ context' = InputOf(Fresh, data)
    /\ message' = data
    /\ bits' = <<>>
    /\ raw' = FALSE
    /\ call' = NoDigest(shaSuccess)

Next ==
    \/ Reset \/ Result \/ execute
    \/ \E data \in Pieces : Input(data) \/ hashNow(data) \/ hashFirst(data)
    \/ \E fb \in FinalBits : AddFinalBits(fb[1], fb[2])

Spec == Init /\ [][Next]_vars

-----------------------------------------------------------------------------
\* The padding of the standard: the message, its final bits and a one, the
\* least number of zeros, and the length in bits.
Padded(m, fb) ==
    LET n == 8 * Len(m) + IF fb = <<>> THEN 0 ELSE fb[2]
        pad == IF fb = <<>> THEN 128 ELSE PadByte(fb[1], fb[2])
        zeros == CHOOSE k \in 0 .. BlockSize - 1 : (Len(m) + 3 + k) % BlockSize = 0
    IN  m \o <<pad>> \o Zeros(zeros) \o <<n \div LowWord, n % LowWord>>

\* A digest that is given out is that of the whole message since the last reset,
\* padded as the standard says, in whatever pieces the message came.  A message
\* whose length does not fit into the two words is given no digest.
DigestOfMessage ==
    call.digest # <<>> =>
        /\ FlattenSeq(call.digest) = Padded(call.message, call.bits)
        /\ 8 * Len(call.message) < LowWord * HighWord

\* Message_Block_Index stays inside Message_Block, also when the length overflows
\* with a block that is full and was not processed.
InBounds == Len(context.block) <= BlockSize

\* SHA256Helper needs no reset between messages: as long as only its own
\* functions are called and the message is not too long, no call fails.
HelperNeverFails ==
    ~raw /\ 8 * Len(message) < LowWord * HighWord => call.code = shaSuccess
=============================================================================
