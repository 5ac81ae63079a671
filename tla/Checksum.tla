------------------------------ MODULE Checksum ------------------------------
(***************************************************************************)
(* snapshotChecksum, an XXH64 (src/yuca/snapshot_checksum.h), one pass of  *)
(* a loop per step, over a saved input and one that differs in a byte.     *)
(*                                                                         *)
(* A word has 8 bits instead of 64, a byte 2 instead of 8: a lane is a     *)
(* word of 4 bytes, a half lane 2 of them, a block 4 lanes.  Primes are    *)
(* the code's modulo 2^8, rotations and shifts an eighth, rounded up.      *)
(***************************************************************************)
EXTENDS Integers, Sequences

CONSTANTS
    MaxSize,  \* bound: the size of an input
    Cycles    \* bound: the contents of an input, repeated

Byte == 0..3
LaneBytes == 4
HalfBytes == 2
BlockBytes == 16
WordSize == 256

ASSUME ChecksumAssumption == MaxSize \in 0..(WordSize - 1) /\ Cycles \subseteq Seq(Byte) \ {<<>>}

P1 == 135
P2 == 79
P3 == 249
P4 == 99
P5 == 197

VARIABLES
    size,
    bytes,     \* the two inputs
    changed,   \* the place where they differ
    position,  \* bytes read
    v,         \* v1 to v4, for each input
    result,    \* for each input
    stage,     \* the loop it is in
    consumed   \* history: the places read, in order

checksumVars == <<size, bytes, changed, position, v, result, stage, consumed>>

Inputs == {"saved", "read"}

ChecksumInit ==
    /\ size \in 1..MaxSize
    /\ changed \in 1..size
    /\ \E cycle \in Cycles, new \in Byte :
        LET saved == [i \in 1..size |-> cycle[1 + (i % Len(cycle))]]
        IN /\ saved[changed] # new
           /\ bytes = [t \in Inputs |-> IF t = "saved" THEN saved ELSE [saved EXCEPT ![changed] = new]]
    /\ position = 0
    /\ v = [t \in Inputs |-> <<(P1 + P2) % WordSize, P2, 0, WordSize - P1>>]
    /\ result = [t \in Inputs |-> 0]
    /\ stage = "blocks"
    /\ consumed = <<>>

-----------------------------------------------------------------------------
Word == 0..(WordSize - 1)

Plus(a, b) == (a + b) % WordSize
Times(a, b) == (a * b) % WordSize

\* a ^ b, bit by bit
Xor[a \in Word] ==
    [b \in Word |-> IF a = 0 /\ b = 0 THEN 0 ELSE ((a + b) % 2) + 2 * Xor[a \div 2][b \div 2]]

rotate64(value, bits) == ((value * 2^bits) % WordSize) + (value \div 2^(8 - bits))

\* Mutant: the loop stops a byte early.
LittleButOne(t, at, count) ==
    LET Value[i \in 0..count] ==
            IF i = 0 THEN 0 ELSE Value[i - 1] + (bytes[t][at + i] * 4^(i - 1))
    IN Value[count - 1]

\* The next bytes as a number, the lowest first.
readLittle(t, at, count) ==
    LET Value[i \in 0..count] ==
            IF i = 0 THEN 0 ELSE Value[i - 1] + (bytes[t][at + i] * 4^(i - 1))
    IN Value[count]

xxRound(accumulator, value) ==
    Times(rotate64(Plus(accumulator, Times(value, P2)), 4), P1)

xxMerge(accumulator, value) ==
    Plus(Times(Xor[accumulator][xxRound(0, value)], P1), P4)

\* size - position, unsigned
Remaining == (size - position) % WordSize

Consume(count) ==
    /\ position' = position + count
    /\ consumed' = consumed \o [i \in 1..count |-> position + i]
    /\ UNCHANGED <<size, bytes, changed, v>>

\* The loop ends, or its step is skipped.
GoOn(next) ==
    /\ stage' = next
    /\ UNCHANGED <<size, bytes, changed, position, v, consumed>>

-----------------------------------------------------------------------------
\* Mutant: every lane reads the same bytes.
SameLane(i) == position

\* The first byte of lane i of the next block.
LaneStart(i) == position + (i - 1) * LaneBytes

Block ==
    /\ stage = "blocks"
    /\ Remaining >= BlockBytes
    /\ v' = [t \in Inputs |->
              [i \in 1..4 |-> xxRound(v[t][i], readLittle(t, LaneStart(i), LaneBytes))]]
    /\ position' = position + BlockBytes
    /\ consumed' = consumed \o
         [j \in 1..BlockBytes |-> LaneStart(1 + ((j - 1) \div LaneBytes)) + 1 + ((j - 1) % LaneBytes)]
    /\ UNCHANGED <<size, bytes, changed, result, stage>>

\* The lanes of all blocks, rotated, added and merged.
Merged(lanes) ==
    LET sum == Plus(Plus(rotate64(lanes[1], 1), rotate64(lanes[2], 1)),
                    Plus(rotate64(lanes[3], 2), rotate64(lanes[4], 3)))
    IN xxMerge(xxMerge(xxMerge(xxMerge(sum, lanes[1]), lanes[2]), lanes[3]), lanes[4])

EndBlocks ==
    /\ stage = "blocks"
    /\ Remaining < BlockBytes
    /\ result' = [t \in Inputs |-> Plus(IF size >= BlockBytes THEN Merged(v[t]) ELSE P5, size)]
    /\ GoOn("lanes")

\* A lane left over by the blocks.
LeftLane ==
    /\ stage = "lanes"
    /\ Remaining >= LaneBytes
    /\ result' = [t \in Inputs |->
         LET lane == xxRound(0, readLittle(t, position, LaneBytes))
         IN Plus(Times(rotate64(Xor[result[t]][lane], 4), P1), P4)]
    /\ Consume(LaneBytes)
    /\ UNCHANGED stage

EndLanes ==
    /\ stage = "lanes"
    /\ Remaining < LaneBytes
    /\ GoOn("half")
    /\ UNCHANGED result

HalfLane ==
    /\ stage = "half"
    /\ Remaining >= HalfBytes
    /\ result' = [t \in Inputs |->
         LET half == Times(readLittle(t, position, HalfBytes), P1)
         IN Plus(Times(rotate64(Xor[result[t]][half], 3), P2), P3)]
    /\ Consume(HalfBytes)
    /\ stage' = "bytes"

NoHalfLane ==
    /\ stage = "half"
    /\ Remaining < HalfBytes
    /\ GoOn("bytes")
    /\ UNCHANGED result

LastByte ==
    /\ stage = "bytes"
    /\ position # size
    /\ result' = [t \in Inputs |->
         LET byte == Times(bytes[t][position + 1], P5)
         IN Times(rotate64(Xor[result[t]][byte], 2), P1)]
    /\ Consume(1)
    /\ UNCHANGED stage

Shifted(word, bits) == Xor[word][word \div 2^bits]

Avalanche(word) == Shifted(Times(Shifted(Times(Shifted(word, 5), P2), 4), P3), 4)

EndBytes ==
    /\ stage = "bytes"
    /\ position = size
    /\ result' = [t \in Inputs |-> Avalanche(result[t])]
    /\ GoOn("done")

ChecksumNext ==
    \/ Block \/ EndBlocks
    \/ LeftLane \/ EndLanes
    \/ HalfLane \/ NoHalfLane
    \/ LastByte \/ EndBytes

ChecksumSpec == ChecksumInit /\ [][ChecksumNext]_checksumVars

-----------------------------------------------------------------------------
(* Properties *)

\* For every size the loops read each byte exactly once, from the first to the
\* last, and never one beyond the end, which is what an unsigned difference
\* that wraps would lead to.
EveryByteOnce ==
    /\ consumed = [i \in 1..position |-> i]
    /\ position <= size
    /\ stage = "done" => position = size

\* A byte that a load reads wrong never goes unnoticed when it lies behind the
\* last block: every step from there on is a bijection of the result.
ChangeIsDetected ==
    stage = "done" /\ changed > size - (size % BlockBytes) => result["saved"] # result["read"]
=============================================================================
