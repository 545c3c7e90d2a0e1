------------------------------- MODULE Sha256 -------------------------------
(***************************************************************************)
(* utils-crypto/sha256: how a message is cut into blocks and padded.       *)
(* Whole blocks of aligned data are hashed where they are, the rest goes   *)
(* through a buffer that every block reuses, and digest() pads in it.      *)
(*                                                                         *)
(* What a block does to the eight words of the hash is left out: a hash    *)
(* stands for the blocks it is made of.                                    *)
(***************************************************************************)
EXTENDS Integers, Sequences, SequencesExt

CONSTANTS
  InputBytes, \* of a block; the code's is 64
  Wrap,       \* the range of a word; the code's is 2^32
  MaxLength   \* bound: of a message

ASSUME Sha256Assumption ==
  /\ InputBytes \in Nat /\ InputBytes % 4 = 0 /\ InputBytes > 8
  /\ Wrap \in Nat \ {0} /\ MaxLength \in Nat

VARIABLES
  message,  \* its bytes, and whether they begin at a multiple of 4
  size,     \* how many of them have been hashed, or are in
  buffer,   \* _byte, the same memory as _word
  blocks,   \* that have been hashed
  digested

shaVars == <<message, size, buffer, blocks, digested>>

InputWords == InputBytes \div 4
HighIndex == InputWords - 2
LowIndex == InputWords - 1

\* Each byte is another, and none of those that digest adds.
Bytes(length) == [i \in 1 .. length |-> 1000 + i]

Zeros(n) == [i \in 1 .. n |-> 0]

ShaInit ==
  /\ message \in [length : 0 .. MaxLength, aligned : BOOLEAN]
  /\ size = 0
  /\ buffer = Zeros(InputBytes)
  /\ blocks = <<>>
  /\ digested = FALSE

HashesBlock(block) == blocks' = Append(blocks, block)

\* From a byte on, what there is of the message up to the end of a block.
Piece(from, room) ==
  LET last == IF from + room < message.length THEN from + room ELSE message.length
  IN  SubSeq(Bytes(message.length), from + 1, last)

\* update, which is called once: a block as it is in the data.
HashWhole ==
  /\ ~digested
  /\ message.aligned
  /\ size % InputBytes = 0
  /\ size + InputBytes <= message.length
  /\ HashesBlock(Piece(size, InputBytes))
  /\ size' = size + InputBytes
  /\ UNCHANGED <<message, buffer, digested>>

Filled(start, piece) ==
  [i \in 1 .. InputBytes |->
     IF i \in start + 1 .. start + Len(piece) THEN piece[i - start] ELSE buffer[i]]

\* _uint8: into the buffer, which is hashed when it is full.
FillBuffer ==
  /\ ~digested
  /\ size < message.length
  /\ message.aligned => size + InputBytes > message.length
  /\ LET start == size % InputBytes
         piece == Piece(size, InputBytes - start)
     IN  /\ buffer' = Filled(start, piece)
         /\ IF start + Len(piece) = InputBytes THEN HashesBlock(buffer') ELSE UNCHANGED blocks
         /\ size' = size + Len(piece)
  /\ UNCHANGED <<message, digested>>

\* The mark, and zeros to the end of its word.
Marked(i) ==
  [j \in 1 .. InputBytes |->
     IF j = i + 1 THEN 128 ELSE IF j > i + 1 /\ (j - 1) \div 4 = i \div 4 THEN 0 ELSE buffer[j]]

\* Zeros from a word on.
Blanked(bytes, word) == [j \in 1 .. InputBytes |-> IF j > 4 * word THEN 0 ELSE bytes[j]]

WordBytes(n) == <<0, 0, (n \div 256) % 256, n % 256>>

\* A word that is 0 is not written.
WithWord(bytes, word, n) ==
  IF n = 0 THEN bytes
  ELSE [j \in 1 .. InputBytes |->
          IF (j - 1) \div 4 = word THEN WordBytes(n)[j - 4 * word] ELSE bytes[j]]

WithSize(bytes) ==
  WithWord(WithWord(bytes, HighIndex, (size * 8) \div Wrap), LowIndex, (size * 8) % Wrap)

\* Mutant: a block of its own for a size that would just fit.
SpillsEarly(word) == word >= HighIndex

\* The words of the size do not fit behind the mark.
Spills(word) == word > HighIndex

Digest ==
  /\ ~digested
  /\ size = message.length
  /\ LET i == size % InputBytes
         word == i \div 4 + 1
         marked == Marked(i)
     IN  IF Spills(word)
         THEN LET last == WithSize(Blanked(marked, 0))
              IN  /\ blocks' = blocks \o <<Blanked(marked, word), last>>
                  /\ buffer' = last
         ELSE /\ buffer' = WithSize(Blanked(marked, word))
              /\ HashesBlock(buffer')
  /\ digested' = TRUE
  /\ UNCHANGED <<message, size>>

ShaNext == HashWhole \/ FillBuffer \/ Digest

ShaSpec == ShaInit /\ [][ShaNext]_shaVars

-----------------------------------------------------------------------------
(* Properties. *)

\* FIPS 180-4, 5.1.1: a 1 bit, the fewest zeros, and the size in bits in two words.
Padding(length) ==
  LET zeros == CHOOSE k \in 0 .. InputBytes - 1 : (length + 1 + k + 8) % InputBytes = 0
      bits == length * 8
  IN  <<128>> \o Zeros(zeros) \o WordBytes(bits \div Wrap) \o WordBytes(bits % Wrap)

\* What is hashed is the padded message, of whatever length and wherever it begins in
\* memory, and nothing that an earlier block has left in the buffer
\* (sha256.ts:106-163, 203-239).
HashesPaddedMessage ==
  digested => FlattenSeq(blocks) = Bytes(message.length) \o Padding(message.length)

=============================================================================
