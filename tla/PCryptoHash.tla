---------------------------- MODULE PCryptoHash ----------------------------
(***************************************************************************)
(* lib/pcryptohash.c and the six algorithms behind it, as machines that    *)
(* cut a stream of updates into blocks, pad the last one and count the     *)
(* length.  A compression function is abstracted to the sequence of the    *)
(* blocks it was given, so two digests are equal here when the same blocks *)
(* went in; only the 256-bit sum of GOST R 34.11, which is hashed as the   *)
(* last block, is computed.  Byte number i of the message is <<"byte", i>>. *)
(*                                                                         *)
(* The sizes are parameters: 64 bytes, of which 8 hold the length, and     *)
(* 32-bit and 64-bit words in the code.                                    *)
(***************************************************************************)
EXTENDS Integers, Sequences, SequencesExt

CONSTANTS Block,      \* bytes in a block
          Field,      \* of these, cells of the length at the end of the last
          Word,       \* 2^32, the modulus of puint32
          Quad,       \* 2^64, the modulus of puint64 and of psize
          Lens,       \* lengths of an update
          MaxMessage, \* bound on the bytes hashed
          Contents    \* what a block of 8 words, here three, may hold

ASSUME SizesFit == /\ {Block, Field, Word, Quad, MaxMessage} \subseteq Nat
                   /\ Field = 2 /\ Field < Block /\ Word % (8 * Block) = 0 /\ Quad % Word = 0

VARIABLES alg,      \* PCryptoHash.type
          ctx,      \* PCryptoHash.context
          closed,   \* PCryptoHash.closed
          size,     \* bytes given to the hash since it was new or reset
          huge      \* some update had more bytes than a puint32 counts

hashingVars == <<alg, ctx, closed, size, huge>>

Algorithms == {"md5", "sha1", "sha2_256", "sha2_512", "sha3", "gost3411"}
Zero == <<"zero", 0>>

\* The reset functions: an empty buffer, the initial hash, no length.  For GOST
\* also the sum; total is the true one of the blocks added to it, and swallowed
\* tells whether a carry of it was lost (no code has these two).
Empty == [buf |-> [i \in 1..Block |-> Zero], hash |-> <<>>, low |-> 0, high |-> 0]
Md5Reset == Empty
Sha1Reset == Empty
Sha256Reset == Empty
Sha512Reset == Empty
Sha3Reset == Empty
GostReset == [buf |-> Empty.buf, hash |-> <<>>, len |-> <<0, 0, 0>>,
              sum |-> <<0, 0, 0>>, total |-> 0, swallowed |-> FALSE]

-----------------------------------------------------------------------------
(* The compression functions, and the sum of GOST. *)

Md5Process(c, block) == [c EXCEPT !.hash = Append(@, block)]
Sha1Process(c, block) == [c EXCEPT !.hash = Append(@, block)]
Sha256Process(c, block) == [c EXCEPT !.hash = Append(@, block)]
Sha512Process(c, block) == [c EXCEPT !.hash = Append(@, block)]
Sha3Process(c, block) == [c EXCEPT !.hash = Append(@, block)]
GostProcess(c, block) == [c EXCEPT !.hash = Append(@, block)]

\* pzcrypto_hash_gost3411_sum_256(), on three words for eight: <<sum, carry>>
\* after each word, least significant first.
Sum256(a, b) ==
    LET Add(acc, i) ==
            LET s == (a[i] + b[i] + acc[2]) % Word
            IN <<Append(acc[1], s), IF s < a[i] \/ s < b[i] THEN 1 ELSE 0>>
    IN FoldLeft(Add, <<<<>>, 0>>, <<1, 2, 3>>)[1]

\* The one case in which a carry is lost: two words of all ones with a carry in
\* give all ones again, which is less than neither.  The carry out of the last
\* word is dropped anyway.
Swallows(a, b) == a[2] = Word - 1 /\ b[2] = Word - 1 /\ a[1] + b[1] >= Word

\* A block of data goes into the hash and is added to the sum.
Number(words) == words[1] + (Word * words[2]) + (Word * Word * words[3])
GostBlock(c, block, words) ==
    [GostProcess(c, block) EXCEPT
        !.sum = Sum256(@, words),
        !.swallowed = @ \/ Swallows(c.sum, words),
        !.total = (@ + Number(words)) % (Word * Word * Word)]

-----------------------------------------------------------------------------
(* Updates. *)

\* memcpy() to offset `at' of the buffer.
Copy(buf, at, cells) ==
    [i \in 1..Block |-> IF i > at /\ i <= at + Len(cells) THEN cells[i - at] ELSE buf[i]]

\* The tail of every update function: complete the block that is begun, take
\* whole blocks, keep the rest.  `fills' is the test that the begun block can
\* be completed.
Absorb(c, cells, left, fills, process(_, _)) ==
    LET full  == left # 0 /\ fills
        first == Copy(c.buf, left, SubSeq(cells, 1, Block - left))
        c1    == IF full THEN process([c EXCEPT !.buf = first], first) ELSE c
        rest  == IF full THEN SubSeq(cells, Block - left + 1, Len(cells)) ELSE cells
        n     == Len(rest) \div Block
        cut   == [j \in 1..n |-> SubSeq(rest, (j - 1) * Block + 1, j * Block)]
        c2    == FoldLeft(LAMBDA d, b : process([d EXCEPT !.buf = b], b), c1, cut)
        tail  == SubSeq(rest, n * Block + 1, Len(rest))
    IN [c2 EXCEPT !.buf = Copy(@, IF full THEN 0 ELSE left, tail)]

\* The length counters of two words: only the low word of len is added.
\* Mutant: the carry into the high word is forgotten.
CountNoCarry(c, len, modulus) == [c EXCEPT !.low = (@ + (len % modulus)) % modulus]
CountBytes(c, len, modulus) ==
    LET low == (c.low + (len % modulus)) % modulus
    IN [c EXCEPT !.low = low,
                 !.high = IF low < (len % modulus) THEN (@ + 1) % modulus ELSE @]

Update(c, cells, modulus, process(_, _)) ==
    LET left == c.low % Block
    IN Absorb(CountBytes(c, Len(cells), modulus), cells, left,
              (Len(cells) % modulus) >= Block - left, process)
Md5Update(c, cells) == Update(c, cells, Word, Md5Process)
Sha1Update(c, cells) == Update(c, cells, Word, Sha1Process)
Sha256Update(c, cells) == Update(c, cells, Word, Sha256Process)
Sha512Update(c, cells) == Update(c, cells, Quad, Sha512Process)

\* SHA-3 counts within the block only.
Sha3Update(c, cells) ==
    Absorb([c EXCEPT !.low = (@ + Len(cells)) % Block], cells, c.low,
           Len(cells) >= Block - c.low, Sha3Process)

\* GOST counts bits, with its 256-bit sum.
GostUpdate(c, cells, words) ==
    LET bits == 8 * Len(cells)
        left == (c.len[1] % (8 * Block)) \div 8
    IN Absorb([c EXCEPT !.len = Sum256(@, <<bits % Word, (bits \div Word) % Word, 0>>)],
              cells, left, (Len(cells) % Word) >= Block - left,
              LAMBDA d, b : GostBlock(d, b, words))

-----------------------------------------------------------------------------
(* Finishing. *)

PadCells(n) == [i \in 1..n |-> IF i = 1 THEN <<"one", 0>> ELSE Zero]

\* Bytes of padding: at least one, and room for the length after them.
PadLength(left) ==
    IF left < Block - Field THEN Block - Field - left ELSE 2 * Block - Field - left

\* The length in bits goes to the end of the last block, low word first or last.
BitsLow(c, modulus) == <<"length", (c.low * 8) % modulus>>
BitsHigh(c, modulus) == <<"length", ((c.high * 8) % modulus) + ((c.low * 8) \div modulus)>>
LengthLast(buf, w1, w2) == [buf EXCEPT ![Block - 1] = w1, ![Block] = w2]

Md5Finish(c) ==
    LET padded == Md5Update(c, PadCells(PadLength(c.low % Block)))
    IN Md5Process(padded, LengthLast(padded.buf, BitsLow(c, Word), BitsHigh(c, Word)))
Sha1Finish(c) ==
    LET padded == Sha1Update(c, PadCells(PadLength(c.low % Block)))
    IN Sha1Process(padded, LengthLast(padded.buf, BitsHigh(c, Word), BitsLow(c, Word)))
Sha256Finish(c) ==
    LET padded == Sha256Update(c, PadCells(PadLength(c.low % Block)))
    IN Sha256Process(padded, LengthLast(padded.buf, BitsHigh(c, Word), BitsLow(c, Word)))
Sha512Finish(c) ==
    LET padded == Sha512Update(c, PadCells(PadLength(c.low % Block)))
    IN Sha512Process(padded, LengthLast(padded.buf, BitsHigh(c, Quad), BitsLow(c, Quad)))

\* The two marks of SHA-3 fall into one byte when only one is left.
Sha3Marks(c) ==
    [i \in 1..Block |->
        LET mark == (IF i = c.low + 1 THEN 6 ELSE 0) + (IF i = Block THEN 128 ELSE 0)
        IN IF i <= c.low THEN c.buf[i] ELSE IF mark = 0 THEN Zero ELSE <<"mark", mark>>]
Sha3Finish(c) == Sha3Process(c, Sha3Marks(c))

\* GOST fills an incomplete block with zeros, then hashes the length and the sum.
GostFinish(c, words) ==
    LET left == (c.len[1] % (8 * Block)) \div 8
        zeros == [i \in 1..Block |-> IF i <= left THEN c.buf[i] ELSE Zero]
        c1 == IF left # 0 THEN GostBlock([c EXCEPT !.buf = zeros], zeros, words) ELSE c
    IN GostProcess(GostProcess(c1, <<"length", c.len>>), <<"sum", c1.sum>>)

-----------------------------------------------------------------------------
(* The interface. *)

\* zcrypto_hash_new(): the functions of the type.
CtxReset ==
    CASE alg = "md5" -> Md5Reset [] alg = "sha1" -> Sha1Reset [] alg = "sha2_256" -> Sha256Reset
      [] alg = "sha2_512" -> Sha512Reset [] alg = "sha3" -> Sha3Reset [] OTHER -> GostReset
CtxUpdate(cells, words) ==
    CASE alg = "md5" -> Md5Update(ctx, cells)
      [] alg = "sha1" -> Sha1Update(ctx, cells)
      [] alg = "sha2_256" -> Sha256Update(ctx, cells)
      [] alg = "sha2_512" -> Sha512Update(ctx, cells)
      [] alg = "sha3" -> Sha3Update(ctx, cells)
      [] OTHER -> GostUpdate(ctx, cells, words)
CtxFinish(words) ==
    CASE alg = "md5" -> Md5Finish(ctx) [] alg = "sha1" -> Sha1Finish(ctx)
      [] alg = "sha2_256" -> Sha256Finish(ctx) [] alg = "sha2_512" -> Sha512Finish(ctx)
      [] alg = "sha3" -> Sha3Finish(ctx) [] OTHER -> GostFinish(ctx, words)

CryptoInit ==
    /\ alg \in Algorithms
    /\ ctx = CtxReset
    /\ closed = FALSE
    /\ size = 0
    /\ huge = FALSE

\* zcrypto_hash_update(): nothing happens to a closed hash.
CryptoUpdate(len, words) ==
    /\ ~closed
    /\ size + len <= MaxMessage
    /\ ctx' = CtxUpdate([i \in 1..len |-> <<"byte", size + i>>], words)
    /\ size' = size + len
    /\ huge' = (huge \/ len >= Word)
    /\ UNCHANGED <<alg, closed>>

\* zcrypto_hash_get_string(), zcrypto_hash_get_digest(): the first finishes.
CryptoGetDigest(words) ==
    /\ ~closed
    /\ ctx' = CtxFinish(words)
    /\ closed' = TRUE
    /\ UNCHANGED <<alg, size, huge>>

CryptoReset ==
    /\ size # 0 \/ closed
    /\ ctx' = CtxReset
    /\ closed' = FALSE
    /\ size' = 0
    /\ huge' = FALSE
    /\ UNCHANGED alg

CryptoNext ==
    \/ \E len \in Lens, words \in Contents : CryptoUpdate(len, words)
    \/ \E words \in Contents : CryptoGetDigest(words)
    \/ CryptoReset

-----------------------------------------------------------------------------
(* Properties. *)

Bytes(n) == [i \in 1..n |-> <<"byte", i>>]
Cut(cells) ==
    [j \in 1..Len(cells) \div Block |-> SubSeq(cells, (j - 1) * Block + 1, j * Block)]

Words(n) == <<n % Word, (n \div Word) % Word, n \div (Word * Word)>>

\* The blocks of an n-byte message by the definition of each algorithm.
Expected(n) ==
    LET modulus == IF alg = "sha2_512" THEN Quad ELSE Word
        low  == (8 * n) % modulus
        high == ((8 * n) \div modulus) % modulus
        zeros(k) == [i \in 1..k |-> Zero]
        pad == CHOOSE k \in 0..Block - 1 : (n + 1 + k + Field) % Block = 0
        length == IF alg = "md5" THEN <<<<"length", low>>, <<"length", high>>>>
                                 ELSE <<<<"length", high>>, <<"length", low>>>>
        short == (Block - (n % Block)) % Block
    IN CASE alg = "sha3" ->
              LET room == Block - (n % Block)
              IN Cut(Bytes(n) \o IF room = 1 THEN <<<<"mark", 134>>>>
                                 ELSE <<<<"mark", 6>>>> \o zeros(room - 2) \o <<<<"mark", 128>>>>)
         [] alg = "gost3411" ->
              LET data == Cut(Bytes(n) \o zeros(short))
              IN data \o <<<<"length", <<low, high, 0>>>>, <<"sum", Words(ctx.total)>>>>
         [] OTHER -> Cut(Bytes(n) \o <<<<"one", 0>>>> \o zeros(pad) \o length)

\* However the message is cut into updates, and whatever was hashed before a
\* reset, the blocks that reach the compression function are those of the
\* padded message, with the carries of the length counters right; a digest
\* once read does not change.  For the algorithms with a 32-bit length this
\* needs updates of fewer bytes than 2^32: longer ones are not counted in full.
\* For GOST the last block is the 256-bit sum of the others as long as the sum
\* met no carry into two words of all ones.
DigestOfMessage ==
    closed /\ (huge => alg \in {"sha2_512", "sha3"}) /\ (alg = "gost3411" => ~ctx.swallowed)
      => ctx.hash = Expected(size)

\* The "256-bit sum" of pzcrypto_hash_gost3411_sum_256() is the sum of the
\* blocks added, modulo 2^256.
SumExact == alg = "gost3411" => Number(ctx.sum) = ctx.total
=============================================================================
