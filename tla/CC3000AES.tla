------------------------------ MODULE CC3000AES ------------------------------
(***************************************************************************)
(* CC3000AES: the AES128 cipher that protects the profile the radio stores *)
(* for smart config (libraries/bfinlibmaster/security.c).  A block and a   *)
(* key are 16 bytes, 0 to 15; the key schedule is 11 round keys.  The code *)
(* ciphers in place; here blocks are ciphered with one key over another    *)
(* and deciphered in the reverse order.                                    *)
(***************************************************************************)
EXTENDS Integers, Sequences, Bitwise

CONSTANTS
  Keys,      \* keys in use
  Blocks,    \* blocks to cipher
  Depth      \* bound on the ciphers laid over one another

VARIABLES
  state,     \* the block
  original,  \* the block before it was ciphered
  layers     \* keys of the ciphers it is under, the last one first

aesVars == <<state, original, layers>>

sbox ==
  <<99, 124, 119, 123, 242, 107, 111, 197, 48, 1, 103, 43, 254, 215, 171, 118, 202, 130, 201, 125,
    250, 89, 71, 240, 173, 212, 162, 175, 156, 164, 114, 192, 183, 253, 147, 38, 54, 63, 247, 204,
    52, 165, 229, 241, 113, 216, 49, 21, 4, 199, 35, 195, 24, 150, 5, 154, 7, 18, 128, 226,
    235, 39, 178, 117, 9, 131, 44, 26, 27, 110, 90, 160, 82, 59, 214, 179, 41, 227, 47, 132,
    83, 209, 0, 237, 32, 252, 177, 91, 106, 203, 190, 57, 74, 76, 88, 207, 208, 239, 170, 251,
    67, 77, 51, 133, 69, 249, 2, 127, 80, 60, 159, 168, 81, 163, 64, 143, 146, 157, 56, 245,
    188, 182, 218, 33, 16, 255, 243, 210, 205, 12, 19, 236, 95, 151, 68, 23, 196, 167, 126, 61,
    100, 93, 25, 115, 96, 129, 79, 220, 34, 42, 144, 136, 70, 238, 184, 20, 222, 94, 11, 219,
    224, 50, 58, 10, 73, 6, 36, 92, 194, 211, 172, 98, 145, 149, 228, 121, 231, 200, 55, 109,
    141, 213, 78, 169, 108, 86, 244, 234, 101, 122, 174, 8, 186, 120, 37, 46, 28, 166, 180, 198,
    232, 221, 116, 31, 75, 189, 139, 138, 112, 62, 181, 102, 72, 3, 246, 14, 97, 53, 87, 185,
    134, 193, 29, 158, 225, 248, 152, 17, 105, 217, 142, 148, 155, 30, 135, 233, 206, 85, 40, 223,
    140, 161, 137, 13, 191, 230, 66, 104, 65, 153, 45, 15, 176, 84, 187, 22>>

rsbox ==
  <<82, 9, 106, 213, 48, 54, 165, 56, 191, 64, 163, 158, 129, 243, 215, 251, 124, 227, 57, 130,
    155, 47, 255, 135, 52, 142, 67, 68, 196, 222, 233, 203, 84, 123, 148, 50, 166, 194, 35, 61,
    238, 76, 149, 11, 66, 250, 195, 78, 8, 46, 161, 102, 40, 217, 36, 178, 118, 91, 162, 73,
    109, 139, 209, 37, 114, 248, 246, 100, 134, 104, 152, 22, 212, 164, 92, 204, 93, 101, 182, 146,
    108, 112, 72, 80, 253, 237, 185, 218, 94, 21, 70, 87, 167, 141, 157, 132, 144, 216, 171, 0,
    140, 188, 211, 10, 247, 228, 88, 5, 184, 179, 69, 6, 208, 44, 30, 143, 202, 63, 15, 2,
    193, 175, 189, 3, 1, 19, 138, 107, 58, 145, 17, 65, 79, 103, 220, 234, 151, 242, 207, 206,
    240, 180, 230, 115, 150, 172, 116, 34, 231, 173, 53, 133, 226, 249, 55, 232, 28, 117, 223, 110,
    71, 241, 26, 113, 29, 41, 197, 137, 111, 183, 98, 14, 170, 24, 190, 27, 252, 86, 62, 75,
    198, 210, 121, 32, 154, 219, 192, 254, 120, 205, 90, 244, 31, 221, 168, 51, 136, 7, 199, 49,
    177, 18, 16, 89, 39, 128, 236, 95, 96, 81, 127, 169, 25, 181, 74, 13, 45, 229, 122, 159,
    147, 201, 156, 239, 160, 224, 59, 77, 174, 42, 245, 176, 200, 235, 187, 60, 131, 83, 153, 97,
    23, 43, 4, 126, 186, 119, 214, 38, 225, 105, 20, 99, 85, 33, 12, 125>>

Rcon == <<1, 2, 4, 8, 16, 32, 64, 128, 27, 54>>

galois_mul2(value) ==
  IF value >= 128 THEN ((value * 2) % 256) ^^ 27 ELSE value * 2

\* A block or a key: byte i of the code is element i + 1.
Block(Op(_)) == <<Op(0), Op(1), Op(2), Op(3), Op(4), Op(5), Op(6), Op(7),
                  Op(8), Op(9), Op(10), Op(11), Op(12), Op(13), Op(14), Op(15)>>
Sub(b) == sbox[b + 1]
SubInv(b) == rsbox[b + 1]
AddRoundKey(s, k) == Block(LAMBDA i : s[i + 1] ^^ k[i + 1])

\* Mutated form of NextRoundKey: the round constant is left out.
NextRoundKeyPlain(p, ii) ==
  LET q[j \in 0..15] ==
        p[j + 1] ^^ (IF j >= 4 THEN q[j - 4] ELSE Sub(p[13 + ((j + 1) % 4)]))
  IN  Block(LAMBDA j : q[j])

\* Each round key from the one before: its first word from the last word, turned by a
\* byte and substituted, with the round constant; the others from the word before.
NextRoundKey(p, ii) ==
  LET q[j \in 0..15] ==
        p[j + 1] ^^ (IF j >= 4 THEN q[j - 4]
                     ELSE Sub(p[13 + ((j + 1) % 4)]) ^^ (IF j = 0 THEN Rcon[ii] ELSE 0))
  IN  Block(LAMBDA j : q[j])

RECURSIVE RoundKeys(_, _)
RoundKeys(p, ii) ==
  IF ii > 10 THEN <<p>> ELSE <<p>> \o RoundKeys(NextRoundKey(p, ii), ii + 1)

expandKey(key) == RoundKeys(key, 1)

\* Row r of the block turned by r columns, as the assignments through buf1 and buf2 do it.
SubShift(s, k) ==
  Block(LAMBDA i : LET j == (i + 4 * (i % 4)) % 16 IN Sub(s[j + 1] ^^ k[j + 1]))

\* Mutated form of UnshiftSub: the rows are turned the way aes_encr turns them.
UnshiftSubForward(s, k) ==
  Block(LAMBDA i : SubInv(s[((i + 4 * (i % 4)) % 16) + 1]) ^^ k[i + 1])

UnshiftSub(s, k) ==
  Block(LAMBDA i : SubInv(s[((i + 12 * (i % 4)) % 16) + 1]) ^^ k[i + 1])

\* The columns: each byte with its neighbour doubled and the sum of the column.
First(i) == 4 * (i \div 4) + 1
MixColumns(s) ==
  Block(LAMBDA i :
    (s[i + 1] ^^ galois_mul2(s[i + 1] ^^ s[First(i) + ((i + 1) % 4)]))
      ^^ ((s[First(i)] ^^ s[First(i) + 1]) ^^ (s[First(i) + 2] ^^ s[First(i) + 3])))

\* In aes_decr, before the columns are mixed: what makes the mixing undo itself.
PreMix(s) ==
  Block(LAMBDA i :
    s[i + 1] ^^ galois_mul2(galois_mul2(s[i + 1] ^^ s[First(i) + ((i + 2) % 4)])))

RECURSIVE EncryptRounds(_, _, _)
EncryptRounds(s, w, round) ==
  IF round = 9 THEN s ELSE EncryptRounds(MixColumns(SubShift(s, w[round + 1])), w, round + 1)

aes_encr(s, w) == AddRoundKey(SubShift(EncryptRounds(s, w, 0), w[10]), w[11])

RECURSIVE DecryptRounds(_, _, _)
DecryptRounds(s, w, round) ==
  IF round < 0 THEN s
  ELSE DecryptRounds(UnshiftSub(MixColumns(PreMix(s)), w[round + 1]), w, round - 1)

aes_decr(s, w) == DecryptRounds(UnshiftSub(AddRoundKey(s, w[11]), w[10]), w, 8)

aes_encrypt(s, key) == aes_encr(s, expandKey(key))
aes_decrypt(s, key) == aes_decr(s, expandKey(key))
-----------------------------------------------------------------------------
Init == original \in Blocks /\ state = original /\ layers = << >>

Encrypt(key) ==
  /\ Len(layers) < Depth
  /\ state' = aes_encrypt(state, key) /\ layers' = <<key>> \o layers
  /\ UNCHANGED original

Decrypt ==
  /\ layers # << >>
  /\ state' = aes_decrypt(state, Head(layers)) /\ layers' = Tail(layers)
  /\ UNCHANGED original

Next == Decrypt \/ \E key \in Keys : Encrypt(key)

Spec == Init /\ [][Next]_aesVars
-----------------------------------------------------------------------------
\* A block deciphered with the keys it was ciphered with, in the reverse order, is the
\* block (security.c, aes_decrypt after aes_encrypt).
DecryptUndoesEncrypt == layers = << >> => state = original

\* The cipher is AES128: the example of FIPS 197 (key 0 to 15, block 0, 17, ..., 255).
ExampleKey == Block(LAMBDA i : i)
ExampleBlock == Block(LAMBDA i : 17 * i)
ExampleCipher ==
  <<105, 196, 224, 216, 106, 123, 4, 48, 216, 205, 183, 128, 112, 180, 197, 90>>
IsAES128 == original = ExampleBlock /\ layers = <<ExampleKey>> => state = ExampleCipher
=============================================================================
