------------------------------- MODULE Crypto -------------------------------
(***************************************************************************)
(* How requests and answers of the download call are encoded: 115/crypto.go *)
(* A byte is a number below 256.  What RSA makes of a block is taken for    *)
(* granted: a sealed block is a record of the bytes that come out when it   *)
(* is opened, without leading zeros.  Base64 is left out.                   *)
(***************************************************************************)
EXTENDS Integers, SequencesExt, FiniteSetsExt, Bitwise

CONSTANTS
  xorKeySeed(_), \* the byte at an index, from 0
  xorClientKey,
  BlockSize,     \* of the RSA key
  KeySize        \* 16 in the code

From(s, i) == SubSeq(s, i, Len(s))

xorDeriveKey(seed, size) ==
  [i \in 1..size |->
     ((seed[i] + xorKeySeed(size * (i - 1))) % 256) ^^ xorKeySeed(size * (size - i))]

\* Mutant: the key does not begin again after the first bytes.
xorTransform_Runs(data, key) ==
  [i \in DOMAIN data |-> data[i] ^^ key[((i - 1) % Len(key)) + 1]]

\* The key begins again after the bytes that are over when four are taken at a
\* time.
xorTransform(data, key) ==
  LET mod == Len(data) % 4
  IN  [i \in DOMAIN data |->
         data[i] ^^ key[1 + ((IF i <= mod THEN i - 1 ELSE i - 1 - mod) % Len(key))]]

\* EncryptPKCS1v15, for each slice of the input.
rsaEncrypt(input) ==
  LET size == BlockSize - 11
      slice(k) == SubSeq(input, size * (k - 1) + 1, Min({size * k, Len(input)}))
  IN  [k \in 1..(Len(input) + size - 1) \div size |-> [opened |-> << 2, 255, 0 >> \o slice(k)]]

\* What follows the first zero of each block; nothing at all when one has none.
rsaDecrypt(blocks) ==
  LET zero(b) == SelectInSeq(b.opened, LAMBDA x : x = 0)
  IN  IF \E k \in DOMAIN blocks : zero(blocks[k]) = 0 THEN << >>
      ELSE FlattenSeq([k \in DOMAIN blocks |-> From(blocks[k].opened, zero(blocks[k]) + 1)])

\* The key goes with the input.
Encode(input, key) ==
  rsaEncrypt(key \o xorTransform(Reverse(xorTransform(input, xorDeriveKey(key, 4))), xorClientKey))

\* An answer comes with a key of its own; there is a panic when it is shorter
\* than a key.
Decode(blocks, key) ==
  LET data  == rsaDecrypt(blocks)
      outer == xorTransform(From(data, KeySize + 1), xorDeriveKey(SubSeq(data, 1, KeySize), 12))
  IN  IF Len(data) < KeySize THEN [panic |-> TRUE, output |-> << >>]
      ELSE [panic |-> FALSE, output |-> xorTransform(Reverse(outer), xorDeriveKey(key, 4))]

-----------------------------------------------------------------------------
(* The other side, by what it has to undo and do.                          *)

Against(data, key) ==
  LET stream == SubSeq(key, 1, Len(data) % 4) \o FlattenSeq([k \in DOMAIN data |-> key])
  IN  [i \in DOMAIN data |-> data[i] ^^ stream[i]]

\* What the server reads: the key and the input.
ServerReads(blocks) ==
  LET data == FlattenSeq([k \in DOMAIN blocks |-> From(blocks[k].opened, 4)])
      key  == SubSeq(data, 1, KeySize)
      body == Against(From(data, KeySize + 1), xorClientKey)
  IN  << key, Against([i \in DOMAIN body |-> body[Len(body) + 1 - i]], xorDeriveKey(key, 4)) >>

\* The answer with this output, under a key of the server's, in blocks of n.
Reply(output, key, serverKey, n) ==
  LET inner == Against(output, xorDeriveKey(key, 4))
      data  == serverKey \o Against([i \in DOMAIN inner |-> inner[Len(inner) + 1 - i]],
                                    xorDeriveKey(serverKey, 12))
  IN  [k \in 1..(Len(data) + n - 1) \div n |->
         [opened |-> << 1, 255, 0 >> \o SubSeq(data, n * (k - 1) + 1, Min({n * k, Len(data)}))]]

\* A request reaches the server as it was, in whatever blocks, and an answer
\* comes back as the server means it: for every length, and with zeros in it.
CipherReadsBack(bytes, key, serverKey) ==
  /\ ServerReads(Encode(bytes, key)) = << key, bytes >>
  /\ \A n \in {1, BlockSize - 11, KeySize} :
       Decode(Reply(bytes, key, serverKey, n), key) = [panic |-> FALSE, output |-> bytes]
=============================================================================
