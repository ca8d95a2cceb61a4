------------------------------ MODULE Coinbase ------------------------------
(***************************************************************************)
(* The coinbase transaction (bitcoin/btc_coinbase.go): its two parts, made   *)
(* for a job by Initialize, and the whole one, put together around a miner's *)
(* extra nonces.                                                             *)
(*                                                                          *)
(* A transaction is a sequence of bytes, in which a field of fixed width is  *)
(* one element: its width matters to nobody.                                 *)
(***************************************************************************)
EXTENDS Integers, Sequences, Functions

CONSTANTS
  Heights, Times,   \* times are those of Initialize's clock
  FlagLengths, ExtraLengths, CommitmentLengths,
  Wallets           \* first bytes of the wallet's key or address

VARIABLES input, job, raw
vars == <<input, job, raw>>

None == <<>>
Invalid == "error"

Inputs == [height : Heights, time : Times, flags : FlagLengths \cup {-1},
           extras : ExtraLengths, commitment : CommitmentLengths, wallet : Wallets]

Init == input \in Inputs /\ job = None /\ raw = None

Fill(n, byte) == [i \in 1..n |-> byte]

-----------------------------------------------------------------------------
(* PackNumber: the number's length and its bytes, the lowest first.         *)

Upto255[n \in Nat] == IF n <= 255 THEN <<n>> ELSE <<n % 256>> \o Upto255[n \div 256]
Upto127[n \in Nat] == IF n <= 127 THEN <<n>> ELSE <<n % 256>> \o Upto127[n \div 256]

NumberBytes(n) == Upto255[n]
SignedBytes(n) == Upto127[n]
PackNumber(n) == <<Len(SignedBytes(n))>> \o SignedBytes(n)

\* The library's compact size, and a string with it in front.
PackCompactSize(n) == IF n < 253 THEN <<n>> ELSE <<253, n % 256, n \div 256>>
PackString(s) == PackCompactSize(Len(s)) \o s

\* GetCoinBaseScript of a compressed key, or of an address by its version, the
\* main or the test net's; <<>> is an error.
Payload == "hash"
GetCoinBaseScript(first) ==
  CASE first \in {2, 3} -> <<Payload, "CHECKSIG">>
    [] first \in {0, 111} -> <<"DUP", "HASH160", Payload, "EQUALVERIFY", "CHECKSIG">>
    [] first \in {5, 196} -> <<"HASH160", Payload, "EQUAL">>
    [] OTHER -> <<>>

-----------------------------------------------------------------------------
EXTRANONCE1_SIZE == 4
EXTRANONCE2_SIZE == 4

VinScript1 ==
  PackNumber(input.height) \o Fill(input.flags, 1) \o PackNumber(input.time)
    \o <<EXTRANONCE1_SIZE + EXTRANONCE2_SIZE>>
VinScript2 == PackString(Fill(input.extras, 2))

VinScriptLen == Len(VinScript1) + EXTRANONCE1_SIZE + EXTRANONCE2_SIZE + Len(VinScript2)

\* _generateCoinB: version, inputs, previous output, script; then sequence,
\* outputs and lock time.
CoinBaseTx1 == <<"version", 1, "prevout">> \o PackCompactSize(VinScriptLen) \o VinScript1

VoutCount == IF input.commitment # 0 THEN 2 ELSE 1

CoinBaseTx2 ==
  VinScript2 \o <<"sequence">> \o PackCompactSize(VoutCount)
    \o <<"value">> \o PackString(GetCoinBaseScript(input.wallet))
    \o (IF input.commitment # 0 THEN <<"zero">> \o PackString(Fill(input.commitment, 3)) ELSE <<>>)
    \o <<"locktime">>

\* A flag string that is no hex, a wallet that is none, a commitment of another
\* length than the standard's: no job.
Initialize ==
  /\ job = None
  /\ job' = IF input.flags = -1 \/ GetCoinBaseScript(input.wallet) = <<>>
                \/ input.commitment \notin {0, 38}
            THEN <<Invalid>> ELSE <<CoinBaseTx1, CoinBaseTx2>>
  /\ UNCHANGED <<input, raw>>

AnyLength(nonce1, nonce2) == TRUE
RightLength(nonce1, nonce2) ==
  Len(nonce1) = EXTRANONCE1_SIZE /\ Len(nonce2) = EXTRANONCE2_SIZE

\* RecoverToRawTransaction, up to the library's UnPack.
RecoverToRawTransaction(nonce1, nonce2) ==
  /\ Len(job) = 2 /\ raw = None
  /\ raw' = IF RightLength(nonce1, nonce2) THEN job[1] \o nonce1 \o nonce2 \o job[2]
            ELSE <<Invalid>>
  /\ UNCHANGED <<input, job>>

Nonces(byte) == {Fill(n, byte) : n \in {3, 4}}
Next == Initialize \/ \E nonce1 \in Nonces(8), nonce2 \in Nonces(9) :
                         RecoverToRawTransaction(nonce1, nonce2)
Spec == Init /\ [][Next]_vars

-----------------------------------------------------------------------------
(* How a node reads a transaction.                                          *)

Drop(s, n) == SubSeq(s, n + 1, Len(s))
ReadString(s) ==
  LET at == IF s[1] = 253 THEN 3 ELSE 1
      n == IF s[1] = 253 THEN s[2] + 256 * s[3] ELSE s[1]
  IN [string |-> SubSeq(s, at + 1, at + n), rest |-> Drop(s, at + n)]

\* The outputs, each an amount and a script, up to the lock time.
ReadOutputs(s) ==
  LET first == ReadString(Drop(s, 2))
      second == ReadString(Drop(first.rest, 1))
  IN IF s[1] = 1 THEN [outputs |-> <<<<s[2], first.string>>>>, rest |-> first.rest]
     ELSE [outputs |-> <<<<s[2], first.string>>, <<first.rest[1], second.string>>>>,
           rest |-> second.rest]

\* The value of a script number, which has four bytes at most, and what consensus
\* asks of its bytes: the shortest encoding, with a byte for the sign when the top
\* bit is taken.
Place == <<1, 256, 65536, 16777216>>
ScriptNumber(bytes) == SumFunction([i \in DOMAIN bytes |-> bytes[i] * Place[i]])
IsShortest(bytes) ==
  LET n == Len(bytes)
  IN bytes[n] < 128 /\ (bytes[n] = 0 => n > 1 /\ bytes[n - 1] >= 128)

Built == raw # None /\ raw # <<Invalid>>
Read == ReadString(Drop(raw, 3))

-----------------------------------------------------------------------------
(* Properties.                                                              *)

\* The script of the coinbase starts with the block's height as consensus wants
\* it, one push of the shortest script number (an opcode does for those up to 16,
\* which are below any height a pool works on).
HeightFirst ==
  Built => LET push == SubSeq(Read.string, 2, Read.string[1] + 1)
           IN Len(push) <= 4 /\ ScriptNumber(push) = input.height /\ IsShortest(push)

\* In the script a node reads, the two extra nonces fill the push made for them,
\* and the pool's text follows: the length declared in the first part is right
\* for what the miner and the second part add.
NoncesInPush ==
  Built => /\ SubSeq(Read.string, Len(VinScript1), Len(VinScript1) + 8)
                = <<8>> \o Fill(4, 8) \o Fill(4, 9)
           /\ Drop(Read.string, Len(VinScript1) + 8) = VinScript2
           /\ Read.rest[1] = "sequence"

\* The transaction pays all to the wallet, carries the witness commitment
\* exactly when there is one, and ends with it.
PaysWallet ==
  Built => LET out == ReadOutputs(Drop(Read.rest, 1))
           IN /\ out.rest = <<"locktime">>
              /\ out.outputs[1] = <<"value", GetCoinBaseScript(input.wallet)>>
              /\ IF input.commitment = 0 THEN Len(out.outputs) = 1
                 ELSE out.outputs[2] = <<"zero", Fill(38, 3)>>
=============================================================================
