------------------------------- MODULE Texts --------------------------------
(***************************************************************************)
(* What is written down and read back (packages/digidollar-js: address.js, *)
(* envelope.js, bip21.js; apps/wallet/public/treasuries.js): script        *)
(* numbers and the metadata of DigiDollar transactions, base58 and         *)
(* bech32, the kinds of addresses and who accepts them, amounts, and the   *)
(* names and health of treasuries.  The operators are pure; the only state *)
(* is the number of the input that is tried next.                          *)
(*                                                                         *)
(* Bytes and digits are numbers, texts are sequences of them.  A checksum  *)
(* is ideal: a text carries the kind it was made with, and a text that     *)
(* carries another, or none, does not verify.                              *)
(***************************************************************************)
EXTENDS Integers, Sequences, FiniteSets, SequencesExt

CONSTANTS
    Boundaries,  \* the numbers around which something changes
    Near,        \* bound: how far from a boundary the inputs go
    Refused      \* what no text decodes to

ASSUME TextsAssumption == Boundaries \subseteq Nat /\ Near \in Nat

\* What is refused is no number, no list and no amount.
ASSUME RefusedAssumption ==
    Refused \notin Nat /\ Refused \notin Seq(Nat) /\ Refused \notin [whole : Nat, frac : Seq(Nat)]

VARIABLE sample  \* <<boundary, distance>>, or <<>>: nothing is tried yet

Sample == sample[1] + sample[2]

-----------------------------------------------------------------------------
(* Script numbers and metadata: envelope.js *)

\* The digits of a number in some base, the lowest first; zero has none.
Digits(n, base) ==
    LET of[m \in Nat] == IF m = 0 THEN <<>> ELSE <<m % base>> \o of[m \div base]
    IN of[n]

\* leMinimal(): a set high bit takes one more byte, the sign's; zero is empty.
LeMinimal(n) ==
    LET bytes == Digits(n, 256)
    IN IF n > 0 /\ Last(bytes) >= 128 THEN Append(bytes, 0) ELSE bytes

LeToBigInt(bytes) == FoldLeft(LAMBDA acc, b : acc * 256 + b, 0, Reverse(bytes))

Push(bytes) == <<Len(bytes)>> \o bytes
OpReturn == 106
Magic == <<68, 68>>
CodeByType == [mint |-> 1, transfer |-> 2, redeem |-> 3]

\* buildTransferMetadata(), buildRedeemMetadata() and, less its key, buildMintMetadata().
BuildMetadata(type, numbers) ==
    <<OpReturn>> \o Push(Magic) \o Push(<<CodeByType[type]>>)
        \o FlattenSeq([i \in 1 .. Len(numbers) |-> Push(LeMinimal(numbers[i]))])

\* readPushes(): direct pushes only, each its length and its bytes.
PushesFrom(script, start) ==
    LET from[i \in Nat \ {0}] == IF i > Len(script) THEN <<>>
                                 ELSE <<SubSeq(script, i + 1, i + script[i])>> \o from[i + 1 + script[i]]
    IN from[start]

ParseMetadata(type, script) ==
    LET pushes == PushesFrom(script, 2)
    IN IF pushes[1] # Magic \/ pushes[2] # <<CodeByType[type]>> THEN Refused
       ELSE [i \in 1 .. Len(pushes) - 2 |-> LeToBigInt(pushes[i + 2])]

\* buildDDVersion() and parseDDVersion(): the low half marks, the high byte tells.
Marker == 1904
DdVersion(type) == CodeByType[type] * 16777216 + Marker
TypeOfVersion(v) == IF v % 65536 = Marker THEN {t \in DOMAIN CodeByType : CodeByType[t] = v \div 16777216} ELSE {}

-----------------------------------------------------------------------------
(* Base58 and the regrouping of bits: address.js *)

LeadingZeros(s) == Cardinality({i \in 1 .. Len(s) : \A j \in 1 .. i : s[j] = 0})

\* One step of either loop: the digits times `from`, plus one more, in base `to`.
Carry(digits, from, to, more) ==
    LET at == FoldLeft(LAMBDA acc, d :
                           LET sum == d * from + acc.carry
                           IN [out |-> Append(acc.out, sum % to), carry |-> sum \div to],
                       [out |-> <<>>, carry |-> more], digits)
    IN at.out \o Digits(at.carry, to)

Rebased(s, from, to) == FoldLeft(LAMBDA acc, d : Carry(acc, from, to, d), <<0>>, s)
Zeros(n) == [i \in 1 .. n |-> 0]

\* base58Encode(): the leading zero bytes, and the rest as a number.
Base58Encode(bytes) ==
    LET zeros == LeadingZeros(bytes)
    IN Zeros(zeros) \o Reverse(Rebased(SubSeq(bytes, zeros + 1, Len(bytes)), 256, 58))

\* base58Decode(): all of the text is the number, its leading ones are zero bytes.
Base58Decode(text) == Zeros(LeadingZeros(text)) \o Reverse(Rebased(text, 58, 256))

\* convertBits(): the groups are taken off from the left; what is left over is padded,
\* or must be padding.
TwoTo(n) == 2 ^ n
TakenBits(acc, d, from, to) ==
    LET bits == acc.bits + from
        value == acc.rest * TwoTo(from) + d
        groups == bits \div to
        keep == bits % to
    IN [out |-> acc.out \o [g \in 1 .. groups |-> (value \div TwoTo(keep + (groups - g) * to)) % TwoTo(to)],
        rest |-> value % TwoTo(keep), bits |-> keep]

Regrouped(data, from, to) ==
    FoldLeft(LAMBDA acc, d : TakenBits(acc, d, from, to), [out |-> <<>>, rest |-> 0, bits |-> 0], data)

ToGroups(data) ==
    LET t == Regrouped(data, 8, 5)
    IN IF t.bits > 0 THEN Append(t.out, t.rest * TwoTo(5 - t.bits)) ELSE t.out

FromGroups(data) ==
    LET t == Regrouped(data, 5, 8)
    IN IF t.bits >= 5 \/ t.rest # 0 THEN Refused ELSE t.out

-----------------------------------------------------------------------------
(* Addresses: address.js *)

Networks == {"mainnet", "testnet", "regtest"}
Hrp == [mainnet |-> "dgb", testnet |-> "dgbt", regtest |-> "dgbrt"]
GiftHrp == [mainnet |-> "ddgift", testnet |-> "tdgift", regtest |-> "rdgift"]
DdVersionBytes == [mainnet |-> <<82, 133>>, testnet |-> <<177, 41>>, regtest |-> <<163, 164>>]
LegacyNetworks ==
    [b \in {30, 63, 5, 126, 140} |-> IF b \in {126, 140} THEN {"testnet", "regtest"} ELSE {"mainnet"}]

\* A text of either alphabet; a program and a payload are their length and a name.
Bech32(hrp, version, program, sum) ==
    [form |-> "bech32", hrp |-> hrp, version |-> version, program |-> program, sum |-> sum]
Base58(version, body, sum) == [form |-> "base58", version |-> version, body |-> body, sum |-> sum]
Bytes(n, name) == [length |-> n, name |-> name]

SumOf(version) == IF version = 0 THEN "bech32" ELSE "bech32m"

\* encodeWitnessAddress() and encodeGiftKey(), encodeDDAddress().
EncodeWitness(hrp, version, program) == Bech32(hrp, version, program, SumOf(version))
EncodeGiftKey(key, network) == EncodeWitness(GiftHrp[network], 1, key)
EncodeDd(key, network) == Base58(DdVersionBytes[network], key, "base58check")

\* Mutant: the charset bounds the version.
AnyVersion(text) ==
    /\ text.form = "bech32" /\ text.sum = SumOf(text.version)
    /\ text.program.length \in 2 .. 40
    /\ text.version = 0 => text.program.length \in {20, 32}

\* decodeWitnessAddress(): what verifies, has an opcode, and is no anyone-can-spend.
IsWitness(text) ==
    /\ text.form = "bech32" /\ text.sum = SumOf(text.version)
    /\ text.version <= 16
    /\ text.program.length \in 2 .. 40
    /\ text.version = 0 => text.program.length \in {20, 32}

\* witnessScriptHex(), legacyScriptHex().
WitnessScript(text) ==
    [op |-> IF text.version = 0 THEN 0 ELSE 80 + text.version, program |-> text.program]

IsLegacy(text) ==
    /\ text.form = "base58" /\ text.sum = "base58check"
    /\ Len(text.version) = 1 /\ text.version[1] \in DOMAIN LegacyNetworks
    /\ text.body.length = 20

\* decodeAddress(): witness first, then legacy; on no network of ours for another hrp.
DecodeAddress(text) ==
    CASE IsWitness(text) -> [networks |-> {n \in Networks : Hrp[n] = text.hrp}, script |-> WitnessScript(text)]
      [] IsLegacy(text) -> [networks |-> LegacyNetworks[text.version[1]],
                            script |-> [op |-> IF text.version[1] \in {30, 126} THEN 118 ELSE 169,
                                        program |-> text.body]]
      [] OTHER -> Refused

\* decodeDDAddress(): a prefix of ours decides for bech32, else it must be base58.
DecodeDd(text) ==
    LET ours == {n \in Networks : text.form = "bech32" /\ text.hrp = Hrp[n]}
        named == {n \in Networks : text.form = "base58" /\ text.version = DdVersionBytes[n]}
    IN IF ours # {}
       THEN IF IsWitness(text) /\ text.version = 1 /\ text.program.length = 32
            THEN [key |-> text.program, networks |-> ours] ELSE Refused
       ELSE IF named # {} /\ text.sum = "base58check" /\ text.body.length = 32
            THEN [key |-> text.body, networks |-> named] ELSE Refused

DecodeGiftKey(text) ==
    LET ours == {n \in Networks : text.form = "bech32" /\ text.hrp = GiftHrp[n]}
    IN IF ours # {} /\ IsWitness(text) /\ text.version = 1 /\ text.program.length = 32
       THEN [key |-> text.program, networks |-> ours] ELSE Refused

-----------------------------------------------------------------------------
(* Amounts and names: bip21.js, treasuries.js *)

SatsPerDgb == 100000000
EightPlaces(n) == [i \in 1 .. 8 |-> (n \div 10 ^ (8 - i)) % 10]

\* satsToDgbString(): eight places, the zeros at their end left out.
SatsToDgb(sats) ==
    LET all == EightPlaces(sats % SatsPerDgb)
        kept == {i \in 1 .. 8 : \E j \in i .. 8 : all[j] # 0}
    IN [whole |-> sats \div SatsPerDgb, frac |-> SubSeq(all, 1, Cardinality(kept))]

\* dgbStringToSats(), for a text of at most eight places.
DgbToSats(text) ==
    text.whole * SatsPerDgb
      + FoldLeft(LAMBDA acc, d : acc * 10 + d, 0, text.frac \o Zeros(8 - Len(text.frac)))

\* seqLetters(): A to Z, AA, AB, ...
seqLetters[i \in Nat] == IF i < 26 THEN <<i>> ELSE seqLetters[i \div 26 - 1] \o <<i % 26>>

\* collateralHealth(): tenths of a percent, rounded to the nearest.
Health(num, den) == (num * 20 + den) \div (den * 2)

-----------------------------------------------------------------------------
(* The inputs *)

TextsInit == sample = <<>>

NextSample ==
    \/ sample = <<>> /\ \E b \in Boundaries : sample' = <<b, 0>>
    \/ sample # <<>> /\ sample[2] < Near /\ sample' = [sample EXCEPT ![2] = @ + 1]

TextsSpec == TextsInit /\ [][NextSample]_sample

\* Every text of the kinds there are, good and bad.
SomeTexts ==
    {Bech32(hrp, version, Bytes(size, "k"), sum) :
        hrp \in {Hrp[n] : n \in Networks} \union {GiftHrp[n] : n \in Networks} \union {"bc"},
        version \in 0 .. 31, size \in {1, 2, 20, 32, 40, 41}, sum \in {"bech32", "bech32m", "none"}}
    \union
    {Base58(version, Bytes(size, "k"), sum) :
        version \in {<<b>> : b \in {0, 5, 30, 63, 126, 140}} \union {DdVersionBytes[n] : n \in Networks},
        size \in {19, 20, 32}, sum \in {"base58check", "none"}}

-----------------------------------------------------------------------------
(* Properties *)

\* A script number, as the network reads it: the high bit of the last byte is the sign.
Signed(bytes) ==
    IF bytes = <<>> THEN 0
    ELSE LET n == LeToBigInt(bytes)
         IN IF Last(bytes) < 128 THEN n ELSE -(n - 128 * 256 ^ (Len(bytes) - 1))

\* The network reads the number that was meant, in the fewest bytes; metadata come
\* back as they were, and no kind of metadata or version passes for another.
MetadataSound(n) ==
    LET b == LeMinimal(n)
    IN /\ Signed(b) = n /\ LeToBigInt(b) = n
       /\ Len(b) > 1 /\ Last(b) = 0 => b[Len(b) - 1] >= 128
       /\ \A type, other \in DOMAIN CodeByType, numbers \in {<<n>>, <<n, 0, Near>>} :
              ParseMetadata(other, BuildMetadata(type, numbers)) = IF other = type THEN numbers ELSE Refused

VersionsSound == \A type \in DOMAIN CodeByType : TypeOfVersion(DdVersion(type)) = {type}

\* What is encoded decodes to itself, leading zeros and all, unless it is nothing but
\* zeros; and groups of bits are padded with zeros only.
BasesSound(n) ==
    \A bytes \in {Digits(n, 256), <<0>> \o Digits(n, 256), Reverse(<<0, 0>> \o Digits(n, 256))} :
        /\ n > 0 => Base58Decode(Base58Encode(bytes)) = bytes
        /\ FromGroups(ToGroups(bytes)) = bytes
        /\ \A extra \in {1, 31} : FromGroups(Append(ToGroups(bytes), extra)) # bytes

\* An address that is accepted pays to a witness program or a hash, never to another
\* opcode; the two forms of a DigiDollar address name one key; and no gift key passes
\* for an address, nor an address for a gift key.
AddressesSound ==
    /\ \A t \in SomeTexts :
          /\ LET a == DecodeAddress(t)
             IN a # Refused => /\ a.script.op \in {0, 118, 169} \union 81 .. 96
                               /\ a.script.op = 0 => a.script.program.length \in {20, 32}
                               /\ DecodeGiftKey(t) # Refused => a.networks = {}
          /\ DecodeDd(t) = Refused \/ DecodeGiftKey(t) = Refused
          /\ DecodeDd(t) # Refused /\ DecodeAddress(t) # Refused =>
                DecodeAddress(t).networks = DecodeDd(t).networks
    /\ \A n \in Networks :
          LET key == Bytes(32, "k")
          IN /\ DecodeDd(EncodeDd(key, n)) = DecodeDd(EncodeWitness(Hrp[n], 1, key))
             /\ DecodeDd(EncodeDd(key, n)) = [key |-> key, networks |-> {n}]
             /\ DecodeGiftKey(EncodeGiftKey(key, n)) = [key |-> key, networks |-> {n}]

\* An amount that is written comes back exact and as short as it can be; letters
\* count without a gap; a ratio is off by half a tenth at most.
AmountsSound(n) ==
    /\ DgbToSats(SatsToDgb(n)) = n
    /\ SatsToDgb(n).frac # <<>> => Last(SatsToDgb(n).frac) # 0
    /\ FoldLeft(LAMBDA acc, d : acc * 26 + d + 1, 0, seqLetters[n]) - 1 = n
    /\ \A den \in 1 .. 7 : LET off == 2 * (Health(n % SatsPerDgb, den) * den - (n % SatsPerDgb) * 10)
                           IN off <= den /\ off > -den - 1
=============================================================================
