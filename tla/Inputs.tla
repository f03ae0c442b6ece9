------------------------------- MODULE Inputs -------------------------------
(***************************************************************************)
(* What comes in from outside and is believed or refused: the descriptors  *)
(* of a DigiByte Core wallet (packages/digidollar-js/src/hd.js), payment   *)
(* requests (bip21.js), the answers of the indexer                         *)
(* (apps/wallet/public/validate.js, walletsync.js), the names and states   *)
(* of treasuries (treasuries.js), and two stored or reported numbers       *)
(* (autolock.js, dca.js).                                                  *)
(***************************************************************************)
EXTENDS Texts

-----------------------------------------------------------------------------
(* Derivation: hd.js *)

\* The rows of a list that are among these, in their order: filter() and find().
Keep(rows, good) == FoldLeft(LAMBDA kept, r : IF r \in good THEN Append(kept, r) ELSE kept, <<>>, rows)

\* A step of a path is its number and whether it is hardened; `*` is the address index.
Hardened(n) == <<n, TRUE>>
Plain(n) == <<n, FALSE>>
IsStar(step) == step[1] = -1
Star == Plain(-1)

CoinType == [mainnet |-> 20, testnet |-> 1, regtest |-> 1]

\* deriveTaprootAddress() of a mnemonic's seed: BIP86, account 0.  A key is the path
\* that leads to it from the master key; its two addresses differ with it.
FromSeed(network, change, index) ==
    <<Hardened(86), Hardened(CoinType[network]), Hardened(0), Plain(change), Plain(index)>>

\* parseTrDescriptor(): a private key of one of two kinds, and the path below it.
ParseDescriptor(d) ==
    IF d.private /\ d.kind \in {"tr", "wpkh"}
    THEN [kind |-> d.kind, key |-> d.key, rel |-> d.rel, wildcard |-> \E i \in DOMAIN d.rel : IsStar(d.rel[i])]
    ELSE Refused

\* deriveFromDescriptor(): the last `*` becomes the index, the chain stays as written;
\* what is left of a `*`, or is hardened there, derives nothing.
FromDescriptor(source, index) ==
    LET stars == {i \in DOMAIN source.rel : source.rel[i] = Star}
        rel == IF stars = {} THEN source.rel
               ELSE [source.rel EXCEPT ![CHOOSE i \in stars : \A j \in stars : j <= i] = Plain(index)]
    IN IF \E i \in DOMAIN rel : IsStar(rel[i]) THEN Refused ELSE source.key \o rel

\* parseDescriptorBundle(): of all the lines pasted, the taproot receive chain, the
\* other chains that can be spent from, and the kinds that cannot.
IsReceive(d) == Len(d.rel) > 1 /\ d.rel[Len(d.rel)] = Star /\ d.rel[Len(d.rel) - 1] = Plain(0)
Usable(lines) == Keep(lines, {d \in ToSet(lines) : ParseDescriptor(d) # Refused})

Bundle(lines) ==
    LET usable == Usable(lines)
        taproot == Keep(usable, {d \in ToSet(usable) : d.kind = "tr"})
        receive == Keep(taproot, {d \in ToSet(taproot) : IsReceive(d)})
        primary == Head(receive \o taproot)
    IN IF taproot = <<>> THEN Refused
       ELSE [primary |-> primary,
             extra |-> Keep(usable, ToSet(usable) \ {primary}),
             unsupported |-> {d.kind : d \in {e \in ToSet(lines) : e.private /\ ParseDescriptor(e) = Refused}}]

\* The keys that are watched: so many of each source, in order.
WatchedKeys(sources, ahead) ==
    FlattenSeq([s \in DOMAIN sources |->
        [i \in 1 .. ahead + 1 |-> FromDescriptor(ParseDescriptor(sources[s]), i - 1)]])

\* dedupeUtxos(): of one outpoint the first.
DedupeUtxos(utxos) ==
    FoldLeft(LAMBDA kept, u : IF u \in ToSet(kept) THEN kept ELSE Append(kept, u), <<>>, utxos)

-----------------------------------------------------------------------------
(* Payment requests: bip21.js *)

\* A text is its scheme, whether `://` follows, what stands before the `?`, and the
\* amount after it.
Request(scheme, slashes, body, amount) ==
    [scheme |-> scheme, slashes |-> slashes, body |-> body, amount |-> amount]
NoBody == "none"
Bare == "bare"

EncodeBip21(address, sats) ==
    Request("digibyte", FALSE, address, IF sats = Refused THEN Refused ELSE SatsToDgb(sats))

\* parseBip21(): a foreign scheme with `://` is refused; a text without one is an address.
ParseBip21(text) ==
    CASE text.scheme = Bare -> IF text.body = NoBody THEN Refused ELSE [address |-> <<text.body>>, sats |-> Refused]
      [] text.scheme = "digibyte" ->
            IF text.body = NoBody THEN Refused
            ELSE [address |-> IF text.slashes THEN <<"//", text.body>> ELSE <<text.body>>,
                  sats |-> IF text.amount = Refused THEN Refused ELSE DgbToSats(text.amount)]
      [] OTHER -> IF text.slashes THEN Refused
                  ELSE [address |-> <<text.scheme, text.body>>, sats |-> Refused]

-----------------------------------------------------------------------------
(* The indexer's answers: validate.js *)

\* An answer: whether it is marked incomplete, and the rows of money it carries,
\* Refused where there are none; a row is a number, and 0 a malformed one.
Answer(marked, rows) == [marked |-> marked, rows |-> rows]
Unknowns == <<-1>>

\* asIncomplete(), validateUtxos(), validateDdUtxos(), validatePositions(): a marker that
\* still carries money is refused, and one malformed row refuses them all.
Strict(answer) ==
    IF answer.marked THEN IF answer.rows = Refused THEN Unknowns ELSE Refused
    ELSE IF answer.rows = Refused \/ 0 \in ToSet(answer.rows) THEN Refused ELSE answer.rows

\* fetchIndexer(): what is to be signed from fails closed on the marker too.
Signing(answer) == IF Strict(answer) = Unknowns THEN Refused ELSE Strict(answer)

\* validateHistory(): malformed rows are dropped, and an answer without rows shows none.
Tolerant(answer) ==
    IF answer.rows = Refused THEN <<>> ELSE Keep(answer.rows, ToSet(answer.rows) \ {0})

-----------------------------------------------------------------------------
(* Treasuries: treasuries.js *)

\* treasuryName(): whole dollars, the day it unlocks, its letters; what the user adds
\* follows, and may be glued to the letters.
TreasuryName(dollars, date, seq) ==
    IF dollars < 1 THEN Refused
    ELSE [dollars |-> dollars, date |-> date, letters |-> seqLetters[seq], tail |-> "none"]

\* treasurySlug(), parseTreasuryName(): the prefix, unless the letters do not end there.
TreasurySlug(name) == IF name.tail = "glued" THEN Refused ELSE <<name.dollars, name.date, name.letters>>

\* newBatchId(): one more than the highest of the day.
NewBatchId(ids, day) ==
    LET today == {id[2] : id \in {x \in ids : x[1] = day}}
    IN <<day, 1 + CHOOSE m \in today \union {0} : \A n \in today : n <= m>>

\* collateralHealth(): what the ratio, in tenths of a percent, means.
Level(scaled) == IF scaled >= 2000 THEN "good" ELSE IF scaled >= 1300 THEN "warn" ELSE "bad"

\* pickManifestEntry(): a file of a wallet's folder takes only that wallet's entry; an
\* older one, of no folder, the first of its name.
PickManifestEntry(entries, name, source) ==
    LET found == Keep(entries, {e \in ToSet(entries) : e.name = name /\ (source = Refused \/ e.wallet = source)})
    IN IF found = <<>> THEN Refused ELSE Head(found)

-----------------------------------------------------------------------------
(* Numbers: autolock.js, dca.js, taproot.js *)

\* autolockMinutes(): what is stored, or 5; a text that is no number is Refused.
AutolockMinutes(raw) == IF raw = Refused THEN 5 ELSE IF raw < 0 THEN 5 ELSE raw

\* dcaBpsFromMultiplier(), of a multiplier in thousandths.
DcaBpsOf(multiplier) == IF 1000 <= multiplier /\ multiplier <= 10000 THEN multiplier * 10 ELSE Refused

\* pushScriptNum(): zero is an opcode of its own.
PushScriptNum(n) == IF n = 0 THEN <<0>> ELSE Push(LeMinimal(n))

-----------------------------------------------------------------------------
(* The inputs *)

Line(kind, private, key, rel) == [kind |-> kind, private |-> private, key |-> key, rel |-> rel]
Account(purpose) == <<Hardened(purpose), Hardened(20), Hardened(0)>>

\* What Core exports, at the account and at the master key, for receiving and for change;
\* a watch-only copy, an old kind, a single key, a star that is hardened, and two.
SomeLines ==
    {Line("tr", TRUE, Account(86), <<Plain(c), Star>>) : c \in {0, 1}}
    \union {Line("tr", TRUE, <<>>, Account(86) \o <<Plain(0), Star>>),
            Line("wpkh", TRUE, Account(84), <<Plain(0), Star>>),
            Line("tr", FALSE, Account(86), <<Plain(0), Star>>),
            Line("pkh", TRUE, Account(44), <<Plain(0), Star>>),
            Line("tr", TRUE, Account(86) \o <<Plain(0), Plain(1)>>, <<>>),
            Line("tr", TRUE, Account(86), <<Plain(0), Hardened(-1)>>),
            Line("tr", TRUE, <<Hardened(86)>>, <<Star, Star>>)}
SomeBundles == UNION {[1 .. k -> SomeLines] : k \in 1 .. 3}
Receiving == Account(86) \o <<Plain(0), Star>>
Whole(d) == \A i \in DOMAIN d.rel : IsStar(d.rel[i]) => d.rel[i] = Star /\ i = Len(d.rel)

\* What is refused is neither a descriptor nor a bundle of them.
Path == Seq(Int \X BOOLEAN)
LineKinds == {"tr", "wpkh", "pkh"}
ASSUME DescriptorsAssumption ==
    /\ Refused \notin [kind : LineKinds, key : Path, rel : Path, wildcard : BOOLEAN]
    /\ Refused \notin [primary : SomeLines, extra : Seq(SomeLines), unsupported : SUBSET LineKinds]

-----------------------------------------------------------------------------
(* Properties *)

\* A Core wallet comes over whole: there is a key source exactly where a private taproot
\* line is, the receive chain if there is one; every chain that can be spent from is
\* watched, and a coin that two lines lead to is counted once.
BundlesSound ==
    \A lines \in SomeBundles :
        LET b == Bundle(lines)
            spendable == {d \in ToSet(lines) : d.private /\ d.kind \in {"tr", "wpkh"}}
            sources == <<b.primary>> \o b.extra
            keys == WatchedKeys(sources, 1)
        IN IF \A d \in spendable : d.kind # "tr" THEN b = Refused
           ELSE /\ b # Refused /\ b.primary.kind = "tr"
                /\ (\E d \in spendable : d.kind = "tr" /\ d.key \o d.rel = Receiving) =>
                      b.primary.key \o b.primary.rel = Receiving
                /\ ToSet(sources) = spendable
                /\ b.unsupported = {d.kind : d \in {e \in ToSet(lines) : e.private} \ spendable}
                /\ Len(DedupeUtxos(keys)) = Cardinality(ToSet(keys))

\* A descriptor of either shape leads to the addresses the same words would lead to, and
\* chains never meet: no address of one is an address of the other.
DescriptorsSound ==
    /\ \A d, e \in {x \in SomeLines : x.private /\ x.kind # "pkh" /\ Whole(x) /\ x.rel # <<>>}, i, j \in 0 .. 2 :
          LET key == FromDescriptor(ParseDescriptor(d), i)
          IN /\ d.kind = "tr" => \E c \in {0, 1} : key = FromSeed("mainnet", c, i)
             /\ key = FromDescriptor(ParseDescriptor(e), j) => i = j /\ d.key \o d.rel = e.key \o e.rel
    /\ \A d \in SomeLines : d.private /\ d.kind = "tr" /\ ~Whole(d) => FromDescriptor(ParseDescriptor(d), 0) = Refused

\* A request is read back as it was written, and what is no payment is none.
RequestsSound(n) ==
    /\ \A sats \in {Refused, n} :
          LET asked == ParseBip21(EncodeBip21("a", sats))
          IN asked.address = <<"a">> /\ asked.sats = sats
    /\ \A scheme \in {Bare, "digibyte", "other"}, slashes \in BOOLEAN, body \in {NoBody, "a"} :
          LET r == ParseBip21(Request(scheme, slashes, body, Refused))
          IN r # Refused /\ r.address = <<"a">> => scheme # "other" /\ ~(scheme = "digibyte" /\ slashes)

\* What is unknown or malformed is never signed from, and never passes for nothing.
AnswersSound ==
    \A marked \in BOOLEAN, rows \in {Refused} \union UNION {[1 .. k -> 0 .. 2] : k \in 0 .. 3} :
        LET a == Answer(marked, rows)
        IN /\ Signing(a) # Refused => ~marked /\ Signing(a) = rows /\ \A i \in DOMAIN rows : rows[i] # 0
           /\ Strict(a) = <<>> => rows = <<>> /\ ~marked
           /\ rows # Refused => ToSet(Tolerant(a)) = ToSet(rows) \ {0}

\* Names of one batch differ and are read back; a new batch takes no other's name; a
\* card restored from a wallet's folder is that wallet's.
TreasuriesSound(n) ==
    /\ \A m \in {n, n + 1}, tail \in {"none", "alias"} :
          LET name == [TreasuryName(100, "day", n) EXCEPT !.tail = tail]
          IN /\ TreasurySlug(name) = <<100, "day", seqLetters[n]>>
             /\ TreasurySlug(TreasuryName(100, "day", m)) = TreasurySlug(name) => m = n
    /\ \A ids \in SUBSET ({"d", "e"} \X (1 .. 3)) : NewBatchId(ids, "d") \notin ids
    /\ \A entries \in UNION {[1 .. k -> [name : {"x", "y"}, wallet : {1, 2}]] : k \in 0 .. 2} :
          LET e == PickManifestEntry(entries, "x", 1)
          IN e # Refused => e = [name |-> "x", wallet |-> 1]

\* The lock is off only where 0 was stored; a multiplier under one is refused; the two
\* encodings of a script number are one.
NumbersSound(n) ==
    /\ \A raw \in {Refused, -n, n} : AutolockMinutes(raw) = 0 => raw = 0
    /\ \A m \in {n, 999, 10001} : DcaBpsOf(m) # Refused => DcaBpsOf(m) >= 10000 /\ DcaBpsOf(m) <= 100000
    /\ PushScriptNum(n) = Push(LeMinimal(n))

InputSound(n) ==
    /\ MetadataSound(n) /\ BasesSound(n) /\ AmountsSound(n)
    /\ RequestsSound(n) /\ TreasuriesSound(n) /\ NumbersSound(n)

\* What is written down is read back as it was meant, by this program and by the
\* network, and what is not of its kind is refused: every number that is tried, and,
\* with the first of its neighbourhood, every shape of the other texts.
TextsSound ==
    sample # <<>> =>
        /\ InputSound(Sample)
        /\ sample[2] = 0 => VersionsSound /\ AddressesSound /\ BundlesSound /\ DescriptorsSound /\ AnswersSound
=============================================================================
