---------------------------- MODULE WalLogProofs ----------------------------
(***************************************************************************)
(* Proofs about WalLog for every number of appends, segments and faults.   *)
(* LogKeepsAcked speaks of what is read back and of the lsns in the files; *)
(* the inductive invariant WalInv says in addition where they can lie:     *)
(* LsnsPlaced bounds the lsns of a file by its segment and, as far as the  *)
(* file decodes, by its length, which is what open computes the next lsn   *)
(* from; Unique is then kept because an append gives out an lsn above all  *)
(* others; FilesReadable says that in a log without the excepted faults    *)
(* nothing that decodes lies behind something that does not.               *)
(***************************************************************************)
EXTENDS WalLog, FiniteSetTheorems, WellFoundedInduction, TLAPS

Kinds == {"record", "block", "sealed", "torn"}

Lsns == Nat \X Nat

ItemRecord == [kind : Kinds, n : Nat, lsn : Lsns]

ItemOK(x) == x \in ItemRecord /\ (x.kind = "record" <=> x.n # 0)

FileOK(f) == f \in Seq(ItemRecord) /\ \A i \in DOMAIN f : ItemOK(f[i])

DirOK(d) ==
  /\ d = [s \in DOMAIN d |-> d[s]] /\ DOMAIN d \subseteq 0..MaxSegments
  /\ \A s \in DOMAIN d : FileOK(d[s])

WriterRecord ==
  [up : BOOLEAN, seg : Nat, lsn : Lsns, start : Lsns, file : Nat, buffer : Seq(ItemRecord), durable : Lsns]

WalPastRecord ==
  [count : Nat, faults : Nat, acked : SUBSET Nat, ckpt : Nat,
   behind : BOOLEAN, torn : BOOLEAN, halfway : BOOLEAN, gap : BOOLEAN]

\* The directories hold files, the current one among them; the buffer holds the records
\* appended last, each two units after the one before, and the durable watermark precedes them.
WalTypes ==
  /\ DirOK(live) /\ DirOK(archive)
  /\ writer \in WriterRecord /\ walpast \in WalPastRecord
  /\ writer.file \in DOMAIN live /\ writer.file \in {writer.seg, writer.seg + 1}
  /\ writer.lsn[1] = writer.seg
  /\ 0 \notin walpast.acked
  /\ writer.up = FALSE => writer.buffer = <<>>
  /\ ~ Before(writer.lsn, writer.durable)
  /\ \A j \in DOMAIN writer.buffer :
       /\ ItemOK(writer.buffer[j]) /\ writer.buffer[j].kind = "record"
       /\ writer.buffer[j].lsn = <<writer.seg, writer.lsn[2] - 2 * (Len(writer.buffer) - j + 1)>>
       /\ ~ Before(writer.buffer[j].lsn, writer.durable)

\* The records of file s carry lsns of segment s or, after a failed rotation, of the one before;
\* as far as the file can be decoded, an lsn of its own segment lies inside it, and there is no
\* descriptor record: that one is written behind the block.
Placed(s, f) ==
  \A i \in DOMAIN f :
    /\ f[i].kind = "record" =>
         /\ s - 1 <= f[i].lsn[1] /\ f[i].lsn[1] <= s
         /\ f[i].lsn[1] = s /\ (\A j \in 1..i : ~ Undecodable(f[j])) => f[i].lsn[2] < 2 * i
    /\ f[i].kind = "sealed" => \E j \in 1..i : Undecodable(f[j])

Older(f, lsn) == \A i \in DOMAIN f : f[i].kind = "record" => Before(f[i].lsn, lsn)

LsnsPlaced ==
  walpast.behind = FALSE =>
    /\ DOMAIN live \subseteq 0..writer.file /\ DOMAIN archive \subseteq 0..(writer.file - 1)
    /\ \A s \in DOMAIN live : Placed(s, live[s]) /\ (writer.up = TRUE => Older(live[s], writer.lsn))
    /\ \A s \in DOMAIN archive : Placed(s, archive[s]) /\ (writer.up = TRUE => Older(archive[s], writer.lsn))
    /\ writer.up = TRUE /\ writer.file = writer.seg =>
         \/ \E i \in DOMAIN live[writer.file] : Undecodable(live[writer.file][i])
         \/ writer.lsn[2] <= 2 * Len(live[writer.file]) + 2 * Len(writer.buffer) + 1

\* The records in the files and in the buffer
Held ==
  {x \in ItemRecord :
     /\ x.kind = "record"
     /\ \/ \E s \in DOMAIN live : \E i \in DOMAIN live[s] : live[s][i] = x
        \/ \E s \in DOMAIN archive : \E i \in DOMAIN archive[s] : archive[s][i] = x
        \/ \E i \in DOMAIN writer.buffer : writer.buffer[i] = x}

Unique == walpast.behind = FALSE => \A x, y \in Held : x.lsn = y.lsn => x.n = y.n

Clean == walpast.torn = FALSE /\ walpast.halfway = FALSE /\ walpast.gap = FALSE /\ walpast.behind = FALSE

\* Nothing that decodes lies behind something that does not
Readable(f) == \A i, j \in DOMAIN f : f[i].kind = "record" /\ Undecodable(f[j]) => i < j

FilesReadable ==
  Clean =>
    /\ DOMAIN live \cup DOMAIN archive = 0..writer.file
    /\ \A s \in DOMAIN live : Readable(live[s])
    /\ \A s \in DOMAIN archive : Readable(archive[s])
    /\ writer.up = TRUE => /\ writer.file = writer.seg
                           /\ \A i \in DOMAIN live[writer.file] : ~ Undecodable(live[writer.file][i])

\* The inductive invariant
WalInv == WalTypes /\ LsnsPlaced /\ Unique /\ FilesReadable

-----------------------------------------------------------------------------
\* A non-empty set of naturals has a least member.
LEMMA LeastNat ==
  ASSUME NEW S \in SUBSET Nat, S # {}
  PROVE  \E m \in S : \A k \in S : m <= k
<1> DEFINE L == OpToRel(<, Nat)
<1>1. IsWellFoundedOn(L, Nat)
  BY NatLessThanWellFounded, Zenon
<1>2. PICK m \in S : \A k \in S : ~ (<<k, m>> \in L)
  <2> HIDE DEF L
  <2> QED BY <1>1, WFMin, Zenon
<1>3. \A a, b \in Nat : a < b => <<a, b>> \in L
  BY DEF OpToRel
<1>4. \A k \in S : ~ (k < m)
  <2> HIDE DEF L
  <2> QED BY <1>2, <1>3, Zenon
<1> QED BY <1>4

\* The items Decoded keeps: the longest prefix that decodes.
LEMMA DecodedIs ==
  ASSUME NEW f, FileOK(f)
  PROVE  /\ FileOK(Decoded(f)) /\ Len(Decoded(f)) \in 0..Len(f)
         /\ \A i \in 1..Len(Decoded(f)) : Decoded(f)[i] = f[i] /\ ~ Undecodable(f[i])
         /\ Len(Decoded(f)) < Len(f) => Undecodable(f[Len(Decoded(f)) + 1])
<1> DEFINE P(n) == /\ \A i \in 1..n : ~ Undecodable(f[i])
                   /\ n < Len(f) => Undecodable(f[n + 1])
           m == CHOOSE n \in 0..Len(f) : P(n)
<1>0. f \in Seq(ItemRecord) /\ Len(f) \in Nat /\ DOMAIN f = 1..Len(f)
  BY DEF FileOK
<1>1. \E n \in 0..Len(f) : P(n)
  <2> DEFINE S == {k \in 1..Len(f) : Undecodable(f[k])}
  <2>1. CASE S = {}
    BY <1>0, <2>1
  <2>2. CASE S # {}
    <3>0. S \in SUBSET Nat
      BY <1>0
    <3>1. PICK k \in S : \A j \in S : k <= j
      <4> HIDE DEF S
      <4> QED BY <2>2, <3>0, LeastNat
    <3>2. k \in 1..Len(f) /\ Undecodable(f[k]) /\ k - 1 \in 0..Len(f) /\ (k - 1) + 1 = k
      BY <1>0, <3>1
    <3>3. \A i \in 1..(k - 1) : ~ Undecodable(f[i])
      <4> SUFFICES ASSUME NEW i \in 1..(k - 1), Undecodable(f[i]) PROVE FALSE
        OBVIOUS
      <4>1. i \in S
        BY <1>0, <3>2
      <4> QED BY <3>1, <3>2, <4>1
    <3> QED BY <3>2, <3>3, Zenon
  <2> QED BY <2>1, <2>2
<1>2. m \in 0..Len(f) /\ P(m)
  BY <1>1, Zenon
<1>3. Decoded(f) = SubSeq(f, 1, m)
  BY DEF Decoded
<1> HIDE DEF m
<1>4. /\ Decoded(f) \in Seq(ItemRecord) /\ Len(Decoded(f)) = m
      /\ \A i \in 1..m : Decoded(f)[i] = f[i]
  BY <1>0, <1>2, <1>3
<1>5. FileOK(Decoded(f))
  BY <1>0, <1>2, <1>4 DEF FileOK
<1> QED BY <1>2, <1>4, <1>5

\* What is written behind a file: items of the buffer in order, and nothing that decodes behind
\* something that does not.
Follows(f, b, g) ==
  /\ FileOK(g) /\ Len(g) >= Len(f)
  /\ \A i \in 1..Len(f) : g[i] = f[i]
  /\ \A i \in (Len(f) + 1)..Len(g) :
       \/ i - Len(f) <= Len(b) /\ g[i] = b[i - Len(f)]
       \/ g[i].kind # "record" /\ \E j \in (Len(f) + 1)..i : Undecodable(g[j]) /\ \A k \in j..Len(g) : g[k].kind # "record"

\* The items that close or tear a segment, none of them a record.
LEMMA TailOK == ItemOK(TornItem) /\ ItemOK(Block) /\ ItemOK(Sealed) /\ Undecodable(TornItem) /\ Undecodable(Block)
BY DEF ItemOK, TornItem, Block, Sealed, Item, ItemRecord, Kinds, Lsns, Undecodable

\* A whole write, with or without the seal, and what an interrupted one leaves behind.
LEMMA WrittenFollows ==
  ASSUME NEW f, NEW b, FileOK(f), FileOK(b)
  PROVE  /\ Follows(f, b, f \o b) /\ Len(f \o b) = Len(f) + Len(b)
         /\ Follows(f, b, (f \o b) \o <<Block>>) /\ Follows(f, b, (f \o b) \o <<Block, Sealed>>)
<1>0. f \in Seq(ItemRecord) /\ b \in Seq(ItemRecord) /\ Block \in ItemRecord /\ Sealed \in ItemRecord
  BY TailOK DEF FileOK, ItemOK
<1>1. /\ f \o b \in Seq(ItemRecord) /\ Len(f \o b) = Len(f) + Len(b)
      /\ \A i \in 1..Len(f) : (f \o b)[i] = f[i]
      /\ \A i \in (Len(f) + 1)..(Len(f) + Len(b)) : (f \o b)[i] = b[i - Len(f)]
  BY <1>0
<1>2. FileOK(f \o b)
  <2>1. ASSUME NEW i \in 1..(Len(f) + Len(b)) PROVE ItemOK((f \o b)[i])
    <3>1. CASE i <= Len(f)
      BY <1>0, <1>1, <3>1 DEF FileOK
    <3>2. CASE i > Len(f)
      <4>1. i - Len(f) \in DOMAIN b /\ (f \o b)[i] = b[i - Len(f)]
        BY <1>0, <1>1, <3>2, SMTT(30)
      <4> QED BY <4>1 DEF FileOK
    <3> QED BY <1>0, <3>1, <3>2
  <2> QED BY <1>1, <2>1 DEF FileOK
<1>3. Follows(f, b, f \o b)
  BY <1>0, <1>1, <1>2 DEF Follows
<1>4. ASSUME NEW t \in {<<Block>>, <<Block, Sealed>>}
      PROVE  Follows(f, b, (f \o b) \o t)
  <2> DEFINE h == f \o b
             g == h \o t
  <2>1. /\ t \in Seq(ItemRecord) /\ Len(t) \in 1..2 /\ t[1] = Block
        /\ \A i \in 1..Len(t) : ItemOK(t[i]) /\ t[i].kind # "record"
    <3>1. Block.kind # "record" /\ Sealed.kind # "record"
      BY DEF Block, Sealed, Item
    <3>2. CASE t = <<Block>>
      BY <1>0, <3>1, <3>2, TailOK, SMTT(30)
    <3>3. CASE t = <<Block, Sealed>>
      BY <1>0, <3>1, <3>3, TailOK, SMTT(30)
    <3> QED BY <3>2, <3>3
  <2> HIDE DEF h
  <2>2. h \in Seq(ItemRecord) /\ Len(h) = Len(f) + Len(b) /\ Len(f) \in Nat /\ Len(b) \in Nat
    BY <1>0, <1>1 DEF h
  <2>3. /\ g \in Seq(ItemRecord) /\ Len(g) = Len(h) + Len(t)
        /\ \A i \in 1..Len(h) : g[i] = h[i]
        /\ \A i \in (Len(h) + 1)..Len(g) : g[i] = t[i - Len(h)] /\ i - Len(h) \in 1..Len(t)
    BY <2>1, <2>2, SMTT(30)
  <2> HIDE DEF g
  <2>4. FileOK(g)
    <3>1. ASSUME NEW i \in 1..Len(g) PROVE ItemOK(g[i])
      <4>1. CASE i <= Len(h)
        <5>1. i \in 1..Len(h) /\ i \in DOMAIN h
          BY <2>2, <4>1
        <5>2. FileOK(h)
          BY <1>2 DEF h
        <5> QED BY <2>3, <5>1, <5>2 DEF FileOK
      <4>2. CASE i > Len(h)
        <5>1. i \in (Len(h) + 1)..Len(g)
          BY <2>1, <2>2, <2>3, <4>2, SMTT(30)
        <5> QED BY <2>1, <2>3, <5>1, Zenon
      <4> QED BY <2>2, <4>1, <4>2
    <3> QED BY <2>3, <3>1 DEF FileOK
  <2>5. Len(g) >= Len(f) /\ \A i \in 1..Len(f) : g[i] = f[i]
    BY <1>1, <2>1, <2>2, <2>3, SMTT(30) DEF h
  <2>6. ASSUME NEW i \in (Len(f) + 1)..Len(g)
        PROVE  \/ i - Len(f) <= Len(b) /\ g[i] = b[i - Len(f)]
               \/ g[i].kind # "record" /\ \E j \in (Len(f) + 1)..i : Undecodable(g[j]) /\ \A k \in j..Len(g) : g[k].kind # "record"
    <3>1. CASE i <= Len(h)
      <4>1. i \in (Len(f) + 1)..(Len(f) + Len(b)) /\ i \in 1..Len(h)
        BY <2>2, <3>1
      <4> QED BY <1>1, <2>2, <2>3, <4>1 DEF h
    <3>2. CASE i > Len(h)
      <4> DEFINE j == Len(h) + 1
      <4>1. j \in (Len(f) + 1)..i /\ j \in (Len(h) + 1)..Len(g) /\ j - Len(h) = 1
        BY <2>1, <2>2, <2>3, <3>2, SMTT(30)
      <4>2. Undecodable(g[j])
        BY <2>1, <2>3, <4>1, TailOK, Zenon
      <4>3. \A k \in j..Len(g) : g[k].kind # "record"
        BY <2>1, <2>3, Zenon
      <4>4. i \in j..Len(g)
        BY <2>1, <2>2, <2>3, <3>2, SMTT(30)
      <4> QED BY <4>1, <4>2, <4>3, <4>4, Zenon
    <3> QED BY <2>2, <3>1, <3>2
  <2> QED BY <2>4, <2>5, <2>6, Zenon DEF Follows, g, h
<1> QED BY <1>1, <1>3, <1>4

\* What a failed or interrupted write of the buffer leaves behind the file.
LEMMA RemainsFollow ==
  ASSUME NEW f, NEW b, FileOK(f), FileOK(b), NEW g \in Remains(f, b)
  PROVE  /\ Follows(f, b, g)
         /\ \A i \in (Len(f) + 1)..Len(g) : g[i] = TornItem \/ (i - Len(f) <= Len(b) /\ g[i] = b[i - Len(f)])
<1>0. f \in Seq(ItemRecord) /\ b \in Seq(ItemRecord) /\ Len(f) \in Nat /\ Len(b) \in Nat
  BY DEF FileOK
<1>1. ASSUME NEW k \in 0..Len(b)
      PROVE  LET h == f \o SubSeq(b, 1, k)
             IN  /\ FileOK(h) /\ Len(h) = Len(f) + k
                 /\ \A i \in 1..Len(f) : h[i] = f[i]
                 /\ \A i \in (Len(f) + 1)..(Len(f) + k) : h[i] = b[i - Len(f)]
  <2> DEFINE c == SubSeq(b, 1, k)
             h == f \o c
  <2>1. c \in Seq(ItemRecord) /\ Len(c) = k /\ \A i \in 1..k : c[i] = b[i]
    BY <1>0
  <2> HIDE DEF c
  <2>2. /\ h \in Seq(ItemRecord) /\ Len(h) = Len(f) + k
        /\ \A i \in 1..Len(f) : h[i] = f[i]
        /\ \A i \in (Len(f) + 1)..(Len(f) + k) : h[i] = c[i - Len(f)] /\ i - Len(f) \in 1..k
    BY <1>0, <2>1, SMTT(30)
  <2> HIDE DEF h
  <2>3. \A i \in (Len(f) + 1)..(Len(f) + k) : h[i] = b[i - Len(f)] /\ i - Len(f) \in DOMAIN b
    BY <1>0, <2>1, <2>2, SMTT(30)
  <2>4. \A i \in DOMAIN h : i \in 1..Len(f) \/ i \in (Len(f) + 1)..(Len(f) + k)
    BY <1>0, <2>2
  <2>5. \A i \in DOMAIN h : ItemOK(h[i])
    BY <1>0, <2>2, <2>3, <2>4, SMTT(30) DEF FileOK
  <2>6. FileOK(h)
    BY <2>2, <2>5 DEF FileOK
  <2>7. h = f \o SubSeq(b, 1, k)
    BY DEF h, c
  <2> QED BY <2>2, <2>3, <2>6, <2>7, Zenon
<1>2. CASE g \in {f \o SubSeq(b, 1, k) : k \in 0..Len(b)}
  <2>1. PICK k \in 0..Len(b) : g = f \o SubSeq(b, 1, k)
    BY <1>2, Zenon
  <2>2. /\ FileOK(g) /\ Len(g) = Len(f) + k
        /\ \A i \in 1..Len(f) : g[i] = f[i]
        /\ \A i \in (Len(f) + 1)..(Len(f) + k) : g[i] = b[i - Len(f)]
    BY <1>1, <2>1, Zenon
  <2> QED BY <1>0, <2>2 DEF Follows
<1>3. CASE g \in {Append(f \o SubSeq(b, 1, k), TornItem) : k \in 0..Len(b) - 1}
  <2>1. PICK k \in 0..Len(b) - 1 : g = Append(f \o SubSeq(b, 1, k), TornItem)
    BY <1>3, Zenon
  <2> DEFINE h == f \o SubSeq(b, 1, k)
  <2>2. k \in 0..Len(b)
    BY <1>0
  <2>3. /\ FileOK(h) /\ Len(h) = Len(f) + k
        /\ \A i \in 1..Len(f) : h[i] = f[i]
        /\ \A i \in (Len(f) + 1)..(Len(f) + k) : h[i] = b[i - Len(f)]
    BY <1>1, <2>2
  <2>4. g = Append(h, TornItem)
    BY <2>1
  <2> HIDE DEF h
  <2>5. h \in Seq(ItemRecord) /\ TornItem \in ItemRecord
    BY <2>3, TailOK, Zenon DEF FileOK, ItemOK
  <2>6. /\ g \in Seq(ItemRecord) /\ Len(g) = Len(f) + k + 1 /\ g[Len(f) + k + 1] = TornItem
        /\ \A i \in 1..(Len(f) + k) : g[i] = h[i]
    <3>1. /\ g \in Seq(ItemRecord) /\ Len(g) = Len(h) + 1 /\ g[Len(h) + 1] = TornItem
          /\ \A i \in 1..Len(h) : g[i] = h[i]
      BY <2>4, <2>5, SMTT(30)
    <3> QED BY <1>0, <2>2, <2>3, <3>1, Zenon
  <2>7. FileOK(g)
    <3>1. ASSUME NEW i \in 1..(Len(f) + k + 1) PROVE ItemOK(g[i])
      <4>1. CASE i = Len(f) + k + 1
        BY <2>6, <4>1, TailOK, Zenon
      <4>2. CASE i # Len(f) + k + 1
        <5>1. i \in 1..(Len(f) + k) /\ i \in DOMAIN h
          <6>1. DOMAIN h = 1..Len(h)
            BY <2>5
          <6> QED BY <1>0, <2>2, <2>3, <4>2, <6>1, SMTT(30)
        <5> QED BY <2>3, <2>6, <5>1, Zenon DEF FileOK
      <4> QED BY <4>1, <4>2, Zenon
    <3> QED BY <2>6, <3>1, SMTT(30) DEF FileOK
  <2>8. \A i \in 1..Len(f) : g[i] = f[i]
    BY <1>0, <2>2, <2>3, <2>6, SMTT(30)
  <2>9. \A i \in (Len(f) + 1)..Len(g) :
          (i - Len(f) <= Len(b) /\ g[i] = b[i - Len(f)]) \/ (i = Len(g) /\ g[i] = TornItem)
    <3> SUFFICES ASSUME NEW i \in (Len(f) + 1)..Len(g), i # Len(f) + k + 1
                 PROVE  i - Len(f) <= Len(b) /\ g[i] = b[i - Len(f)]
      BY <2>6, Zenon
    <3>0. Len(g) = Len(f) + k + 1 /\ Len(f) \in Nat /\ Len(b) \in Nat /\ k \in Nat /\ k <= Len(b)
      BY <1>0, <2>2, <2>6, SMTT(30)
    <3>1. i \in (Len(f) + 1)..(Len(f) + k) /\ i \in 1..(Len(f) + k) /\ i - Len(f) <= Len(b)
      BY <3>0
    <3> QED BY <2>3, <2>6, <3>1, Zenon
  <2>10. Undecodable(TornItem) /\ TornItem.kind # "record"
    BY TailOK DEF TornItem, Item
  <2> QED BY <1>0, <2>2, <2>6, <2>7, <2>8, <2>9, <2>10, SMTT(30) DEF Follows
<1> QED BY <1>2, <1>3, Zenon DEF Remains

\* The probe finds the end of the contiguous range.
LEMMA HighestIs ==
  ASSUME NEW ids \in SUBSET (0..MaxSegments)
  PROVE  /\ Highest(ids) \in ids \cup {0} /\ Highest(ids) \in 0..MaxSegments
         /\ 1..Highest(ids) \subseteq ids /\ Highest(ids) + 1 \notin ids
<1> DEFINE S == {k \in Nat : k + 1 \notin ids}
<1>1. S \in SUBSET Nat /\ MaxSegments \in S
  BY WalAssumption
<1>2. PICK m \in S : \A k \in S : m <= k
  <2> HIDE DEF S
  <2> QED BY <1>1, LeastNat
<1>3. m \in Nat /\ m + 1 \notin ids /\ \A k \in Nat : k < m => k + 1 \in ids
  BY <1>2
<1>4. \A i \in 1..m : i \in ids
  <2> SUFFICES ASSUME NEW i \in 1..m PROVE i \in ids
    OBVIOUS
  <2>1. i - 1 \in Nat /\ i - 1 < m /\ (i - 1) + 1 = i
    BY <1>3
  <2> QED BY <1>3, <2>1
<1>5. m \in ids \cup {0}
  BY <1>3, <1>4
<1>6. Highest(ids) \in ids \cup {0} /\ 1..Highest(ids) \subseteq ids /\ Highest(ids) + 1 \notin ids
  BY <1>3, <1>4, <1>5, Zenon DEF Highest
<1>7. ids \cup {0} \subseteq 0..MaxSegments
  BY WalAssumption
<1> QED BY <1>6, <1>7, Zenon

\* A file of records alone has two units for each of them.
LEMMA FileLenIs ==
  ASSUME NEW f, FileOK(f)
  PROVE  /\ FileLen(f) \in Nat
         /\ (\A i \in DOMAIN f : f[i].kind = "record") => FileLen(f) = 2 * Len(f)
<1> DEFINE Of(k) == {i \in DOMAIN f : f[i].kind = k}
<1>0. f \in Seq(ItemRecord) /\ Len(f) \in Nat /\ DOMAIN f = 1..Len(f)
  BY DEF FileOK
<1>1. IsFiniteSet(1..Len(f)) /\ Cardinality(1..Len(f)) = Len(f)
  BY <1>0, FS_Interval, SMTT(30)
<1>2. ASSUME NEW k PROVE IsFiniteSet(Of(k)) /\ Cardinality(Of(k)) \in Nat
  BY <1>0, <1>1, FS_Subset, FS_CardinalityType
<1>3. FileLen(f) = 2 * Cardinality(Of("record")) + 4 * Cardinality(Of("block"))
                     + 5 * Cardinality(Of("sealed")) + 1 * Cardinality(Of("torn"))
  BY DEF FileLen, Size, Count
<1>4. ASSUME \A i \in DOMAIN f : f[i].kind = "record"
      PROVE  /\ Cardinality(Of("record")) = Len(f) /\ Cardinality(Of("block")) = 0
             /\ Cardinality(Of("sealed")) = 0 /\ Cardinality(Of("torn")) = 0
  <2>1. Of("record") = 1..Len(f) /\ Of("block") = {} /\ Of("sealed") = {} /\ Of("torn") = {}
    BY <1>0, <1>4
  <2> QED BY <1>1, <2>1, FS_EmptySet, Zenon
<1> DEFINE r == Cardinality(Of("record"))
           k == Cardinality(Of("block"))
           d == Cardinality(Of("sealed"))
           t == Cardinality(Of("torn"))
<1>5. r \in Nat /\ k \in Nat /\ d \in Nat /\ t \in Nat
  BY <1>2, Zenon
<1>6. FileLen(f) = 2 * r + 4 * k + 5 * d + 1 * t
  BY <1>3, Zenon
<1>7. (\A i \in DOMAIN f : f[i].kind = "record") => r = Len(f) /\ k = 0 /\ d = 0 /\ t = 0
  BY <1>4
<1> HIDE DEF r, k, d, t
<1>8. Len(f) \in Nat
  BY <1>0
<1>9. FileLen(f) \in Nat
  BY <1>5, <1>6
<1>10. ASSUME r = Len(f), k = 0, d = 0, t = 0 PROVE FileLen(f) = 2 * Len(f)
  BY <1>5, <1>6, <1>8, <1>10, SMTT(30)
<1> QED BY <1>7, <1>9, <1>10, Zenon

-----------------------------------------------------------------------------
\* Where the file f of segment s comes from when the current file becomes g
Comes(s, f, g) ==
  \/ s = writer.file /\ f = g
  \/ s # writer.file /\ s \in DOMAIN live /\ f = live[s]
  \/ s \in DOMAIN archive /\ f = archive[s]
  \/ f = <<>>

\* The file the writer appends to, and its buffer.
LEMMA CurrentFile ==
  ASSUME WalInv
  PROVE  /\ FileOK(live[writer.file]) /\ FileOK(writer.buffer)
         /\ live[writer.file] \in Seq(ItemRecord) /\ writer.buffer \in Seq(ItemRecord)
         /\ Len(live[writer.file]) \in Nat /\ Len(writer.buffer) \in Nat
         /\ DOMAIN live[writer.file] = 1..Len(live[writer.file])
         /\ DOMAIN writer.buffer = 1..Len(writer.buffer)
         /\ writer.seg \in Nat /\ writer.file \in Nat /\ writer.lsn \in Nat \X Nat
<1>1. FileOK(live[writer.file])
  BY DEF WalInv, WalTypes, DirOK
<1>2. writer.buffer \in Seq(ItemRecord) /\ writer.seg \in Nat /\ writer.file \in Nat /\ writer.lsn \in Nat \X Nat
  BY Zenon DEF WalInv, WalTypes, WriterRecord, Lsns
<1>3. FileOK(writer.buffer)
  BY <1>2, Zenon DEF FileOK, WalInv, WalTypes
<1> QED BY <1>1, <1>2, <1>3, SMTT(30) DEF FileOK

\* The items of the buffer, as records of the current file
LEMMA BufferItem ==
  ASSUME WalInv, NEW j \in DOMAIN writer.buffer
  PROVE  LET x == writer.buffer[j]
         IN  /\ x \in ItemRecord /\ x.kind = "record" /\ ~ Undecodable(x) /\ x.lsn[1] = writer.seg
             /\ x.lsn[2] = writer.lsn[2] - 2 * (Len(writer.buffer) - j + 1)
             /\ Before(x.lsn, writer.lsn)
<1> DEFINE x == writer.buffer[j]
<1>1. x.kind = "record" /\ x \in ItemRecord /\ x.lsn = <<writer.seg, writer.lsn[2] - 2 * (Len(writer.buffer) - j + 1)>>
  BY DEF WalInv, WalTypes, ItemOK
<1>2. ~ Undecodable(x)
  BY <1>1, Zenon DEF Undecodable
<1>3. x.lsn[1] = writer.seg /\ x.lsn[2] = writer.lsn[2] - 2 * (Len(writer.buffer) - j + 1)
  BY <1>1, SMTT(30)
<1>4. writer.lsn[1] = writer.seg
  BY DEF WalInv, WalTypes
<1>5. writer.lsn[2] \in Nat /\ Len(writer.buffer) \in Nat /\ j \in 1..Len(writer.buffer)
  BY CurrentFile, Zenon
<1>6. Before(x.lsn, writer.lsn)
  BY <1>3, <1>4, <1>5, SMTT(30) DEF Before
<1> QED BY <1>1, <1>2, <1>3, <1>6, Zenon

\* Records that reach the current file lie in the segment of their lsn or the next one.
LEMMA WrittenPlaced ==
  ASSUME WalInv, walpast.behind = FALSE, writer.up = TRUE, NEW g, Follows(live[writer.file], writer.buffer, g)
  PROVE  Placed(writer.file, g) /\ Older(g, writer.lsn)
<1> DEFINE f == live[writer.file]
           b == writer.buffer
<1>0. /\ Len(f) \in Nat /\ Len(b) \in Nat /\ DOMAIN f = 1..Len(f) /\ DOMAIN b = 1..Len(b)
      /\ writer.seg \in Nat /\ writer.file \in Nat /\ writer.lsn \in Nat \X Nat
      /\ writer.file \in {writer.seg, writer.seg + 1}
  BY CurrentFile, Zenon DEF WalInv, WalTypes
<1>1. g \in Seq(ItemRecord) /\ Len(g) \in Nat /\ DOMAIN g = 1..Len(g) /\ Len(g) >= Len(f)
  BY DEF Follows, FileOK
<1>2. Placed(writer.file, f) /\ Older(f, writer.lsn)
  BY ZenonT(30) DEF WalInv, WalTypes, LsnsPlaced
<1>3. ASSUME NEW i \in DOMAIN g, g[i].kind = "record"
      PROVE  /\ writer.file - 1 <= g[i].lsn[1] /\ g[i].lsn[1] <= writer.file
             /\ g[i].lsn[1] = writer.file /\ (\A j \in 1..i : ~ Undecodable(g[j])) => g[i].lsn[2] < 2 * i
             /\ Before(g[i].lsn, writer.lsn)
  <2>1. CASE i <= Len(f)
    <3>1. i \in DOMAIN f /\ g[i] = f[i] /\ \A j \in 1..i : g[j] = f[j]
      BY <1>0, <1>1, <2>1, SMTT(30) DEF Follows
    <3> QED BY <1>2, <1>3, <3>1, Zenon DEF Placed, Older
  <2>2. CASE i > Len(f)
    <3>1. i \in (Len(f) + 1)..Len(g)
      BY <1>0, <1>1, <2>2, SMTT(30)
    <3>2. i - Len(f) <= Len(b) /\ g[i] = b[i - Len(f)]
      BY <1>3, <3>1, Zenon DEF Follows
    <3> DEFINE j == i - Len(f)
    <3>3. j \in DOMAIN b /\ j \in Nat /\ i = Len(f) + j
      <4> HIDE DEF f, b
      <4>1. Len(f) \in Nat /\ Len(b) \in Nat /\ DOMAIN b = 1..Len(b) /\ i \in Int /\ i >= Len(f) + 1
        BY <1>0, <1>1, <3>1, SMTT(30)
      <4>2. i - Len(f) <= Len(b)
        BY <3>2
      <4> QED BY <4>1, <4>2, SMTT(30)
    <3>4. /\ g[i].lsn[1] = writer.seg /\ g[i].lsn[2] = writer.lsn[2] - 2 * (Len(b) - j + 1)
          /\ Before(g[i].lsn, writer.lsn)
      BY <3>2, <3>3, BufferItem, Zenon
    <3>5. ASSUME g[i].lsn[1] = writer.file, \A k \in 1..i : ~ Undecodable(g[k])
          PROVE  g[i].lsn[2] < 2 * i
      <4>1. \A k \in DOMAIN f : ~ Undecodable(f[k])
        BY <1>0, <1>1, <3>1, <3>5, SMTT(30) DEF Follows
      <4>2. writer.file = writer.seg
        BY <3>4, <3>5, Zenon
      <4>3. writer.lsn[2] <= 2 * Len(f) + 2 * Len(b) + 1
        BY <4>1, <4>2, Zenon DEF WalInv, LsnsPlaced
      <4>4. /\ writer.lsn[2] \in Nat /\ Len(f) \in Nat /\ Len(b) \in Nat /\ j \in Nat /\ i = Len(f) + j
            /\ g[i].lsn[2] = writer.lsn[2] - 2 * (Len(b) - j + 1)
        BY <1>0, <3>3, <3>4, Zenon
      <4> HIDE DEF f, b, j
      <4> QED BY <4>3, <4>4, SMTT(30)
    <3>6. writer.file - 1 <= g[i].lsn[1] /\ g[i].lsn[1] <= writer.file
      BY <1>0, <3>4, SMTT(30)
    <3> QED BY <3>4, <3>5, <3>6
  <2> QED BY <1>0, <1>1, <2>1, <2>2, SMTT(30)
<1>4. ASSUME NEW i \in DOMAIN g, g[i].kind = "sealed"
      PROVE  \E j \in 1..i : Undecodable(g[j])
  <2>1. CASE i <= Len(f)
    <3>1. i \in DOMAIN f /\ g[i] = f[i] /\ \A j \in 1..i : g[j] = f[j]
      BY <1>0, <1>1, <2>1 DEF Follows
    <3> QED BY <1>2, <1>4, <3>1, Zenon DEF Placed
  <2>2. CASE i > Len(f)
    <3>1. i \in (Len(f) + 1)..Len(g)
      BY <1>0, <1>1, <2>2
    <3>2. ~ (i - Len(f) <= Len(b) /\ g[i] = b[i - Len(f)])
      <4> SUFFICES ASSUME i - Len(f) <= Len(b), g[i] = b[i - Len(f)] PROVE FALSE
        BY Zenon
      <4>1. i - Len(f) \in DOMAIN b
        BY <1>0, <3>1, SMTT(30)
      <4> QED BY <1>4, <4>1, BufferItem, Zenon
    <3>3. PICK j \in (Len(f) + 1)..i : Undecodable(g[j])
      BY <3>1, <3>2, Zenon DEF Follows
    <3>4. j \in 1..i
      BY <1>0, <3>1, <3>3, SMTT(30)
    <3> QED BY <3>3, <3>4, Zenon
  <2> QED BY <1>0, <1>1, <2>1, <2>2, SMTT(30)
<1> QED BY <1>3, <1>4, Zenon DEF Placed, Older

\* In a log without faults, a write adds nothing that decodes behind something that does not.
LEMMA WrittenReadable ==
  ASSUME WalInv, Clean, writer.up = TRUE, NEW g, Follows(live[writer.file], writer.buffer, g)
  PROVE  Readable(g)
<1> DEFINE f == live[writer.file]
           b == writer.buffer
<1>0. /\ Len(f) \in Nat /\ Len(b) \in Nat /\ DOMAIN f = 1..Len(f) /\ DOMAIN b = 1..Len(b)
  BY CurrentFile
<1>1. Len(g) \in Nat /\ DOMAIN g = 1..Len(g) /\ Len(g) >= Len(f)
  BY DEF Follows, FileOK
<1>2. \A i \in DOMAIN f : ~ Undecodable(f[i])
  BY DEF WalInv, FilesReadable
<1> SUFFICES ASSUME NEW i \in DOMAIN g, NEW j \in DOMAIN g, g[i].kind = "record", Undecodable(g[j])
             PROVE  i < j
  BY Zenon DEF Readable
<1>3. j \in (Len(f) + 1)..Len(g)
  BY <1>0, <1>1, <1>2, SMTT(30) DEF Follows
<1>4. ~ (j - Len(f) <= Len(b) /\ g[j] = b[j - Len(f)])
  <2> SUFFICES ASSUME j - Len(f) <= Len(b), g[j] = b[j - Len(f)] PROVE FALSE
    BY Zenon
  <2>1. j - Len(f) \in DOMAIN b
    BY <1>0, <1>3, SMTT(30)
  <2> QED BY <2>1, BufferItem, Zenon
<1>5. PICK k \in (Len(f) + 1)..j : \A l \in k..Len(g) : g[l].kind # "record"
  BY <1>3, <1>4, Zenon DEF Follows
<1>6. i < k
  BY <1>0, <1>1, <1>3, <1>5, SMTT(30)
<1> QED BY <1>0, <1>1, <1>3, <1>5, <1>6, SMTT(30)

\* The order of lsns.
LEMMA BeforeTransitive ==
  ASSUME NEW x \in Lsns, NEW y \in Lsns, NEW z \in Lsns, Before(x, y), ~ Before(z, y)
  PROVE  Before(x, z)
BY SMTT(30) DEF Before, Lsns

\* Whatever a write leaves, in place or in another directory, keeps lsns placed, distinct and readable.
LEMMA WriteStep ==
  ASSUME WalInv, WalTypes', writer.up = TRUE, NEW g, Follows(live[writer.file], writer.buffer, g),
         \A s \in DOMAIN live' : Comes(s, live'[s], g),
         \A s \in DOMAIN archive' : Comes(s, archive'[s], g),
         ~ Before(writer'.lsn, writer.lsn), writer'.buffer \in {<<>>, writer.buffer},
         walpast'.behind = walpast.behind
  PROVE  /\ walpast.behind = FALSE =>
              /\ \A s \in DOMAIN live' : Placed(s, live'[s]) /\ Older(live'[s], writer'.lsn)
              /\ \A s \in DOMAIN archive' : Placed(s, archive'[s]) /\ Older(archive'[s], writer'.lsn)
         /\ Unique'
         /\ Clean => /\ \A s \in DOMAIN live' : Readable(live'[s])
                     /\ \A s \in DOMAIN archive' : Readable(archive'[s])
<1>1. ASSUME walpast.behind = FALSE, NEW s, NEW f, FileOK(f), Comes(s, f, g)
      PROVE  Placed(s, f) /\ Older(f, writer'.lsn)
  <2>1. Placed(s, f) /\ Older(f, writer.lsn)
    <3>1. CASE s = writer.file /\ f = g
      BY <1>1, <3>1, WrittenPlaced, Zenon
    <3>2. CASE s \in DOMAIN live /\ f = live[s]
      BY <1>1, <3>2, Zenon DEF WalInv, LsnsPlaced
    <3>3. CASE s \in DOMAIN archive /\ f = archive[s]
      BY <1>1, <3>3, ZenonT(30) DEF WalInv, LsnsPlaced
    <3>4. CASE f = <<>>
      BY <3>4, SMTT(30) DEF Placed, Older
    <3> QED BY <1>1, <3>1, <3>2, <3>3, <3>4, Zenon DEF Comes
  <2>2. writer.lsn \in Lsns /\ writer'.lsn \in Lsns
    BY Zenon DEF WalInv, WalTypes, WriterRecord
  <2>3. \A i \in DOMAIN f : f[i].lsn \in Lsns
    BY <1>1, Zenon DEF FileOK, ItemOK, ItemRecord
  <2>4. Older(f, writer'.lsn)
    BY <2>1, <2>2, <2>3, BeforeTransitive, Zenon DEF Older
  <2> QED BY <2>1, <2>4, Zenon
<1>2. /\ \A s \in DOMAIN live' : FileOK(live'[s])
      /\ \A s \in DOMAIN archive' : FileOK(archive'[s])
  BY Zenon DEF WalTypes, DirOK
<1>3. walpast.behind = FALSE =>
              /\ \A s \in DOMAIN live' : Placed(s, live'[s]) /\ Older(live'[s], writer'.lsn)
              /\ \A s \in DOMAIN archive' : Placed(s, archive'[s]) /\ Older(archive'[s], writer'.lsn)
  BY <1>1, <1>2, ZenonT(30)
<1>4. Held' \subseteq Held
  <2>1. ASSUME NEW s, NEW f, Comes(s, f, g), NEW i \in DOMAIN f, f[i] \in ItemRecord, f[i].kind = "record"
        PROVE  f[i] \in Held
    <3>1. CASE s = writer.file /\ f = g
      <4>0. /\ Len(live[writer.file]) \in Nat /\ Len(writer.buffer) \in Nat /\ Len(g) \in Nat
            /\ DOMAIN live[writer.file] = 1..Len(live[writer.file]) /\ DOMAIN writer.buffer = 1..Len(writer.buffer)
            /\ DOMAIN g = 1..Len(g) /\ writer.file \in DOMAIN live
        BY CurrentFile, SMTT(30) DEF Follows, FileOK, WalInv, WalTypes
      <4>1. CASE i \in 1..Len(live[writer.file])
        BY <2>1, <3>1, <4>0, <4>1, Zenon DEF Follows, Held
      <4>2. CASE i \notin 1..Len(live[writer.file])
        <5>1. i \in (Len(live[writer.file]) + 1)..Len(g)
          BY <2>1, <3>1, <4>0, <4>2, SMTT(30)
        <5>2. /\ i - Len(live[writer.file]) <= Len(writer.buffer)
              /\ g[i] = writer.buffer[i - Len(live[writer.file])]
          BY <2>1, <3>1, <5>1, Zenon DEF Follows
        <5>3. i - Len(live[writer.file]) \in DOMAIN writer.buffer
          <6> DEFINE lf == Len(live[writer.file])
                     lb == Len(writer.buffer)
          <6>1. lf \in Nat /\ lb \in Nat /\ i \in (lf + 1)..Len(g) /\ i - lf <= lb
            BY <4>0, <5>1, <5>2, Zenon
          <6> HIDE DEF lf, lb
          <6>2. i - lf \in 1..lb
            BY <6>1, SMTT(30)
          <6> QED BY <4>0, <6>2, Zenon DEF lf, lb
        <5> QED BY <2>1, <3>1, <5>2, <5>3, Zenon DEF Held
      <4> QED BY <4>1, <4>2, Zenon
    <3>2. CASE s \in DOMAIN live /\ f = live[s]
      BY <2>1, <3>2, Zenon DEF Held
    <3>3. CASE s \in DOMAIN archive /\ f = archive[s]
      BY <2>1, <3>3, Zenon DEF Held
    <3>4. CASE f = <<>>
      BY <2>1, <3>4, SMTT(30)
    <3> QED BY <2>1, <3>1, <3>2, <3>3, <3>4, Zenon DEF Comes
  <2>2. ASSUME NEW x \in Held' PROVE x \in Held
    <3>1. CASE \E s \in DOMAIN live' : \E i \in DOMAIN live'[s] : live'[s][i] = x
      BY <2>1, <2>2, <3>1, SMTT(30) DEF Held
    <3>2. CASE \E s \in DOMAIN archive' : \E i \in DOMAIN archive'[s] : archive'[s][i] = x
      BY <2>1, <2>2, <3>2, SMTT(30) DEF Held
    <3>3. CASE \E i \in DOMAIN writer'.buffer : writer'.buffer[i] = x
      BY <2>2, <3>3, SMTT(30) DEF Held
    <3> QED BY <2>2, <3>1, <3>2, <3>3, Zenon DEF Held
  <2> QED BY <2>2, Zenon
<1>5. Unique'
  BY <1>4, Zenon DEF WalInv, Unique
<1>6. ASSUME Clean, NEW s, NEW f, Comes(s, f, g)
      PROVE  Readable(f)
  <2>1. CASE s = writer.file /\ f = g
    BY <1>6, <2>1, WrittenReadable, Zenon
  <2>2. CASE s \in DOMAIN live /\ f = live[s]
    BY <1>6, <2>2, Zenon DEF WalInv, FilesReadable
  <2>3. CASE s \in DOMAIN archive /\ f = archive[s]
    BY <1>6, <2>3, Zenon DEF WalInv, FilesReadable
  <2>4. CASE f = <<>>
    BY <2>4 DEF Readable
  <2> QED BY <1>6, <2>1, <2>2, <2>3, <2>4, Zenon DEF Comes
<1> QED BY <1>3, <1>5, <1>6, Zenon

\* flush: the buffer is empty and the watermark has reached the lsn.
LEMMA FlushedIs ==
  ASSUME WalInv
  PROVE  LET w == Flushed(writer)
         IN  /\ w \in WriterRecord /\ w.buffer = <<>> /\ w.up = writer.up /\ w.seg = writer.seg
             /\ w.file = writer.file /\ w.lsn = writer.lsn /\ w.start = writer.start
             /\ ~ Before(writer.lsn, w.durable)
<1> DEFINE d == IF writer.durable[1] < writer.lsn[1] \/ (writer.durable[1] = writer.lsn[1] /\ writer.durable[2] < writer.lsn[2])
                THEN writer.lsn ELSE writer.durable
           w == [writer EXCEPT !.buffer = <<>>, !.durable = d]
<1>1. writer \in WriterRecord /\ writer.lsn \in Lsns /\ writer.durable \in Lsns /\ ~ Before(writer.lsn, writer.durable)
  BY DEF WalInv, WalTypes, WriterRecord
<1>2. Flushed(writer) = w
  BY <1>1, SMTT(30) DEF Flushed, WriterRecord
<1>3. d \in Lsns /\ ~ Before(writer.lsn, d) /\ <<>> \in Seq(ItemRecord)
  BY <1>1 DEF Before, Lsns
<1> HIDE DEF d
<1>4. w \in WriterRecord
  BY <1>1, <1>3, Zenon DEF WriterRecord
<1>5. /\ w.buffer = <<>> /\ w.up = writer.up /\ w.seg = writer.seg
      /\ w.file = writer.file /\ w.lsn = writer.lsn /\ w.start = writer.start /\ w.durable = d
  BY <1>1, Zenon DEF WriterRecord
<1> QED BY <1>2, <1>3, <1>4, <1>5, SMTT(30)

\* A write to the current file that leaves the writer on it, or dead.
LEMMA InPlaceStep ==
  ASSUME WalInv, writer.up = TRUE, NEW g, Follows(live[writer.file], writer.buffer, g),
         live' = [live EXCEPT ![writer.file] = g], archive' = archive,
         writer' \in WriterRecord, walpast' \in WalPastRecord, 0 \notin walpast'.acked,
         writer'.seg = writer.seg, writer'.file = writer.file, writer'.lsn[1] = writer.lsn[1],
         ~ Before(writer'.lsn, writer.lsn), ~ Before(writer'.lsn, writer'.durable),
         writer'.up = FALSE => writer'.buffer = <<>>,
         writer'.buffer = <<>> \/ (/\ writer'.buffer = writer.buffer /\ writer'.lsn = writer.lsn
                                   /\ writer'.durable = writer.durable),
         walpast'.behind = walpast.behind, Clean' => Clean,
         Clean' /\ writer'.up = TRUE => \A i \in DOMAIN g : ~ Undecodable(g[i]),
         walpast.behind = FALSE /\ writer'.up = TRUE /\ writer.file = writer.seg =>
            \/ \E i \in DOMAIN g : Undecodable(g[i])
            \/ writer'.lsn[2] <= 2 * Len(g) + 2 * Len(writer'.buffer) + 1
  PROVE  WalInv'
<1>1. /\ DOMAIN live' = DOMAIN live /\ writer.file \in DOMAIN live
      /\ \A s \in DOMAIN live : live'[s] = IF s = writer.file THEN g ELSE live[s]
  BY Zenon DEF WalInv, WalTypes, DirOK
<1>2. FileOK(g)
  BY Zenon DEF Follows
<1>3. DirOK(live)' /\ DirOK(archive)'
  <2>1. live' = [s \in DOMAIN live' |-> live'[s]]
    BY ZenonT(30) DEF WalInv, WalTypes, DirOK
  <2> QED BY <1>1, <1>2, <2>1, SMTT(30) DEF WalInv, WalTypes, DirOK
<1>4. WalTypes'
  <2>1. /\ writer'.file \in DOMAIN live' /\ writer'.file \in {writer'.seg, writer'.seg + 1}
        /\ writer'.lsn[1] = writer'.seg
    BY <1>1, Zenon DEF WalInv, WalTypes
  <2>2. \A j \in DOMAIN writer'.buffer :
           /\ ItemOK(writer'.buffer[j]) /\ writer'.buffer[j].kind = "record"
           /\ writer'.buffer[j].lsn = <<writer'.seg, writer'.lsn[2] - 2 * (Len(writer'.buffer) - j + 1)>>
           /\ ~ Before(writer'.buffer[j].lsn, writer'.durable)
    BY SMTT(30) DEF WalInv, WalTypes
  <2> QED BY <1>3, <2>1, <2>2, Zenon DEF WalTypes
<1>5. /\ \A s \in DOMAIN live' : Comes(s, live'[s], g)
      /\ \A s \in DOMAIN archive' : Comes(s, archive'[s], g)
  BY <1>1, Zenon DEF Comes
<1>6. /\ walpast.behind = FALSE =>
              /\ \A s \in DOMAIN live' : Placed(s, live'[s]) /\ Older(live'[s], writer'.lsn)
              /\ \A s \in DOMAIN archive' : Placed(s, archive'[s]) /\ Older(archive'[s], writer'.lsn)
      /\ Unique'
      /\ Clean => /\ \A s \in DOMAIN live' : Readable(live'[s])
                  /\ \A s \in DOMAIN archive' : Readable(archive'[s])
  BY <1>4, <1>5, WriteStep, Zenon
<1>7. LsnsPlaced'
  BY <1>1, <1>6, ZenonT(30) DEF WalInv, LsnsPlaced
<1>8. FilesReadable'
  BY <1>1, <1>6, Zenon DEF WalInv, FilesReadable
<1> QED BY <1>4, <1>6, <1>7, <1>8, Zenon DEF WalInv

\* What failed to decode before a write still does, and a write of decodable items alone adds
\* nothing that fails.
LEMMA WriteDecodes ==
  ASSUME NEW f, NEW b, NEW g, FileOK(f), FileOK(b), Follows(f, b, g)
  PROVE  /\ Len(g) >= Len(f) /\ Len(g) \in Nat /\ Len(f) \in Nat /\ Len(b) \in Nat
         /\ (\E i \in DOMAIN f : Undecodable(f[i])) => \E i \in DOMAIN g : Undecodable(g[i])
         /\ (/\ \A i \in DOMAIN f : ~ Undecodable(f[i])
             /\ \A i \in DOMAIN b : ~ Undecodable(b[i])
             /\ \A i \in (Len(f) + 1)..Len(g) : i - Len(f) <= Len(b) /\ g[i] = b[i - Len(f)])
               => \A i \in DOMAIN g : ~ Undecodable(g[i])
<1>0. /\ DOMAIN f = 1..Len(f) /\ DOMAIN b = 1..Len(b) /\ DOMAIN g = 1..Len(g)
      /\ Len(f) \in Nat /\ Len(b) \in Nat /\ Len(g) \in Nat /\ Len(g) >= Len(f)
      /\ \A i \in 1..Len(f) : g[i] = f[i]
  BY SMTT(30) DEF FileOK, Follows
<1>1. ASSUME NEW i \in DOMAIN f, Undecodable(f[i]) PROVE \E k \in DOMAIN g : Undecodable(g[k])
  <2>1. i \in DOMAIN g /\ g[i] = f[i]
    BY <1>0, SMTT(30)
  <2> QED BY <1>1, <2>1, Zenon
<1>2. ASSUME \A i \in DOMAIN f : ~ Undecodable(f[i]), \A i \in DOMAIN b : ~ Undecodable(b[i]),
             \A i \in (Len(f) + 1)..Len(g) : i - Len(f) <= Len(b) /\ g[i] = b[i - Len(f)],
             NEW i \in DOMAIN g
      PROVE  ~ Undecodable(g[i])
  <2>1. CASE i \in 1..Len(f)
    BY <1>0, <1>2, <2>1, Zenon
  <2>2. CASE i \notin 1..Len(f)
    <3>1. i \in (Len(f) + 1)..Len(g)
      BY <1>0, <2>2, SMTT(30)
    <3>2. i - Len(f) \in DOMAIN b /\ g[i] = b[i - Len(f)]
      BY <1>0, <1>2, <3>1, SMTT(30)
    <3> QED BY <1>2, <3>2, Zenon
  <2> QED BY <2>1, <2>2, Zenon
<1> QED BY <1>0, <1>1, <1>2, Zenon

\* Where the writer is within a file that decodes, after a write too.
LEMMA WriteBound ==
  ASSUME WalInv, writer.up = TRUE, walpast.behind = FALSE, writer.file = writer.seg,
         NEW g, Follows(live[writer.file], writer.buffer, g),
         NEW n \in Nat, n >= Len(live[writer.file]) - Len(g) + Len(writer.buffer)
  PROVE  \/ \E i \in DOMAIN g : Undecodable(g[i])
         \/ writer.lsn[2] <= 2 * Len(g) + 2 * n + 1
<1> DEFINE f == live[writer.file]
           b == writer.buffer
<1>0. FileOK(f) /\ FileOK(b) /\ writer.lsn[2] \in Nat
  BY CurrentFile, Zenon
<1>1. CASE \E i \in DOMAIN f : Undecodable(f[i])
  BY <1>0, <1>1, WriteDecodes, SMTT(30)
<1>2. CASE writer.lsn[2] <= 2 * Len(f) + 2 * Len(b) + 1
  <2>1. Len(f) \in Nat /\ Len(b) \in Nat /\ Len(g) \in Nat
    BY <1>0, WriteDecodes, SMTT(30)
  <2>2. n >= Len(f) - Len(g) + Len(b)
    BY Zenon
  <2> HIDE DEF f, b
  <2> QED BY <1>0, <1>2, <2>1, <2>2, SMTT(30)
<1> QED BY <1>1, <1>2, Zenon DEF WalInv, LsnsPlaced

\* What a step does to walpast when it only adds acknowledged records, counts and flags.
LEMMA BufferNumbers ==
  ASSUME WalInv
  PROVE  walpast.acked \cup Numbers(writer.buffer) \in SUBSET Nat /\ 0 \notin walpast.acked \cup Numbers(writer.buffer)
<1>1. \A j \in DOMAIN writer.buffer : writer.buffer[j].n \in Nat \ {0}
  BY SMTT(30) DEF WalInv, WalTypes, ItemOK, ItemRecord
<1>2. walpast.acked \in SUBSET Nat /\ 0 \notin walpast.acked
  BY DEF WalInv, WalTypes, WalPastRecord
<1> QED BY <1>1, <1>2, Zenon DEF Numbers

\* wal_flush
LEMMA FlushKeeps == ASSUME WalInv, wal_flush PROVE WalInv'
<1> DEFINE f == live[writer.file]
           b == writer.buffer
           a == walpast.acked \cup Numbers(b)
<1>0. /\ writer.up = TRUE /\ live' = [live EXCEPT ![writer.file] = f \o b] /\ archive' = archive
      /\ writer' = Flushed(writer) /\ walpast' = [walpast EXCEPT !.acked = a]
  BY Zenon DEF wal_flush, WalInv, WalTypes, WriterRecord
<1>1. Follows(f, b, f \o b) /\ Len(f \o b) = Len(f) + Len(b) /\ Len(f) \in Nat /\ Len(b) \in Nat
  BY CurrentFile, WrittenFollows, Zenon
<1>2. /\ walpast' \in WalPastRecord /\ 0 \notin walpast'.acked /\ walpast'.behind = walpast.behind
      /\ (Clean' <=> Clean)
  <2>1. walpast \in WalPastRecord /\ a \in SUBSET Nat /\ 0 \notin a
    BY BufferNumbers, Zenon DEF WalInv, WalTypes
  <2> HIDE DEF a
  <2> QED BY <1>0, <2>1, Zenon DEF WalPastRecord, Clean
<1>3. Clean => \A i \in DOMAIN (f \o b) : ~ Undecodable((f \o b)[i])
  <2> SUFFICES ASSUME Clean PROVE \A i \in DOMAIN (f \o b) : ~ Undecodable((f \o b)[i])
    BY Zenon
  <2>1. \A k \in DOMAIN f : ~ Undecodable(f[k])
    BY <1>0, Zenon DEF WalInv, FilesReadable
  <2>2. \A k \in DOMAIN b : ~ Undecodable(b[k])
    BY BufferItem, Zenon
  <2>3. f \in Seq(ItemRecord) /\ b \in Seq(ItemRecord) /\ FileOK(f) /\ FileOK(b)
    BY CurrentFile, Zenon
  <2> HIDE DEF f, b
  <2>4. \A i \in (Len(f) + 1)..Len(f \o b) : i - Len(f) <= Len(b) /\ (f \o b)[i] = b[i - Len(f)]
    BY <1>1, <2>3, SMTT(30)
  <2> QED BY <1>1, <2>1, <2>2, <2>3, <2>4, WriteDecodes, SMTT(30)
<1>4. walpast.behind = FALSE /\ writer.file = writer.seg =>
         \/ \E i \in DOMAIN (f \o b) : Undecodable((f \o b)[i])
         \/ writer.lsn[2] <= 2 * Len(f \o b) + 2 * Len(<<>>) + 1
  <2>1. Len(<<>>) \in Nat /\ Len(<<>>) >= Len(f) - Len(f \o b) + Len(b)
    BY <1>1, SMTT(30)
  <2> QED BY <1>0, <1>1, <2>1, WriteBound, Zenon
<1>5. ~ Before(writer.lsn, writer.lsn)
  BY CurrentFile, SMTT(30) DEF Before
<1> QED BY <1>0, <1>1, <1>2, <1>3, <1>4, <1>5, FlushedIs, InPlaceStep, ZenonT(30)

\* flush_fails
LEMMA FailedFlushKeeps == ASSUME WalInv, flush_fails PROVE WalInv'
<1> DEFINE f == live[writer.file]
           b == writer.buffer
<1>0. PICK g \in Remains(f, b) :
        /\ live' = [live EXCEPT ![writer.file] = g]
        /\ walpast' = [walpast EXCEPT !.faults = walpast.faults + 1, !.torn = walpast.torn \/ IsTorn(g)]
  BY Zenon DEF flush_fails, WalInv, WalTypes, WalPastRecord
<1>a. writer.up = TRUE /\ archive' = archive /\ writer' = writer
  BY Zenon DEF flush_fails, WalInv, WalTypes, WriterRecord
<1>1. /\ Follows(f, b, g) /\ FileOK(f) /\ FileOK(b)
      /\ \A i \in (Len(f) + 1)..Len(g) : g[i] = TornItem \/ (i - Len(f) <= Len(b) /\ g[i] = b[i - Len(f)])
  BY <1>0, CurrentFile, RemainsFollow, Zenon
<1>2. /\ walpast' \in WalPastRecord /\ 0 \notin walpast'.acked /\ walpast'.behind = walpast.behind
      /\ Clean' => Clean /\ ~ IsTorn(g)
  <2>1. walpast \in WalPastRecord /\ 0 \notin walpast.acked
    BY Zenon DEF WalInv, WalTypes
  <2> DEFINE t == walpast.torn \/ IsTorn(g)
             n == walpast.faults + 1
  <2>2. t \in BOOLEAN /\ n \in Nat /\ (t = FALSE => walpast.torn = FALSE /\ ~ IsTorn(g))
    <3>1. IsTorn(g) \in BOOLEAN
      BY DEF IsTorn
    <3> QED BY <2>1, <3>1, SMTT(30) DEF WalPastRecord
  <2>3. walpast' = [walpast EXCEPT !.faults = n, !.torn = t]
    BY <1>0
  <2> HIDE DEF t, n
  <2>4. walpast' \in WalPastRecord
    BY <2>1, <2>2, <2>3, ZenonT(30) DEF WalPastRecord
  <2> QED BY <2>1, <2>2, <2>3, <2>4, SMTT(30) DEF WalPastRecord, Clean
<1>3. Clean' => \A i \in DOMAIN g : ~ Undecodable(g[i])
  <2> SUFFICES ASSUME Clean, ~ IsTorn(g) PROVE \A i \in DOMAIN g : ~ Undecodable(g[i])
    BY <1>2
  <2>1. \A k \in DOMAIN f : ~ Undecodable(f[k])
    BY <1>a DEF WalInv, FilesReadable
  <2>2. \A k \in DOMAIN b : ~ Undecodable(b[k])
    BY BufferItem, Zenon
  <2> HIDE DEF f, b
  <2>3. \A i \in (Len(f) + 1)..Len(g) : g[i] # TornItem
    <3>1. DOMAIN g = 1..Len(g) /\ Len(f) \in Nat /\ TornItem.kind = "torn"
      BY <1>1, SMTT(30) DEF Follows, FileOK, TornItem, Item
    <3> QED BY <3>1, SMTT(30) DEF IsTorn
  <2> QED BY <1>1, <2>1, <2>2, <2>3, WriteDecodes, SMTT(30)
<1>4. walpast.behind = FALSE /\ writer.file = writer.seg =>
         \/ \E i \in DOMAIN g : Undecodable(g[i])
         \/ writer.lsn[2] <= 2 * Len(g) + 2 * Len(b) + 1
  <2>1. Len(b) \in Nat /\ Len(b) >= Len(f) - Len(g) + Len(b)
    <3>1. Len(f) \in Nat /\ Len(b) \in Nat /\ Len(g) \in Nat /\ Len(g) >= Len(f)
      BY <1>1, WriteDecodes, SMTT(30)
    <3> HIDE DEF f, b
    <3> QED BY <3>1, SMTT(30)
  <2> QED BY <1>a, <1>1, <2>1, WriteBound, Zenon
<1>5. ~ Before(writer.lsn, writer.lsn)
  BY CurrentFile, SMTT(30) DEF Before
<1>6. writer \in WriterRecord /\ ~ Before(writer.lsn, writer.durable)
  BY DEF WalInv, WalTypes
<1> QED BY <1>0, <1>a, <1>1, <1>2, <1>3, <1>4, <1>5, <1>6, InPlaceStep, ZenonT(30)

\* rotate_fails_sealing: the block behind the records is what no longer decodes.
LEMMA FailedSealKeeps == ASSUME WalInv, rotate_fails_sealing PROVE WalInv'
<1> DEFINE f == live[writer.file]
           b == writer.buffer
           a == walpast.acked \cup Numbers(b)
<1>0. PICK extra \in {<<Block>>, <<Block, Sealed>>} :
        /\ live' = [live EXCEPT ![writer.file] = (f \o b) \o extra]
        /\ writer' = [Flushed(writer) EXCEPT !.lsn = <<@[1], @[2] + IF Len(extra) = 2 THEN 5 ELSE 0>>]
  BY Zenon DEF rotate_fails_sealing
<1>a. /\ writer.up = TRUE /\ archive' = archive
      /\ walpast' = [walpast EXCEPT !.faults = walpast.faults + 1, !.halfway = TRUE, !.acked = a]
  BY DEF rotate_fails_sealing, WalInv, WalTypes, WriterRecord, WalPastRecord
<1> DEFINE g == (f \o b) \o extra
<1>1. Follows(f, b, g)
  BY <1>0, CurrentFile, WrittenFollows, Zenon
<1>2. /\ walpast' \in WalPastRecord /\ 0 \notin walpast'.acked /\ walpast'.behind = walpast.behind
      /\ ~ Clean'
  <2>1. walpast \in WalPastRecord /\ a \in SUBSET Nat /\ 0 \notin a
    BY BufferNumbers, Zenon DEF WalInv, WalTypes
  <2> DEFINE n == walpast.faults + 1
  <2>2. n \in Nat
    BY <2>1 DEF WalPastRecord
  <2>3. walpast' = [walpast EXCEPT !.faults = n, !.halfway = TRUE, !.acked = a]
    BY <1>a, Zenon
  <2> HIDE DEF a, n
  <2>4. walpast' \in WalPastRecord
    BY <2>1, <2>2, <2>3, Zenon DEF WalPastRecord
  <2> QED BY <2>1, <2>2, <2>3, <2>4, SMTT(30) DEF WalPastRecord, Clean
<1>3. \E i \in DOMAIN g : Undecodable(g[i])
  <2>1. f \o b \in Seq(ItemRecord) /\ extra \in Seq(ItemRecord) /\ Len(extra) \in 1..2 /\ extra[1] = Block
    <3>1. f \in Seq(ItemRecord) /\ b \in Seq(ItemRecord) /\ Block \in ItemRecord /\ Sealed \in ItemRecord
      BY CurrentFile, TailOK, Zenon DEF ItemOK
    <3>2. CASE extra = <<Block>>
      BY <3>1, <3>2, SMTT(30)
    <3>3. CASE extra = <<Block, Sealed>>
      BY <3>1, <3>3, SMTT(30)
    <3> QED BY <3>2, <3>3, SMTT(30)
  <2> DEFINE h == f \o b
             k == Len(h) + 1
  <2>2. h \in Seq(ItemRecord) /\ g = h \o extra
    BY <2>1, Zenon
  <2> HIDE DEF h, g
  <2>3. k \in DOMAIN g /\ g[k] = Block
    BY <2>1, <2>2, SMTT(30)
  <2> QED BY <2>3, TailOK, SMTT(30)
<1>4. LET w == Flushed(writer)
      IN  /\ writer' \in WriterRecord /\ writer'.buffer = <<>> /\ writer'.up = TRUE /\ writer'.seg = writer.seg
          /\ writer'.file = writer.file /\ writer'.lsn \in Lsns /\ writer'.lsn[1] = writer.lsn[1]
          /\ ~ Before(writer'.lsn, writer.lsn) /\ ~ Before(writer'.lsn, writer'.durable)
  <2> DEFINE w == Flushed(writer)
             d == IF Len(extra) = 2 THEN 5 ELSE 0
             l == <<w.lsn[1], w.lsn[2] + d>>
  <2>1. /\ w \in WriterRecord /\ w.buffer = <<>> /\ w.up = TRUE /\ w.seg = writer.seg
        /\ w.file = writer.file /\ w.lsn = writer.lsn /\ ~ Before(writer.lsn, w.durable)
    BY <1>a, FlushedIs, Zenon
  <2>2. w.lsn \in Lsns /\ w.durable \in Lsns /\ d \in Nat
    BY <2>1, Zenon DEF WriterRecord
  <2>3. writer' = [w EXCEPT !.lsn = l]
    BY <1>0, <2>1, Zenon DEF WriterRecord
  <2> HIDE DEF w, d
  <2>4. l \in Lsns /\ l[1] = w.lsn[1] /\ l[2] >= w.lsn[2]
    BY <2>2, SMTT(30) DEF Lsns
  <2> HIDE DEF l
  <2>5. writer' \in WriterRecord /\ writer'.lsn = l /\ writer'.buffer = w.buffer /\ writer'.up = w.up /\ writer'.seg = w.seg
        /\ writer'.file = w.file /\ writer'.durable = w.durable
    BY <2>1, <2>3, <2>4, SMTT(30) DEF WriterRecord
  <2>6. ~ Before(l, writer.lsn) /\ ~ Before(l, w.durable)
    BY <2>1, <2>2, <2>4, SMTT(30) DEF Before, Lsns
  <2> QED BY <2>1, <2>4, <2>5, <2>6, SMTT(30)
<1> HIDE DEF g
<1>5. live' = [live EXCEPT ![writer.file] = g]
  BY <1>0, Zenon DEF g
<1> QED BY <1>a, <1>1, <1>2, <1>3, <1>4, <1>5, InPlaceStep, Zenon

\* wal_crash
LEMMA CrashKeeps == ASSUME WalInv, wal_crash PROVE WalInv'
<1> DEFINE f == live[writer.file]
           b == writer.buffer
<1>0. PICK g \in Remains(f, b) : live' = [live EXCEPT ![writer.file] = g]
  BY Zenon DEF wal_crash
<1>a. /\ writer.up = TRUE /\ archive' = archive /\ writer' = [writer EXCEPT !.up = FALSE, !.buffer = <<>>]
      /\ walpast' = [walpast EXCEPT !.faults = walpast.faults + 1]
  BY SMTT(30) DEF wal_crash, WalInv, WalTypes, WriterRecord, WalPastRecord
<1>1. Follows(f, b, g)
  BY <1>0, CurrentFile, RemainsFollow, SMTT(30)
<1>2. /\ walpast' \in WalPastRecord /\ 0 \notin walpast'.acked /\ walpast'.behind = walpast.behind
      /\ (Clean' <=> Clean)
  BY <1>a DEF WalInv, WalTypes, WalPastRecord, Clean
<1>3. /\ writer' \in WriterRecord /\ writer'.buffer = <<>> /\ writer'.up = FALSE /\ writer'.seg = writer.seg
      /\ writer'.file = writer.file /\ writer'.lsn = writer.lsn /\ writer'.durable = writer.durable
  <2>1. writer \in WriterRecord /\ <<>> \in Seq(ItemRecord)
    BY DEF WalInv, WalTypes
  <2>2. writer' \in WriterRecord
    BY <1>a, <2>1, Zenon DEF WriterRecord
  <2> QED BY <1>a, <2>1, <2>2, SMTT(30) DEF WriterRecord
<1>5. ~ Before(writer.lsn, writer.lsn)
  BY CurrentFile DEF Before
<1>6. ~ Before(writer.lsn, writer.durable)
  BY DEF WalInv, WalTypes
<1> QED BY <1>0, <1>a, <1>1, <1>2, <1>3, <1>5, <1>6, InPlaceStep, Zenon

\* wal_checkpoint: only archived segments go, and the gap is noted.
LEMMA CheckpointKeeps == ASSUME WalInv, wal_checkpoint PROVE WalInv'
<1> DEFINE R == reclaim_archived_segments_before(writer.seg)
           gp == walpast.gap \/ R # {}
<1>0. /\ archive' = [x \in DOMAIN archive \ R |-> archive[x]] /\ live' = live /\ writer' = writer
      /\ walpast' = [walpast EXCEPT !.ckpt = writer.seg, !.gap = gp]
  BY SMTT(30) DEF wal_checkpoint, Restrict1, WalInv, WalTypes, WalPastRecord
<1>1. walpast \in WalPastRecord /\ writer.seg \in Nat /\ gp \in BOOLEAN /\ (gp = FALSE => walpast.gap = FALSE /\ R = {})
  BY DEF WalInv, WalTypes, WalPastRecord, WriterRecord
<1>2. /\ DOMAIN archive' = DOMAIN archive \ R
      /\ \A s \in DOMAIN archive' : archive'[s] = archive[s] /\ s \in DOMAIN archive
  BY <1>0
<1> HIDE DEF gp, R
<1>3. walpast' \in WalPastRecord
  BY <1>0, <1>1, Zenon DEF WalPastRecord
<1>4. walpast'.acked = walpast.acked /\ walpast'.behind = walpast.behind /\ (Clean' => Clean /\ R = {})
  BY <1>0, <1>1, <1>3, SMTT(30) DEF WalPastRecord, Clean
<1>5. DirOK(archive)'
  BY <1>0, <1>2, SMTT(30) DEF WalInv, WalTypes, DirOK
<1>6. WalTypes'
  BY <1>0, <1>3, <1>4, <1>5, SMTT(30) DEF WalInv, WalTypes, DirOK
<1>7. LsnsPlaced'
  BY <1>0, <1>2, <1>4, Zenon DEF WalInv, LsnsPlaced
<1>8. Unique'
  <2>1. Held' \subseteq Held
    BY <1>0, <1>2, SMTT(30) DEF Held
  <2> QED BY <1>4, <2>1, SMTT(30) DEF WalInv, Unique
<1>9. FilesReadable'
  BY <1>0, <1>2, <1>4, Zenon DEF WalInv, FilesReadable
<1> QED BY <1>6, <1>7, <1>8, <1>9, SMTT(30) DEF WalInv

\* wal_append: the new record carries the lsn all others precede.
LEMMA AppendKeeps == ASSUME WalInv, wal_append PROVE WalInv'
<1> DEFINE b == writer.buffer
           x == Item("record", walpast.count + 1, writer.lsn)
           l == <<writer.lsn[1], writer.lsn[2] + 2>>
           c == Append(b, x)
<1>0. /\ live' = live /\ archive' = archive /\ writer.up = TRUE
      /\ writer' = [writer EXCEPT !.buffer = c, !.lsn = l]
      /\ walpast' = [walpast EXCEPT !.count = walpast.count + 1]
  BY Zenon DEF wal_append, Appended, WalInv, WalTypes, WriterRecord, WalPastRecord
<1>1. /\ writer \in WriterRecord /\ walpast \in WalPastRecord /\ b \in Seq(ItemRecord) /\ Len(b) \in Nat
      /\ writer.lsn \in Lsns /\ writer.durable \in Lsns /\ writer.seg \in Nat /\ writer.lsn[1] = writer.seg
      /\ ~ Before(writer.lsn, writer.durable)
  BY SMTT(30) DEF WalInv, WalTypes, WriterRecord
<1>2. x \in ItemRecord /\ ItemOK(x) /\ x.kind = "record" /\ x.lsn = writer.lsn
  <2>1. walpast.count + 1 \in Nat \ {0}
    BY <1>1, SMTT(30) DEF WalPastRecord
  <2> QED BY <1>1, <2>1, Zenon DEF Item, ItemOK, ItemRecord, Kinds
<1>3. l \in Lsns /\ l = <<writer.seg, writer.lsn[2] + 2>> /\ writer.lsn = <<writer.seg, writer.lsn[2]>> /\ writer.lsn[2] \in Nat
  BY <1>1, SMTT(30) DEF Lsns
<1> HIDE DEF x
<1>4. /\ c \in Seq(ItemRecord) /\ Len(c) = Len(b) + 1 /\ c[Len(b) + 1] = x
      /\ DOMAIN c = 1..(Len(b) + 1) /\ DOMAIN b = 1..Len(b) /\ \A j \in 1..Len(b) : c[j] = b[j]
  BY <1>1, <1>2, SMTT(30)
<1> HIDE DEF c, l
<1>5. writer' \in WriterRecord
  BY <1>0, <1>1, <1>3, <1>4, Zenon DEF WriterRecord
<1>6. /\ writer'.buffer = c /\ writer'.lsn = l /\ writer'.up = TRUE /\ writer'.seg = writer.seg
      /\ writer'.file = writer.file /\ writer'.durable = writer.durable
  BY <1>0, <1>1, <1>5, SMTT(30) DEF WriterRecord
<1>7. /\ walpast' \in WalPastRecord /\ walpast'.acked = walpast.acked /\ walpast'.behind = walpast.behind
      /\ (Clean' <=> Clean)
  BY <1>0, <1>1, SMTT(30) DEF WalPastRecord, Clean
<1>8. ~ Before(l, writer.lsn) /\ ~ Before(l, writer.durable)
  BY <1>1, <1>3, SMTT(30) DEF Before, Lsns
<1>9. ASSUME NEW j \in DOMAIN c
      PROVE  /\ ItemOK(c[j]) /\ c[j].kind = "record"
             /\ c[j].lsn = <<writer.seg, l[2] - 2 * (Len(c) - j + 1)>>
             /\ ~ Before(c[j].lsn, writer.durable)
  <2> DEFINE m == Len(b)
             k == writer.lsn[2]
  <2>0. m \in Nat /\ k \in Nat /\ Len(c) = m + 1 /\ l[2] = k + 2 /\ j \in 1..(m + 1)
    BY <1>1, <1>3, <1>4, SMTT(30)
  <2>1. CASE j = m + 1
    <3>1. c[j] = x
      BY <1>4, <2>1, SMTT(30)
    <3> HIDE DEF m, k
    <3>2. l[2] - 2 * (Len(c) - j + 1) = k
      BY <2>0, <2>1, SMTT(30)
    <3> QED BY <1>1, <1>2, <1>3, <3>1, <3>2, SMTT(30) DEF k
  <2>2. CASE j # m + 1
    <3>1. j \in 1..m
      <4> HIDE DEF m, k
      <4> QED BY <2>0, <2>2, SMTT(30)
    <3>2. /\ ItemOK(b[j]) /\ b[j].kind = "record" /\ ~ Before(b[j].lsn, writer.durable)
          /\ b[j].lsn = <<writer.seg, k - 2 * (m - j + 1)>>
      BY <1>4, <3>1, SMTT(30) DEF WalInv, WalTypes
    <3>3. c[j] = b[j]
      BY <1>4, <3>1, Zenon
    <3> HIDE DEF m, k
    <3>4. l[2] - 2 * (Len(c) - j + 1) = k - 2 * (m - j + 1)
      BY <2>0, SMTT(30)
    <3> QED BY <3>2, <3>3, <3>4, SMTT(30)
  <2> QED BY <2>1, <2>2, Zenon
<1>10. WalTypes'
  <2>1. DirOK(live)' /\ DirOK(archive)' /\ writer'.file \in DOMAIN live' /\ writer'.file \in {writer'.seg, writer'.seg + 1}
        /\ 0 \notin walpast'.acked
    BY <1>0, <1>6, <1>7, SMTT(30) DEF WalInv, WalTypes, DirOK
  <2>2. writer'.lsn[1] = writer'.seg /\ ~ Before(writer'.lsn, writer'.durable)
    BY <1>3, <1>6, <1>8, SMTT(30)
  <2> QED BY <1>5, <1>6, <1>7, <1>9, <2>1, <2>2, SMTT(30) DEF WalTypes
<1>11. ASSUME walpast.behind = FALSE, NEW y \in Held PROVE Before(y.lsn, writer.lsn)
  <2>1. CASE \E s \in DOMAIN live : \E i \in DOMAIN live[s] : live[s][i] = y
    BY <1>0, <1>11, <2>1, Zenon DEF WalInv, LsnsPlaced, Older, Held
  <2>2. CASE \E s \in DOMAIN archive : \E i \in DOMAIN archive[s] : archive[s][i] = y
    BY <1>0, <1>11, <2>2, Zenon DEF WalInv, LsnsPlaced, Older, Held
  <2>3. CASE \E i \in DOMAIN writer.buffer : writer.buffer[i] = y
    BY <2>3, BufferItem, Zenon
  <2> QED BY <2>1, <2>2, <2>3, Zenon DEF Held
<1>12. Unique'
  <2>1. ASSUME NEW y \in Held' PROVE y \in Held \/ y = x
    <3>1. \A j \in DOMAIN c : c[j] = x \/ \E i \in DOMAIN b : b[i] = c[j]
      BY <1>1, <1>4, SMTT(30)
    <3>2. /\ y \in ItemRecord /\ y.kind = "record"
          /\ \/ \E s \in DOMAIN live : \E i \in DOMAIN live[s] : live[s][i] = y
             \/ \E s \in DOMAIN archive : \E i \in DOMAIN archive[s] : archive[s][i] = y
             \/ \E i \in DOMAIN c : c[i] = y
      BY <1>0, <1>6, <2>1 DEF Held
    <3> QED BY <3>1, <3>2 DEF Held
  <2>2. ~ Before(writer.lsn, writer.lsn)
    BY <1>1, SMTT(30) DEF Before, Lsns
  <2> QED BY <1>2, <1>7, <1>11, <2>1, <2>2, ZenonT(30) DEF WalInv, Unique
<1>13. LsnsPlaced'
  <2> SUFFICES ASSUME walpast.behind = FALSE PROVE LsnsPlaced'
    BY <1>7, ZenonT(30) DEF LsnsPlaced
  <2>1. ASSUME NEW f, FileOK(f), Older(f, writer.lsn) PROVE Older(f, l)
    <3>1. \A i \in DOMAIN f : f[i].lsn \in Lsns
      BY <2>1, Zenon DEF FileOK, ItemOK, ItemRecord
    <3> QED BY <1>1, <1>3, <1>8, <2>1, <3>1, BeforeTransitive, SMTT(30) DEF Older
  <2>2. /\ \A s \in DOMAIN live : FileOK(live[s]) /\ Older(live[s], writer.lsn)
        /\ \A s \in DOMAIN archive : FileOK(archive[s]) /\ Older(archive[s], writer.lsn)
    BY <1>0, Zenon DEF WalInv, WalTypes, DirOK, LsnsPlaced
  <2>3. /\ \A s \in DOMAIN live : Older(live[s], l)
        /\ \A s \in DOMAIN archive : Older(archive[s], l)
    BY <2>1, <2>2, Zenon
  <2>4. writer.file = writer.seg =>
         \/ \E i \in DOMAIN live[writer.file] : Undecodable(live[writer.file][i])
         \/ l[2] <= 2 * Len(live[writer.file]) + 2 * Len(c) + 1
    <3> SUFFICES ASSUME writer.lsn[2] <= 2 * Len(live[writer.file]) + 2 * Len(b) + 1
                 PROVE  l[2] <= 2 * Len(live[writer.file]) + 2 * Len(c) + 1
      BY <1>0, Zenon DEF WalInv, LsnsPlaced
    <3> DEFINE m == Len(b)
               k == writer.lsn[2]
               n == Len(live[writer.file])
    <3>1. m \in Nat /\ k \in Nat /\ n \in Nat /\ Len(c) = m + 1 /\ l[2] = k + 2 /\ k <= 2 * n + 2 * m + 1
      BY <1>1, <1>3, <1>4, CurrentFile, ZenonT(30)
    <3> HIDE DEF m, k, n
    <3>2. l[2] <= 2 * n + 2 * Len(c) + 1
      BY <3>1, SMTT(30)
    <3> QED BY <3>2, Zenon DEF n
  <2> QED BY <1>0, <1>6, <1>7, <2>3, <2>4, Zenon DEF WalInv, LsnsPlaced
<1>14. FilesReadable'
  BY <1>0, <1>6, <1>7 DEF WalInv, FilesReadable
<1> QED BY <1>10, <1>12, <1>13, <1>14, SMTT(30) DEF WalInv

\* The directory after a rotation: the current file sealed, the next one open.
LEMMA RotatedIs ==
  ASSUME WalInv, writer.seg < MaxSegments
  PROVE  LET g == SealedFile(live[writer.file], writer.buffer)
             dir == Rotated(writer)
         IN  /\ Follows(live[writer.file], writer.buffer, g)
             /\ DirOK(dir) /\ DOMAIN dir = DOMAIN live \cup {writer.seg + 1}
             /\ \A s \in DOMAIN dir : Comes(s, dir[s], g)
             /\ writer.seg + 1 \notin DOMAIN live => dir[writer.seg + 1] = <<>>
<1> DEFINE g == SealedFile(live[writer.file], writer.buffer)
           dir == Rotated(writer)
           n == writer.seg + 1
<1>1. Follows(live[writer.file], writer.buffer, g) /\ FileOK(g)
  <2>1. Follows(live[writer.file], writer.buffer, g)
    BY CurrentFile, WrittenFollows, Zenon DEF SealedFile
  <2> QED BY <2>1, Zenon DEF Follows
<1>2. n \in 0..MaxSegments /\ writer.file \in DOMAIN live /\ DirOK(live)
  <2>1. writer.seg \in Nat
    BY CurrentFile, Zenon
  <2>2. n \in 0..MaxSegments
    BY <2>1, WalAssumption, SMTT(30)
  <2> QED BY <2>2, Zenon DEF WalInv, WalTypes
<1>3. dir = Over([live EXCEPT ![writer.file] = g], [s \in {n} |-> <<>>])
  BY Zenon DEF Rotated
<1> HIDE DEF g, n
<1>4. /\ DOMAIN dir = DOMAIN live \cup {n} /\ dir = [s \in DOMAIN dir |-> dir[s]]
      /\ \A s \in DOMAIN dir : dir[s] = IF s = writer.file THEN g ELSE IF s \in DOMAIN live THEN live[s] ELSE <<>>
  BY <1>2, <1>3, SMTT(30) DEF Over, DirOK
<1> HIDE DEF dir
<1>5. \A s \in DOMAIN dir : Comes(s, dir[s], g)
  BY <1>4, Zenon DEF Comes
<1>6. FileOK(<<>>)
  BY SMTT(30) DEF FileOK
<1>7. DirOK(dir)
  BY <1>1, <1>2, <1>4, <1>6, Zenon DEF DirOK
<1>8. n \notin DOMAIN live => dir[n] = <<>>
  BY <1>2, <1>4, Zenon
<1> QED BY <1>1, <1>4, <1>5, <1>7, <1>8, Zenon DEF g, dir, n

\* rotate
LEMMA RotateKeeps == ASSUME WalInv, rotate PROVE WalInv'
<1> DEFINE g == SealedFile(live[writer.file], writer.buffer)
           dir == Rotated(writer)
           n == writer.seg + 1
           old == archive_old_segments(writer.seg)
           a == walpast.acked \cup Numbers(writer.buffer)
           l == <<n, 0>>
           w == Flushed(writer)
<1>0. /\ writer.up = TRUE /\ writer.seg < MaxSegments
      /\ live' = [s \in DOMAIN dir \ old |-> dir[s]]
      /\ archive' = Over([s \in old |-> dir[s]], archive)
      /\ writer' = [w EXCEPT !.seg = n, !.file = n, !.lsn = l, !.start = l]
      /\ walpast' = [walpast EXCEPT !.acked = a]
  BY DEF rotate, Restrict1, WalInv, WalTypes, WriterRecord, WalPastRecord
<1>1. /\ Follows(live[writer.file], writer.buffer, g)
      /\ DirOK(dir) /\ DOMAIN dir = DOMAIN live \cup {n}
      /\ \A s \in DOMAIN dir : Comes(s, dir[s], g)
      /\ n \notin DOMAIN live => dir[n] = <<>>
  BY <1>0, RotatedIs, Zenon
<1>2. /\ writer.seg \in Nat /\ writer.file \in {writer.seg, writer.seg + 1} /\ n \in Nat /\ n = writer.seg + 1
      /\ writer.file \in DOMAIN live /\ DOMAIN live \subseteq 0..MaxSegments /\ DOMAIN archive \subseteq 0..MaxSegments
  <2>1. writer.seg \in Nat
    BY CurrentFile, Zenon
  <2>2. n \in Nat
    BY <2>1, SMTT(30)
  <2> QED BY <2>1, <2>2, Zenon DEF WalInv, WalTypes, DirOK
<1>3. old \subseteq DOMAIN live /\ \A s \in old : s < writer.seg - 1
  BY <1>2 DEF archive_old_segments, Retention
<1>4. /\ walpast' \in WalPastRecord /\ 0 \notin walpast'.acked /\ walpast'.behind = walpast.behind
      /\ (Clean' <=> Clean)
  <2>1. walpast \in WalPastRecord /\ a \in SUBSET Nat /\ 0 \notin a
    BY BufferNumbers, Zenon DEF WalInv, WalTypes
  <2> HIDE DEF a
  <2> QED BY <1>0, <2>1, Zenon DEF WalPastRecord, Clean
<1>5. /\ writer' \in WriterRecord /\ writer'.buffer = <<>> /\ writer'.up = TRUE /\ writer'.seg = n
      /\ writer'.file = n /\ writer'.lsn = l /\ l[1] = n /\ l[2] = 0
      /\ ~ Before(l, writer.lsn) /\ ~ Before(l, writer'.durable)
  <2>1. w \in WriterRecord /\ w.buffer = <<>> /\ w.up = TRUE /\ w.lsn = writer.lsn /\ ~ Before(writer.lsn, w.durable)
    BY <1>0, FlushedIs, Zenon
  <2>2. l \in Lsns /\ l[1] = n /\ l[2] = 0
    BY <1>2, Zenon DEF Lsns
  <2>3. writer.lsn \in Lsns /\ w.durable \in Lsns /\ writer.lsn[1] = writer.seg
    BY <2>1, Zenon DEF WalInv, WalTypes, WriterRecord
  <2>4. ~ Before(l, writer.lsn) /\ ~ Before(l, w.durable)
    BY <1>2, <2>1, <2>2, <2>3, SMTT(30) DEF Before, Lsns
  <2> HIDE DEF w, l, n
  <2>5. writer' \in WriterRecord
    BY <1>0, <1>2, <2>1, <2>2, Zenon DEF WriterRecord
  <2>6. /\ writer'.buffer = w.buffer /\ writer'.up = w.up /\ writer'.seg = n
        /\ writer'.file = n /\ writer'.lsn = l /\ writer'.durable = w.durable
    BY <1>0, <2>1, <2>5, SMTT(30) DEF WriterRecord
  <2> QED BY <2>1, <2>2, <2>4, <2>5, <2>6, SMTT(30)
<1> HIDE DEF g, dir, old, a, w, l
<1>6. /\ DOMAIN live' = (DOMAIN live \cup {n}) \ old /\ \A s \in DOMAIN live' : live'[s] = dir[s] /\ s \in DOMAIN dir
      /\ DOMAIN archive' = old \cup DOMAIN archive
      /\ \A s \in DOMAIN archive' : archive'[s] = IF s \in old THEN dir[s] ELSE archive[s]
      /\ archive' = [s \in DOMAIN archive' |-> archive'[s]]
  BY <1>0, <1>1, Zenon DEF Over
<1>7. n \in DOMAIN live' /\ n \notin old
  BY <1>2, <1>3, <1>6, SMTT(30)
<1>8. DirOK(live)' /\ DirOK(archive)'
  <2>1. /\ DirOK(archive) /\ \A s \in DOMAIN dir : FileOK(dir[s]) /\ s \in 0..MaxSegments
        /\ old \subseteq DOMAIN dir
    BY <1>1, <1>3, Zenon DEF WalInv, WalTypes, DirOK
  <2>2. /\ \A s \in DOMAIN live' : FileOK(live'[s]) /\ s \in 0..MaxSegments
        /\ \A s \in DOMAIN archive' : FileOK(archive'[s]) /\ s \in 0..MaxSegments
    BY <1>6, <2>1, Zenon DEF DirOK
  <2>3. live' = [s \in DOMAIN live' |-> live'[s]]
    BY <1>0, Zenon
  <2> QED BY <1>6, <2>2, <2>3, Zenon DEF DirOK
<1>9. WalTypes'
  BY <1>4, <1>5, <1>7, <1>8, SMTT(30) DEF WalTypes
<1>10. /\ \A s \in DOMAIN live' : Comes(s, live'[s], g)
       /\ \A s \in DOMAIN archive' : Comes(s, archive'[s], g)
  <2>1. \A s \in DOMAIN archive : Comes(s, archive[s], g)
    BY Zenon DEF Comes
  <2> QED BY <1>1, <1>3, <1>6, <2>1, Zenon
<1>11. /\ walpast.behind = FALSE =>
              /\ \A s \in DOMAIN live' : Placed(s, live'[s]) /\ Older(live'[s], writer'.lsn)
              /\ \A s \in DOMAIN archive' : Placed(s, archive'[s]) /\ Older(archive'[s], writer'.lsn)
       /\ Unique'
       /\ Clean => /\ \A s \in DOMAIN live' : Readable(live'[s])
                   /\ \A s \in DOMAIN archive' : Readable(archive'[s])
  BY <1>0, <1>1, <1>4, <1>5, <1>9, <1>10, WriteStep, ZenonT(30)
<1>12. LsnsPlaced'
  <2> SUFFICES ASSUME walpast.behind = FALSE PROVE LsnsPlaced'
    BY <1>4, Zenon DEF LsnsPlaced
  <2>1. DOMAIN live \subseteq 0..writer.file /\ DOMAIN archive \subseteq 0..(writer.file - 1)
    BY Zenon DEF WalInv, LsnsPlaced
  <2>2. DOMAIN live' \subseteq 0..n /\ DOMAIN archive' \subseteq 0..(n - 1)
    BY <1>2, <1>3, <1>6, <2>1, SMTT(30)
  <2>3. Len(live'[n]) \in Nat
    BY <1>7, <1>8, SMTT(30) DEF DirOK, FileOK
  <2>4. l[2] <= 2 * Len(live'[n]) + 2 * Len(<<>>) + 1
    BY <1>5, <2>3, SMTT(30)
  <2>5. /\ \A s \in DOMAIN live' : Placed(s, live'[s]) /\ Older(live'[s], writer'.lsn)
        /\ \A s \in DOMAIN archive' : Placed(s, archive'[s]) /\ Older(archive'[s], writer'.lsn)
    BY <1>11, Zenon
  <2> HIDE DEF n
  <2>6. /\ writer'.file = n /\ writer'.lsn = l /\ writer'.buffer = <<>>
    BY <1>5, Zenon
  <2> QED BY <2>2, <2>4, <2>5, <2>6, SMTT(30) DEF LsnsPlaced
<1>13. FilesReadable'
  <2> SUFFICES ASSUME Clean PROVE FilesReadable'
    BY <1>4, ZenonT(30) DEF FilesReadable
  <2>1. writer.file = writer.seg /\ DOMAIN live \cup DOMAIN archive = 0..writer.seg
    BY <1>0, Zenon DEF WalInv, FilesReadable
  <2>2. DOMAIN live' \cup DOMAIN archive' = 0..n
    <3>1. DOMAIN live' \cup DOMAIN archive' = (DOMAIN live \cup DOMAIN archive) \cup {n}
      BY <1>3, <1>6, Zenon
    <3> QED BY <1>2, <2>1, <3>1, SMTT(30)
  <2>3. n \notin DOMAIN live
    BY <1>2, <2>1, SMTT(30)
  <2>4. live'[n] = <<>>
    BY <1>1, <1>6, <1>7, <2>3, SMTT(30)
  <2>5. /\ \A s \in DOMAIN live' : Readable(live'[s])
        /\ \A s \in DOMAIN archive' : Readable(archive'[s])
    BY <1>11, Zenon
  <2> HIDE DEF n
  <2>6. writer'.file = n /\ writer'.seg = n
    BY <1>5, Zenon
  <2> QED BY <2>2, <2>4, <2>5, <2>6, SMTT(30) DEF FilesReadable
<1>14. Unique'
  BY <1>11, Zenon
<1> QED BY <1>9, <1>12, <1>13, <1>14, SMTT(30) DEF WalInv

\* rotate_fails_linking: the writer is in the next file, its lsns are still of the segment before.
LEMMA FailedLinkKeeps == ASSUME WalInv, rotate_fails_linking PROVE WalInv'
<1> DEFINE g == SealedFile(live[writer.file], writer.buffer)
           dir == Rotated(writer)
           n == writer.seg + 1
           a == walpast.acked \cup Numbers(writer.buffer)
           w == Flushed(writer)
           l == <<w.lsn[1], w.lsn[2] + 5>>
           m == IF link.tmp /\ ~ walpast.halfway THEN walpast.faults ELSE walpast.faults + 1
<1>0. /\ writer.up = TRUE /\ writer.seg < MaxSegments
      /\ live' = dir /\ archive' = archive
      /\ writer' = [w EXCEPT !.file = n, !.lsn = l]
      /\ walpast' = [walpast EXCEPT !.faults = m, !.halfway = TRUE, !.acked = a]
  <2>1. writer \in WriterRecord /\ w \in WriterRecord /\ walpast \in WalPastRecord
    BY FlushedIs, Zenon DEF WalInv, WalTypes
  <2>2. writer' = [w EXCEPT !.file = n, !.lsn = l]
    <3> HIDE DEF w
    <3>1. writer' = [w EXCEPT !.file = n, !.lsn = <<@[1], @[2] + 5>>]
      BY DEF rotate_fails_linking, w
    <3> QED BY <2>1, <3>1, Zenon DEF WriterRecord
  <2>3. walpast' = [walpast EXCEPT !.faults = m, !.halfway = TRUE, !.acked = a]
    BY <2>1, Zenon DEF rotate_fails_linking, WalPastRecord
  <2> QED BY <2>1, <2>2, <2>3, SMTT(30) DEF rotate_fails_linking, WriterRecord
<1>1. /\ Follows(live[writer.file], writer.buffer, g)
      /\ DirOK(dir) /\ DOMAIN dir = DOMAIN live \cup {n}
      /\ \A s \in DOMAIN dir : Comes(s, dir[s], g)
  BY <1>0, RotatedIs, Zenon
<1>2. /\ writer.seg \in Nat /\ writer.file \in {writer.seg, writer.seg + 1} /\ n \in Nat /\ n = writer.seg + 1
  <2>1. writer.seg \in Nat
    BY CurrentFile
  <2>2. n \in Nat
    BY <2>1
  <2> QED BY <2>1, <2>2, SMTT(30) DEF WalInv, WalTypes
<1>4. /\ walpast' \in WalPastRecord /\ 0 \notin walpast'.acked /\ walpast'.behind = walpast.behind
      /\ ~ Clean'
  <2>1. walpast \in WalPastRecord /\ a \in SUBSET Nat /\ 0 \notin a
    BY BufferNumbers, Zenon DEF WalInv, WalTypes
  <2>2. m \in Nat
    BY <2>1 DEF WalPastRecord
  <2> HIDE DEF a, m
  <2>3. walpast' \in WalPastRecord
    BY <1>0, <2>1, <2>2, ZenonT(30) DEF WalPastRecord
  <2> QED BY <1>0, <2>1, <2>2, <2>3, SMTT(30) DEF WalPastRecord, Clean
<1>5. /\ writer' \in WriterRecord /\ writer'.buffer = <<>> /\ writer'.up = TRUE /\ writer'.seg = writer.seg
      /\ writer'.file = n /\ writer'.lsn = l /\ l[1] = writer.seg
      /\ ~ Before(l, writer.lsn) /\ ~ Before(l, writer'.durable)
  <2>1. /\ w \in WriterRecord /\ w.buffer = <<>> /\ w.up = TRUE /\ w.lsn = writer.lsn /\ ~ Before(writer.lsn, w.durable)
        /\ w.seg = writer.seg
    BY <1>0, FlushedIs, SMTT(30)
  <2>3. writer.lsn \in Lsns /\ w.durable \in Lsns /\ writer.lsn[1] = writer.seg
    BY <2>1, Zenon DEF WalInv, WalTypes, WriterRecord
  <2> HIDE DEF w
  <2>2. l \in Lsns /\ l[1] = writer.seg /\ l[2] >= writer.lsn[2]
    BY <2>1, <2>3, SMTT(30) DEF Lsns
  <2>4. ~ Before(l, writer.lsn) /\ ~ Before(l, w.durable)
    BY <2>1, <2>2, <2>3, SMTT(30) DEF Before, Lsns
  <2> HIDE DEF l, n
  <2>5. writer' \in WriterRecord
    BY <1>0, <1>2, <2>1, <2>2, Zenon DEF WriterRecord
  <2>6. /\ writer'.buffer = w.buffer /\ writer'.up = w.up /\ writer'.seg = w.seg
        /\ writer'.file = n /\ writer'.lsn = l /\ writer'.durable = w.durable
    BY <1>0, <2>1, <2>5, SMTT(30) DEF WriterRecord
  <2> QED BY <2>1, <2>2, <2>4, <2>5, <2>6, SMTT(30)
<1> HIDE DEF g, dir, a, w, l, m
<1>9. WalTypes'
  <2>1. DirOK(live)' /\ DirOK(archive)' /\ n \in DOMAIN live'
    BY <1>0, <1>1, SMTT(30) DEF WalInv, WalTypes, DirOK
  <2> QED BY <1>4, <1>5, <2>1, SMTT(30) DEF WalTypes
<1>10. /\ \A s \in DOMAIN live' : Comes(s, live'[s], g)
       /\ \A s \in DOMAIN archive' : Comes(s, archive'[s], g)
  <2>1. \A s \in DOMAIN archive : Comes(s, archive[s], g)
    BY DEF Comes
  <2> QED BY <1>0, <1>1, <2>1, SMTT(30)
<1>11. /\ walpast.behind = FALSE =>
              /\ \A s \in DOMAIN live' : Placed(s, live'[s]) /\ Older(live'[s], writer'.lsn)
              /\ \A s \in DOMAIN archive' : Placed(s, archive'[s]) /\ Older(archive'[s], writer'.lsn)
       /\ Unique'
  BY <1>0, <1>1, <1>4, <1>5, <1>9, <1>10, WriteStep, ZenonT(30)
<1>12. LsnsPlaced'
  <2> SUFFICES ASSUME walpast.behind = FALSE PROVE LsnsPlaced'
    BY <1>4, ZenonT(30) DEF LsnsPlaced
  <2>1. DOMAIN live \subseteq 0..writer.file /\ DOMAIN archive \subseteq 0..(writer.file - 1)
    BY Zenon DEF WalInv, LsnsPlaced
  <2>2. DOMAIN live' \subseteq 0..n /\ DOMAIN archive' \subseteq 0..(n - 1) /\ n # writer.seg
    BY <1>0, <1>1, <1>2, <2>1, SMTT(30)
  <2> QED BY <1>5, <1>11, <2>2, SMTT(30) DEF LsnsPlaced
<1> QED BY <1>4, <1>9, <1>11, <1>12, SMTT(30) DEF WalInv, FilesReadable

\* The part of a file that open keeps holds records alone, as long as no block decodes.
LEMMA KeptIs ==
  ASSUME NEW s \in Nat, NEW f, FileOK(f), Placed(s, f)
  PROVE  LET k == Decoded(f)
         IN  /\ FileOK(k) /\ Placed(s, k) /\ Len(k) \in Nat /\ FileLen(k) = 2 * Len(k)
             /\ \A i \in DOMAIN k : k[i].kind = "record" /\ ~ Undecodable(k[i])
             /\ \A i \in DOMAIN k : k[i].lsn[1] = s => k[i].lsn[2] < 2 * Len(k)
<1> DEFINE k == Decoded(f)
<1>1. /\ FileOK(k) /\ Len(k) \in 0..Len(f)
      /\ \A i \in 1..Len(k) : k[i] = f[i] /\ ~ Undecodable(f[i])
  BY DecodedIs, SMTT(30)
<1> HIDE DEF k
<1>2. DOMAIN f = 1..Len(f) /\ Len(f) \in Nat /\ DOMAIN k = 1..Len(k) /\ Len(k) \in Nat /\ k \in Seq(ItemRecord)
  BY <1>1, SMTT(30) DEF FileOK
<1>3. \A i \in DOMAIN k : i \in DOMAIN f /\ k[i] = f[i] /\ ~ Undecodable(k[i]) /\ \A j \in 1..i : k[j] = f[j] /\ ~ Undecodable(f[j])
  BY <1>1, <1>2, SMTT(30)
<1>4. \A i \in DOMAIN k : k[i].kind = "record"
  <2> SUFFICES ASSUME NEW i \in DOMAIN k PROVE k[i].kind = "record"
    BY Zenon
  <2>1. k[i].kind \in Kinds
    BY <1>1, Zenon DEF FileOK, ItemOK, ItemRecord
  <2>2. k[i].kind # "sealed"
    BY <1>3, SMTT(30) DEF Placed
  <2>3. k[i].kind \notin {"block", "torn"}
    BY <1>3, Zenon DEF Undecodable
  <2> QED BY <2>1, <2>2, <2>3, Zenon DEF Kinds
<1>5. Placed(s, k)
  BY <1>3, <1>4, SMTT(30) DEF Placed
<1>6. FileLen(k) = 2 * Len(k)
  BY <1>1, <1>4, FileLenIs, SMTT(30)
<1>7. ASSUME NEW i \in DOMAIN k, k[i].lsn[1] = s PROVE k[i].lsn[2] < 2 * Len(k)
  <2>1. k[i].lsn[2] < 2 * i
    BY <1>3, <1>4, <1>5, <1>7, SMTT(30) DEF Placed
  <2>2. k[i].lsn[2] \in Nat
    BY <1>1, Zenon DEF FileOK, ItemOK, ItemRecord, Lsns
  <2> QED BY <1>2, <2>1, <2>2, SMTT(30)
<1> QED BY <1>1, <1>2, <1>3, <1>4, <1>5, <1>6, <1>7, SMTT(30) DEF k

\* wal_open: when nothing lies above the segment it finds, that one was current before.
LEMMA OpenKeeps == ASSUME WalInv, wal_open PROVE WalInv'
<1> DEFINE seg == find_highest_segment_id(live)
           kept == IF seg \in DOMAIN live THEN Decoded(live[seg]) ELSE <<>>
           off == IF seg = 0 /\ FileLen(kept) = 0 THEN 1 ELSE FileLen(kept)
           bh == walpast.behind \/ \E s \in DOMAIN live \cup DOMAIN archive : s > seg
<1>0. /\ live' = [s \in DOMAIN live \cup {seg} |-> IF s = seg THEN kept ELSE live[s]] /\ archive' = archive
      /\ writer' = Opened(seg, off) /\ walpast' = [walpast EXCEPT !.behind = bh]
  BY Zenon DEF wal_open, last_valid_offset, WalInv, WalTypes, WalPastRecord
<1>1. seg \in DOMAIN live \cup {0} /\ seg \in 0..MaxSegments /\ seg \in Nat
  <2>1. DOMAIN live \in SUBSET (0..MaxSegments)
    BY SMTT(30) DEF WalInv, WalTypes, DirOK
  <2> QED BY <2>1, HighestIs, SMTT(30) DEF find_highest_segment_id
<1> HIDE DEF seg
<1>2. FileOK(kept)
  <2>1. FileOK(<<>>)
    BY SMTT(30) DEF FileOK
  <2> QED BY <2>1, DecodedIs, SMTT(30) DEF WalInv, WalTypes, DirOK
<1>3. off \in Nat /\ FileLen(kept) \in Nat /\ off >= FileLen(kept) /\ off <= FileLen(kept) + 1
  BY <1>2, FileLenIs, SMTT(30)
<1>4. bh \in BOOLEAN /\ (bh = FALSE => walpast.behind = FALSE /\ \A s \in DOMAIN live \cup DOMAIN archive : ~ (s > seg))
  BY DEF WalInv, WalTypes, WalPastRecord
<1> HIDE DEF off, bh
<1>5. /\ writer' \in WriterRecord /\ writer'.up = TRUE /\ writer'.seg = seg /\ writer'.lsn = <<seg, off>>
      /\ writer'.file = seg /\ writer'.buffer = <<>> /\ writer'.durable = <<seg, off>>
  BY <1>0, <1>1, <1>3, SMTT(30) DEF Opened, WriterRecord, Lsns
<1>6. /\ walpast' \in WalPastRecord /\ walpast'.acked = walpast.acked /\ walpast'.behind = bh
      /\ (Clean' => Clean)
  BY <1>0, <1>4, SMTT(30) DEF WalInv, WalTypes, WalPastRecord, Clean
<1>7. /\ DOMAIN live' = DOMAIN live \cup {seg} /\ live' = [s \in DOMAIN live' |-> live'[s]]
      /\ \A s \in DOMAIN live' : live'[s] = IF s = seg THEN kept ELSE live[s]
  BY <1>0, Zenon
<1>8. DirOK(live)' /\ DirOK(archive)'
  <2>1. \A s \in DOMAIN live' : FileOK(live'[s]) /\ s \in 0..MaxSegments
    BY <1>1, <1>2, <1>7, SMTT(30) DEF WalInv, WalTypes, DirOK
  <2> QED BY <1>0, <1>7, <2>1, ZenonT(30) DEF WalInv, WalTypes, DirOK
<1>9. ~ Before(<<seg, off>>, <<seg, off>>)
  BY <1>1, <1>3, SMTT(30) DEF Before
<1>10. WalTypes'
  <2>1. 0 \notin walpast'.acked
    BY <1>6, Zenon DEF WalInv, WalTypes
  <2>2. writer'.file \in DOMAIN live' /\ writer'.lsn[1] = writer'.seg
    BY <1>5, <1>7, SMTT(30)
  <2> QED BY <1>5, <1>6, <1>8, <1>9, <2>1, <2>2, SMTT(30) DEF WalTypes
<1>11. Held' \subseteq Held
  <2>1. ASSUME NEW s \in DOMAIN live', NEW i \in DOMAIN live'[s]
        PROVE  \E t \in DOMAIN live : \E j \in DOMAIN live[t] : live[t][j] = live'[s][i]
    <3>1. CASE s = seg /\ seg \in DOMAIN live
      <4>1. live'[s] = Decoded(live[seg]) /\ FileOK(live[seg])
        BY <1>7, <3>1, SMTT(30) DEF WalInv, WalTypes, DirOK
      <4>2. i \in 1..Len(Decoded(live[seg])) /\ Len(Decoded(live[seg])) \in 0..Len(live[seg])
        BY <2>1, <4>1, DecodedIs, SMTT(30) DEF FileOK
      <4>3. i \in DOMAIN live[seg] /\ live'[s][i] = live[seg][i]
        BY <4>1, <4>2, DecodedIs, SMTT(30) DEF FileOK
      <4> QED BY <3>1, <4>3, SMTT(30)
    <3>2. CASE s = seg /\ seg \notin DOMAIN live
      BY <1>7, <2>1, <3>2, SMTT(30)
    <3>3. CASE s # seg
      BY <1>7, <2>1, <3>3, SMTT(30)
    <3> QED BY <3>1, <3>2, <3>3, SMTT(30)
  <2>2. ASSUME NEW x \in Held' PROVE x \in Held
    <3>1. CASE \E s \in DOMAIN live' : \E i \in DOMAIN live'[s] : live'[s][i] = x
      BY <2>1, <2>2, <3>1, SMTT(30) DEF Held
    <3>2. CASE \E s \in DOMAIN archive' : \E i \in DOMAIN archive'[s] : archive'[s][i] = x
      BY <1>0, <2>2, <3>2, SMTT(30) DEF Held
    <3>3. CASE \E i \in DOMAIN writer'.buffer : writer'.buffer[i] = x
      BY <1>5, <3>3, SMTT(30)
    <3> QED BY <2>2, <3>1, <3>2, <3>3, SMTT(30) DEF Held
  <2> QED BY <2>2, SMTT(30)
<1>12. Unique'
  BY <1>4, <1>6, <1>11, SMTT(30) DEF WalInv, Unique
<1>13. ASSUME bh = FALSE
       PROVE  /\ seg = writer.file /\ seg \in DOMAIN live /\ DOMAIN live' = DOMAIN live /\ kept = Decoded(live[seg])
              /\ DOMAIN live \subseteq 0..seg /\ DOMAIN archive \subseteq 0..(seg - 1)
              /\ \A s \in DOMAIN live : Placed(s, live[s]) /\ FileOK(live[s])
              /\ \A s \in DOMAIN archive : Placed(s, archive[s]) /\ FileOK(archive[s])
  <2>1. /\ DOMAIN live \subseteq 0..writer.file /\ DOMAIN archive \subseteq 0..(writer.file - 1)
        /\ writer.file \in DOMAIN live /\ writer.file \in Nat
        /\ \A s \in DOMAIN live : Placed(s, live[s]) /\ FileOK(live[s])
        /\ \A s \in DOMAIN archive : Placed(s, archive[s]) /\ FileOK(archive[s])
    BY <1>4, <1>13, SMTT(30) DEF WalInv, LsnsPlaced, WalTypes, DirOK, WriterRecord
  <2>2. ~ (writer.file > seg) /\ (seg <= writer.file)
    BY <1>1, <1>4, <1>13, <2>1, SMTT(30)
  <2>3. seg = writer.file
    BY <1>1, <2>1, <2>2, SMTT(30)
  <2> QED BY <1>7, <2>1, <2>3, SMTT(30)
<1>14. LsnsPlaced'
  <2> SUFFICES ASSUME bh = FALSE PROVE LsnsPlaced'
    BY <1>6, Zenon DEF LsnsPlaced
  <2>1. /\ FileOK(kept) /\ Placed(seg, kept) /\ Len(kept) \in Nat /\ FileLen(kept) = 2 * Len(kept)
        /\ \A i \in DOMAIN kept : kept[i].lsn[1] = seg => kept[i].lsn[2] < 2 * Len(kept)
    BY <1>1, <1>13, KeptIs, Zenon
  <2>2. ASSUME NEW s, s \in 0..(seg - 1), NEW f, FileOK(f), Placed(s, f) PROVE Older(f, <<seg, off>>)
    <3> SUFFICES ASSUME NEW i \in DOMAIN f, f[i].kind = "record" PROVE f[i].lsn[1] < seg
      BY SMTT(30) DEF Older, Before
    <3>1. f[i].lsn[1] <= s /\ f[i].lsn[1] \in Nat
      BY <2>2, SMTT(30) DEF Placed, FileOK, ItemOK, ItemRecord, Lsns
    <3> QED BY <1>1, <2>2, <3>1, SMTT(30)
  <2>3. Older(kept, <<seg, off>>)
    <3> SUFFICES ASSUME NEW i \in DOMAIN kept, kept[i].kind = "record"
                 PROVE  kept[i].lsn[1] < seg \/ (kept[i].lsn[1] = seg /\ kept[i].lsn[2] < off)
      BY SMTT(30) DEF Older, Before
    <3>1. kept[i].lsn[1] <= seg /\ kept[i].lsn[1] \in Nat /\ kept[i].lsn[2] \in Nat
      BY <2>1, SMTT(30) DEF Placed, FileOK, ItemOK, ItemRecord, Lsns
    <3> HIDE DEF kept
    <3> QED BY <1>1, <1>3, <2>1, <3>1, SMTT(30)
  <2>4. \A s \in DOMAIN live' : Placed(s, live'[s]) /\ Older(live'[s], <<seg, off>>)
    <3> SUFFICES ASSUME NEW s \in DOMAIN live' PROVE Placed(s, live'[s]) /\ Older(live'[s], <<seg, off>>)
      BY SMTT(30)
    <3>1. CASE s = seg
      BY <1>7, <2>1, <2>3, <3>1, SMTT(30)
    <3>2. CASE s # seg
      <4>1. s \in DOMAIN live /\ live'[s] = live[s] /\ s \in 0..seg
        BY <1>7, <1>13, <3>2, Zenon
      <4>2. s \in 0..(seg - 1)
        BY <1>1, <3>2, <4>1, SMTT(30)
      <4>3. FileOK(live[s]) /\ Placed(s, live[s])
        BY <1>13, <4>1, Zenon
      <4> HIDE DEF kept
      <4> QED BY <2>2, <4>1, <4>2, <4>3, SMTT(30)
    <3> QED BY <3>1, <3>2, SMTT(30)
  <2>5. \A s \in DOMAIN archive' : Placed(s, archive'[s]) /\ Older(archive'[s], <<seg, off>>)
    BY <1>0, <1>13, <2>2, ZenonT(30)
  <2>6. off <= 2 * Len(live'[seg]) + 2 * Len(<<>>) + 1
    <3>1. live'[seg] = kept
      BY <1>7, SMTT(30)
    <3> HIDE DEF kept
    <3> QED BY <1>3, <2>1, <3>1, SMTT(30)
  <2>7. DOMAIN live' \subseteq 0..seg /\ DOMAIN archive' \subseteq 0..(seg - 1)
    BY <1>0, <1>13, Zenon
  <2>8. writer'.lsn[2] = off
    BY <1>5, SMTT(30)
  <2> HIDE DEF kept
  <2> QED BY <1>5, <2>4, <2>5, <2>6, <2>7, <2>8, SMTT(30) DEF LsnsPlaced
<1>15. FilesReadable'
  <2> SUFFICES ASSUME Clean, bh = FALSE PROVE FilesReadable'
    BY <1>6, Zenon DEF FilesReadable, Clean
  <2>1. /\ DOMAIN live \cup DOMAIN archive = 0..writer.file
        /\ \A s \in DOMAIN live : Readable(live[s])
        /\ \A s \in DOMAIN archive : Readable(archive[s])
    BY DEF WalInv, FilesReadable
  <2>2. seg = writer.file /\ seg \in DOMAIN live /\ DOMAIN live' = DOMAIN live /\ kept = Decoded(live[seg])
    BY <1>13, Zenon
  <2>3. \A i \in DOMAIN kept : ~ Undecodable(kept[i])
    BY <1>1, <1>13, KeptIs, ZenonT(30)
  <2> HIDE DEF kept
  <2>4. \A s \in DOMAIN live' : Readable(live'[s])
    <3>1. Readable(kept)
      BY <2>3, SMTT(30) DEF Readable
    <3> QED BY <1>7, <2>1, <2>2, <3>1, SMTT(30)
  <2>5. live'[seg] = kept
    BY <1>7, SMTT(30)
  <2> QED BY <1>0, <1>5, <2>1, <2>2, <2>3, <2>4, <2>5, ZenonT(30) DEF FilesReadable
<1> QED BY <1>10, <1>12, <1>14, <1>15 DEF WalInv

\* The log of a new database.
LEMMA WalStarts == WALInit => WalInv
<1> SUFFICES ASSUME WALInit PROVE WalInv
  BY SMTT(30)
<1>1. /\ live = [s \in {0} |-> <<>>] /\ archive = [s \in {} |-> <<>>] /\ writer = Opened(0, 1)
      /\ walpast = [count |-> 0, faults |-> 0, acked |-> {}, ckpt |-> 0,
                    behind |-> FALSE, torn |-> FALSE, halfway |-> FALSE, gap |-> FALSE]
  BY SMTT(30) DEF WALInit
<1>2. walpast \in WalPastRecord /\ walpast.acked = {}
  BY <1>1, SMTT(30) DEF WalPastRecord
<1>3. /\ writer \in WriterRecord /\ writer.up = TRUE /\ writer.seg = 0 /\ writer.file = 0 /\ writer.buffer = <<>>
      /\ writer.lsn = <<0, 1>> /\ writer.durable = <<0, 1>>
  BY <1>1, SMTT(30) DEF Opened, WriterRecord, Lsns
<1>4. DOMAIN live = {0} /\ live[0] = <<>> /\ DOMAIN archive = {} /\ FileOK(<<>>)
  BY <1>1, SMTT(30) DEF FileOK
<1>5. DirOK(live) /\ DirOK(archive)
  BY <1>1, <1>4, WalAssumption, SMTT(30) DEF DirOK
<1>6. WalTypes
  <2>1. ~ Before(<<0, 1>>, <<0, 1>>)
    BY SMTT(30) DEF Before
  <2> QED BY <1>2, <1>3, <1>4, <1>5, <2>1, SMTT(30) DEF WalTypes
<1>7. LsnsPlaced
  BY <1>3, <1>4, SMTT(30) DEF LsnsPlaced, Placed, Older
<1>8. Unique
  BY <1>3, <1>4, SMTT(30) DEF Unique, Held
<1>9. FilesReadable
  <2>1. DOMAIN live \cup DOMAIN archive = 0..writer.file
    BY <1>3, <1>4, SMTT(30)
  <2> QED BY <1>3, <1>4, <2>1, SMTT(30) DEF FilesReadable, Readable
<1> QED BY <1>6, <1>7, <1>8, <1>9, SMTT(30) DEF WalInv

\* Every step of the log keeps its invariant.
LEMMA WalStepKeeps == WalInv /\ [WALNext]_walvars => WalInv'
<1> SUFFICES ASSUME WalInv, [WALNext]_walvars PROVE WalInv'
  BY SMTT(30)
<1>1. CASE UNCHANGED walvars
  <2>1. live' = live /\ archive' = archive /\ writer' = writer /\ walpast' = walpast
    BY <1>1, SMTT(30) DEF walvars
  <2>2. WalTypes'
    BY <2>1, SMTT(30) DEF WalInv, WalTypes, DirOK
  <2>3. LsnsPlaced'
    BY <2>1, ZenonT(30) DEF WalInv, LsnsPlaced
  <2>4. Unique'
    BY <2>1, SMTT(30) DEF WalInv, Unique, Held
  <2>5. FilesReadable'
    BY <2>1, SMTT(30) DEF WalInv, FilesReadable, Clean
  <2> QED BY <2>2, <2>3, <2>4, <2>5, SMTT(30) DEF WalInv
<1> QED BY <1>1, OpenKeeps, AppendKeeps, FlushKeeps, FailedFlushKeeps, RotateKeeps, FailedSealKeeps,
           FailedLinkKeeps, CheckpointKeeps, CrashKeeps, SMTT(30) DEF WALNext

\* load_all_segments reads every acknowledged record of the segments it is to read.
LEMMA AckedAreRead == WalInv => AckedReadable
<1> SUFFICES ASSUME WalInv, ~ walpast.torn, ~ walpast.halfway, ~ walpast.gap, ~ walpast.behind,
                    NEW n \in walpast.acked, n \in InSegments(walpast.ckpt)
             PROVE  n \in load_all_segments
  BY SMTT(30) DEF AckedReadable
<1>1. Clean
  BY SMTT(30) DEF WalInv, WalTypes, WalPastRecord, Clean
<1>2. n # 0 /\ walpast.ckpt \in Nat /\ DirOK(live) /\ DirOK(archive) /\ writer.file \in Nat
  BY SMTT(30) DEF WalInv, WalTypes, WalPastRecord, WriterRecord
<1> DEFINE ids == DOMAIN live \cup DOMAIN archive
           file(s) == IF s \in DOMAIN live THEN live[s] ELSE archive[s]
<1>3. PICK s \in ids : s >= walpast.ckpt /\ n \in Numbers(file(s))
  <2>1. \A s \in ids : Over(live, archive)[s] = file(s)
    BY SMTT(30) DEF Over
  <2>2. PICK s \in {x \in ids : x >= walpast.ckpt} : n \in Numbers(Over(live, archive)[s])
    BY SMTT(30) DEF InSegments
  <2> QED BY <2>1, <2>2, SMTT(30)
<1>4. ids = 0..writer.file
  BY <1>1, SMTT(30) DEF WalInv, FilesReadable
<1>5. highest_segment_id = writer.file
  <2>1. ids \in SUBSET (0..MaxSegments)
    BY <1>2, SMTT(30) DEF DirOK
  <2>2. Highest(ids) \in ids \cup {0} /\ Highest(ids) + 1 \notin ids
    BY <2>1, HighestIs, SMTT(30)
  <2> HIDE DEF ids
  <2>3. Highest(ids) = writer.file
    BY <1>2, <1>4, <2>2, SMTT(30)
  <2> QED BY <2>3, SMTT(30) DEF highest_segment_id, ids
<1>6. s \in walpast.ckpt..highest_segment_id
  BY <1>2, <1>3, <1>4, <1>5, SMTT(30)
<1> DEFINE f == file(s)
<1>7. FileOK(f) /\ Readable(f)
  BY <1>1, <1>2, SMTT(30) DEF DirOK, WalInv, FilesReadable
<1>8. PICK i \in DOMAIN f : f[i].n = n
  BY <1>3, SMTT(30) DEF Numbers
<1> HIDE DEF f
<1>9. f[i].kind = "record" /\ i \in 1..Len(f) /\ Len(f) \in Nat
  BY <1>2, <1>7, <1>8, SMTT(30) DEF FileOK, ItemOK
<1>10. /\ Len(Decoded(f)) \in 0..Len(f) /\ Decoded(f) \in Seq(ItemRecord)
       /\ \A k \in 1..Len(Decoded(f)) : Decoded(f)[k] = f[k]
       /\ Len(Decoded(f)) < Len(f) => Undecodable(f[Len(Decoded(f)) + 1])
  BY <1>7, DecodedIs, SMTT(30) DEF FileOK
<1>11. i <= Len(Decoded(f))
  <2> SUFFICES ASSUME ~ (i <= Len(Decoded(f))) PROVE FALSE
    BY SMTT(30)
  <2> DEFINE d == Len(Decoded(f))
  <2>1. d \in Nat /\ d < Len(f) /\ d + 1 \in 1..Len(f) /\ d + 1 <= i
    BY <1>9, <1>10, SMTT(30)
  <2>2. Undecodable(f[d + 1])
    BY <1>10, <2>1, SMTT(30)
  <2>3. d + 1 \in DOMAIN f
    BY <1>7, <2>1, SMTT(30) DEF FileOK
  <2>4. i < d + 1
    BY <1>7, <1>9, <2>2, <2>3, SMTT(30) DEF Readable
  <2> QED BY <1>9, <2>1, <2>4, SMTT(30)
<1>12. n \in Numbers(load_single_segment(f))
  <2>1. i \in DOMAIN Decoded(f) /\ Decoded(f)[i].n = n
    BY <1>8, <1>9, <1>10, <1>11, SMTT(30)
  <2> QED BY <2>1, SMTT(30) DEF Numbers, load_single_segment
<1> QED BY <1>3, <1>6, <1>12, SMTT(30) DEF load_all_segments, f

\* The invariant gives the three promises of the log.
LEMMA WalInvSuffices == WalInv => LogKeepsAcked
<1> SUFFICES ASSUME WalInv PROVE LogKeepsAcked
  BY SMTT(30)
<1>1. DurableIsWritten
  BY SMTT(30) DEF WalInv, WalTypes, DurableIsWritten
<1>2. LsnUnique
  <2> SUFFICES ASSUME ~ walpast.behind, NEW f \in Files, NEW g \in Files, NEW i \in DOMAIN f, NEW j \in DOMAIN g,
                      f[i].kind = "record", g[j].kind = "record", f[i].lsn = g[j].lsn
               PROVE  f[i].n = g[j].n
    BY SMTT(30) DEF LsnUnique
  <2>1. ASSUME NEW h \in Files, NEW k \in DOMAIN h, h[k].kind = "record" PROVE h[k] \in Held
    <3>1. CASE \E s \in DOMAIN live : h = live[s]
      BY <2>1, <3>1, SMTT(30) DEF Held, WalInv, WalTypes, DirOK, FileOK, ItemOK
    <3>2. CASE \E s \in DOMAIN archive : h = archive[s]
      BY <2>1, <3>2, SMTT(30) DEF Held, WalInv, WalTypes, DirOK, FileOK, ItemOK
    <3>3. CASE h = writer.buffer
      BY <2>1, <3>3, SMTT(30) DEF Held, WalInv, WalTypes, ItemOK
    <3> QED BY <2>1, <3>1, <3>2, <3>3, SMTT(30) DEF Files
  <2>2. walpast.behind = FALSE
    BY DEF WalInv, WalTypes, WalPastRecord
  <2> QED BY <2>1, <2>2, SMTT(30) DEF WalInv, Unique
<1> QED BY <1>1, <1>2, AckedAreRead, SMTT(30) DEF LogKeepsAcked

\* For any number of segments, appends and faults: what flush and rotate acknowledged is read
\* again from the checkpoint on, the durable watermark passes no record that is only in the
\* buffer, and no lsn is given out twice, over torn writes, failed rotations and restarts.
THEOREM LogNeverForgets == WALSpec => []LogKeepsAcked
BY WalStarts, WalStepKeeps, WalInvSuffices, PTL DEF WALSpec
====
