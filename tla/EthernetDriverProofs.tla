------------------------ MODULE EthernetDriverProofs ------------------------
(***************************************************************************)
(* Theorems about EthernetDriver for every number of descriptors, mailbox  *)
(* size, segments a frame may have and frames that arrive.                 *)
(***************************************************************************)
EXTENDS EthernetDriver, TLAPS

\* The constants are what the assumptions say (cited as one fact).
LEMMA Constants ==
  /\ RxN \in Nat /\ RxN >= 2 /\ TxN \in Nat \ {0}
  /\ MaxSegs \in Nat /\ MaxSegs \in 1..RxN
  /\ MaxFrames \in Nat /\ MboxSize \in Nat
BY RxAssumption, TxAssumption, FrameAssumption, MboxAssumption

-----------------------------------------------------------------------------
(* The ring.  RxAt turns it from a starting point: a bijection of the       *)
(* places 0..RxN-1 with the descriptors, and turns add up.                  *)

LEMMA RxAtType ==
  ASSUME NEW i \in Rx, NEW j \in 0..RxN PROVE RxAt(i, j) \in Rx
BY Constants DEF Rx, RxAt

LEMMA RxAtZero ==
  ASSUME NEW i \in Rx PROVE RxAt(i, 0) = i /\ RxAt(i, RxN) = i
BY Constants DEF Rx, RxAt

LEMMA RxAtInjective ==
  ASSUME NEW i \in Rx, NEW j \in 0..(RxN - 1), NEW k \in 0..(RxN - 1),
         RxAt(i, j) = RxAt(i, k)
  PROVE  j = k
BY Constants DEF Rx, RxAt

LEMMA RxAtOnto ==
  ASSUME NEW i \in Rx, NEW x \in Rx
  PROVE  \E j \in 0..(RxN - 1) : x = RxAt(i, j)
<1>1. CASE i <= x
  <2>1. x - i \in 0..(RxN - 1) /\ x = RxAt(i, x - i)
    BY <1>1, Constants DEF Rx, RxAt
  <2>2. QED
    BY <2>1
<1>2. CASE ~(i <= x)
  <2>1. x - i + RxN \in 0..(RxN - 1) /\ x = RxAt(i, x - i + RxN)
    BY <1>2, Constants DEF Rx, RxAt
  <2>2. QED
    BY <2>1
<1>3. QED
  BY <1>1, <1>2

LEMMA RxAtNext ==
  ASSUME NEW i \in Rx, NEW j \in 0..(RxN - 1)
  PROVE  RxNext(RxAt(i, j)) = RxAt(i, j + 1)
BY Constants DEF Rx, RxAt, RxNext

LEMMA RxAtSum ==
  ASSUME NEW i \in Rx, NEW j \in 0..RxN, NEW k \in 0..RxN
  PROVE  RxAt(RxAt(i, j), k) = IF j + k < RxN THEN RxAt(i, j + k)
                                              ELSE RxAt(i, j + k - RxN)
BY Constants DEF Rx, RxAt

\* The oldest descriptor is SegCount places before the next to be looked at.
LEMMA OldestOfRing ==
  ASSUME TypeOK
  PROVE  Oldest \in Rx /\ RxDesc = RxAt(Oldest, SegCount)
BY Constants DEF TypeOK, ThreadOK, Rx, RxAt, Oldest

\* Counting one more segment leaves the oldest descriptor where it is.
LEMMA OldestStays ==
  ASSUME TypeOK, SegCount < RxN,
         RxDesc' = RxNext(RxDesc), SegCount' = SegCount + 1
  PROVE  Oldest' = Oldest
BY Constants DEF TypeOK, ThreadOK, Rx, RxAt, RxNext, Oldest

-----------------------------------------------------------------------------
(* The inductive invariant.                                                 *)

\* n descriptors wait for EthIf: the ones from Oldest up to where the DMA is.
\* They hold frames one after the other, each from its first segment to its
\* last, but for the last of them when the DMA is still storing it.
Ring(n) ==
  /\ rxdma = RxAt(Oldest, n)
  /\ \A j \in 0..(RxN - 1) : At(j).own = "cpu" <=> j < n
  /\ \A j \in 0..(n - 1) : At(j).first <=> (j = 0 \/ At(j - 1).last)
  /\ \A j \in 1..(n - 1) : ~At(j).first => At(j).frame = At(j - 1).frame
  /\ rest > 0 => n \in 1..(RxN - 1) /\ ~At(n - 1).last
                                    /\ At(n - 1).frame = arrived
  /\ rest = 0 /\ n > 0 => At(n - 1).last

\* Of those EthIf has counted SegCount, all of one frame; the last of them ends
\* the frame when it is being copied, and only then.
Scan(n) ==
  /\ SegCount <= n
  /\ SegCount > 0 => FSRxDesc = Oldest
  /\ \A j \in 0..(SegCount - 1) : At(j).frame = At(0).frame
  /\ \A j \in 0..(SegCount - 2) : ~At(j).last
  /\ pcIn \in {"copy", "release"} => SegCount > 0 /\ At(SegCount - 1).last
  /\ pcIn \notin {"copy", "release"} /\ SegCount > 0 => ~At(SegCount - 1).last
  /\ pcIn \in {"resume", "post"} => SegCount = 0
  /\ pcIn = "scan" => scanned <= SegCount
  /\ pcIn = "post" => p \in Frame

RingInv == \E n \in 0..RxN : Ring(n) /\ Scan(n)

IInv == TypeOK /\ RingInv
LEMMA RingInit == Init => RingInv
<1> SUFFICES ASSUME Init PROVE RingInv
  OBVIOUS
<1>1. 0 \in 0..RxN /\ Oldest = 0
  BY Constants DEF Init, Oldest, RxAt
<1>2. Ring(0)
  <2>1. \A j \in 0..(RxN - 1) : RxAt(Oldest, j) \in Rx
    BY <1>1, RxAtType, Constants DEF Rx
  <2>2. \A j \in 0..(RxN - 1) : At(j) = Free
    BY <2>1 DEF Init, At
  <2>3. rxdma = RxAt(Oldest, 0)
    BY <1>1, Constants DEF Init, RxAt
  <2>4. QED
    BY <2>2, <2>3, Constants DEF Ring, Init, Free
<1>3. Scan(0)
  BY Constants DEF Init, Scan
<1>4. QED
  BY <1>1, <1>2, <1>3 DEF RingInv

\* What the DMA stores: one descriptor behind the n that wait, of the frame that
\* arrived last.
LEMMA ReceiveStores ==
  ASSUME TypeOK, NEW n \in 0..RxN, Ring(n), Scan(n), DmaReceive
  PROVE  /\ n \in 0..(RxN - 1) /\ Oldest \in Rx /\ Oldest' = Oldest
         /\ arrived' = IF rest = 0 THEN arrived + 1 ELSE arrived
         /\ At(n)'.own = "cpu" /\ At(n)'.frame = arrived'
         /\ \A j \in 0..(RxN - 1) : j # n => At(j)' = At(j)
<1> USE Constants
<1>1. Oldest \in Rx /\ Oldest' = Oldest
  BY OldestOfRing DEF DmaReceive, scanVars, Oldest
<1>2. n \in 0..(RxN - 1)
  <2>1. SUFFICES ASSUME n = RxN PROVE FALSE
    BY Constants
  <2>2. rxdma = RxAt(Oldest, 0)
    BY <1>1, <2>1, RxAtZero DEF Ring
  <2>3. At(0).own = "cpu"
    BY <2>1, Constants DEF Ring
  <2>4. QED
    BY <2>2, <2>3 DEF At, DmaReceive
<1>3. PICK first, last :
        rxdesc' = [rxdesc EXCEPT ![rxdma] = [own |-> "cpu", first |-> first,
                                             last |-> last, frame |-> arrived']]
  BY DEF DmaReceive
<1>4. arrived' = IF rest = 0 THEN arrived + 1 ELSE arrived
  BY DEF DmaReceive
<1>5. At(n)'.own = "cpu" /\ At(n)'.frame = arrived'
  <2>1. rxdma = RxAt(Oldest, n) /\ rxdma \in Rx
    BY DEF Ring, TypeOK, DmaOK
  <2>2. rxdesc'[rxdma] = [own |-> "cpu", first |-> first, last |-> last,
                          frame |-> arrived']
    BY <1>3, <2>1 DEF TypeOK, DmaOK
  <2>3. QED
    BY <1>1, <2>1, <2>2 DEF At
<1>6. \A j \in 0..(RxN - 1) : j # n => At(j)' = At(j)
  <2>1. TAKE j \in 0..(RxN - 1)
  <2>2. HAVE j # n
  <2>3. RxAt(Oldest, j) # rxdma /\ RxAt(Oldest, j) \in Rx
    BY <1>1, <1>2, <2>2, RxAtInjective, RxAtType, Constants DEF Ring
  <2>4. rxdesc'[RxAt(Oldest, j)] = rxdesc[RxAt(Oldest, j)]
    BY <1>3, <2>3 DEF TypeOK, DmaOK
  <2>5. QED
    BY <1>1, <2>4 DEF At
<1>7. QED
  BY <1>1, <1>2, <1>4, <1>5, <1>6

\* The DMA stores one segment more behind the n it has stored.
LEMMA ReceiveKeepsRing ==
  ASSUME TypeOK, NEW n \in 0..RxN, Ring(n), Scan(n), DmaReceive
  PROVE  n + 1 \in 0..RxN /\ Ring(n + 1)' /\ Scan(n + 1)'
<1> USE Constants
<1>1. Oldest \in Rx /\ Oldest' = Oldest
  BY ReceiveStores
<1>2. n \in 0..(RxN - 1)
  BY ReceiveStores
<1>3. PICK left \in (IF rest = 0 THEN 0..(MaxSegs - 1) ELSE {rest - 1}) :
        LET cut == left > 0 /\ rxdesc[RxNext(rxdma)].own = "cpu"
            last == left = 0 \/ cut
            frame == IF rest = 0 THEN arrived + 1 ELSE arrived
        IN /\ rxdesc' = [rxdesc EXCEPT ![rxdma] =
                           [own |-> "cpu", first |-> rest = 0, last |-> last,
                            frame |-> frame]]
           /\ arrived' = frame
           /\ rest' = IF cut THEN 0 ELSE left
           /\ rflag' = (rflag \/ last)
           /\ rbus' = (rbus \/ cut)
  BY DEF DmaReceive
<1> DEFINE cut == left > 0 /\ rxdesc[RxNext(rxdma)].own = "cpu"
           last == left = 0 \/ cut
           frame == IF rest = 0 THEN arrived + 1 ELSE arrived
           new == [own |-> "cpu", first |-> rest = 0, last |-> last,
                   frame |-> frame]
<1>4. left \in Nat
  BY <1>3, Constants DEF TypeOK, DmaOK
<1>5. n + 1 = RxN /\ left > 0 => cut
  <2>1. SUFFICES ASSUME n + 1 = RxN PROVE rxdesc[RxNext(rxdma)].own = "cpu"
    OBVIOUS
  <2>2. RxNext(rxdma) = RxAt(Oldest, 0)
    BY <1>1, <1>2, <2>1, RxAtNext, RxAtZero DEF Ring
  <2>3. 0 < n
    BY <2>1, Constants
  <2>4. QED
    BY <2>2, <2>3, Constants DEF Ring, At
<1>6. /\ At(n)'.own = "cpu" /\ (At(n)'.first <=> rest = 0)
      /\ (At(n)'.last <=> last) /\ At(n)'.frame = frame
  <2>1. rxdma = RxAt(Oldest, n) /\ rxdma \in Rx
    BY DEF Ring, TypeOK, DmaOK
  <2>2. rxdesc'[rxdma] = new
    BY <1>3, <2>1 DEF TypeOK, DmaOK
  <2>3. At(n)' = new
    BY <1>1, <2>1, <2>2 DEF At
  <2>4. At(n)'.own = "cpu" /\ At(n)'.frame = frame
    BY <2>3
  <2>5. At(n)'.first = (rest = 0)
    BY <2>3
  <2>6. new.last = last
    OBVIOUS
  <2>7. At(n)'.last = last
    BY <2>3, <2>6
  <2>8. QED
    BY <2>4, <2>5, <2>7
<1>7. \A j \in 0..(RxN - 1) : j # n => At(j)' = At(j)
  BY ReceiveStores
<1>8. Ring(n + 1)'
  <2>1. rxdma' = RxAt(Oldest', n + 1)
    BY <1>1, <1>2, RxAtNext DEF DmaReceive, Ring
  <2>2. \A j \in 0..(RxN - 1) : At(j)'.own = "cpu" <=> j < n + 1
    BY <1>2, <1>6, <1>7 DEF Ring
  <2>3. rest = 0 <=> (n = 0 \/ At(n - 1).last)
    BY <1>2 DEF Ring, TypeOK, DmaOK
  <2>4. \A j \in 0..n : At(j)'.first <=> (j = 0 \/ At(j - 1)'.last)
    <3>1. TAKE j \in 0..n
    <3>2. CASE j < n
      BY <1>2, <1>7, <3>2 DEF Ring
    <3>3. CASE j = n
      BY <1>2, <1>6, <1>7, <2>3, <3>3
    <3>4. QED
      BY <3>2, <3>3
  <2>5. \A j \in 1..n : ~At(j)'.first => At(j)'.frame = At(j - 1)'.frame
    <3>1. TAKE j \in 1..n
    <3>2. CASE j < n
      BY <1>2, <1>7, <3>2 DEF Ring
    <3>3. CASE j = n
      <4>1. rest # 0 => At(n - 1).frame = arrived
        BY DEF Ring, TypeOK, DmaOK
      <4>2. ~At(n)'.first => At(n)'.frame = arrived
        BY <1>6
      <4>3. At(n - 1)' = At(n - 1)
        BY <1>2, <1>7, <3>3
      <4>4. QED
        BY <1>6, <3>3, <4>1, <4>2, <4>3
    <3>4. QED
      BY <3>2, <3>3
  <2>6. rest' > 0 => n + 1 \in 1..(RxN - 1) /\ ~last /\ frame = arrived'
    BY <1>2, <1>3, <1>4, <1>5
  <2>7. rest' = 0 => last
    BY <1>3, <1>4
  <2>8. QED
    BY <1>2, <1>6, <2>1, <2>2, <2>4, <2>5, <2>6, <2>7 DEF Ring
<1>9. Scan(n + 1)'
  <2>1. \A j \in 0..(SegCount - 1) : At(j)' = At(j)
    BY <1>2, <1>7 DEF Scan, TypeOK, ThreadOK
  <2>2. SegCount' = SegCount /\ FSRxDesc' = FSRxDesc /\ scanned' = scanned
        /\ pcIn' = pcIn /\ p' = p /\ SegCount \in Nat
    BY DEF DmaReceive, scanVars, TypeOK, ThreadOK
  <2>3. SegCount > 0 => At(SegCount - 1)' = At(SegCount - 1) /\ At(0)' = At(0)
    BY <2>1, <2>2
  <2>4. \A j \in 0..(SegCount - 2) : At(j)' = At(j)
    BY <2>1, <2>2
  <2>5. QED
    BY <1>1, <2>1, <2>2, <2>3, <2>4 DEF Scan
<1>10. QED
  BY <1>2, <1>8, <1>9
\* One segment more is counted: it is of the frame whose segments are counted,
\* and the first one counted is the first of its frame.
LEMMA CountedIsOfFrame ==
  ASSUME TypeOK, NEW n \in 0..RxN, Ring(n), Scan(n), Scanning
  PROVE  /\ SegCount < n /\ RxDesc = RxAt(Oldest, SegCount)
         /\ rxdesc[RxDesc] = At(SegCount)
         /\ At(SegCount).first <=> SegCount = 0
         /\ SegCount > 0 => At(SegCount).frame = At(0).frame
<1> USE Constants
<1>1. Oldest \in Rx /\ RxDesc = RxAt(Oldest, SegCount)
  BY OldestOfRing
<1>2. SegCount \in Nat /\ SegCount <= n
  BY DEF TypeOK, ThreadOK, Scan
<1>3. pcIn = "scan" /\ rxdesc[RxDesc].own = "cpu"
  BY DEF Scanning
<1>4. SegCount > 0 => ~At(SegCount - 1).last
  BY <1>3 DEF Scan
<1>5. SegCount # n
  <2>1. SUFFICES ASSUME SegCount = n PROVE FALSE
    OBVIOUS
  <2>2. CASE n < RxN
    BY <1>1, <1>3, <2>1, <2>2 DEF Ring, At
  <2>3. CASE n = RxN
    BY <1>4, <2>1, <2>3 DEF Ring, TypeOK, DmaOK
  <2>4. QED
    BY <2>2, <2>3
<1>6. At(SegCount).first <=> SegCount = 0
  BY <1>2, <1>4, <1>5 DEF Ring
<1>7. SegCount > 0 => At(SegCount).frame = At(0).frame
  <2>1. SUFFICES ASSUME SegCount > 0
                 PROVE  At(SegCount).frame = At(0).frame
    OBVIOUS
  <2>2. At(SegCount).frame = At(SegCount - 1).frame
    BY <1>2, <1>5, <1>6, <2>1 DEF Ring
  <2>3. At(SegCount - 1).frame = At(0).frame
    BY <1>2, <2>1 DEF Scan
  <2>4. QED
    BY <2>2, <2>3
<1>8. QED
  BY <1>1, <1>2, <1>5, <1>6, <1>7 DEF At

LEMMA ScanKeepsRing ==
  ASSUME TypeOK, NEW n \in 0..RxN, Ring(n), Scan(n), ScanSegment \/ ScanLast
  PROVE  Ring(n)' /\ Scan(n)'
<1> USE Constants
<1>1. Scanning
  BY DEF ScanSegment, ScanLast
<1>2. /\ SegCount < n /\ RxDesc = RxAt(Oldest, SegCount)
      /\ rxdesc[RxDesc] = At(SegCount)
      /\ At(SegCount).first <=> SegCount = 0
      /\ SegCount > 0 => At(SegCount).frame = At(0).frame
  BY <1>1, CountedIsOfFrame
<1>3. SegCount \in Nat
  BY DEF TypeOK, ThreadOK
<1>4. SegCount' = SegCount + 1
  BY <1>2 DEF ScanSegment, ScanLast
<1>5. RxDesc' = RxNext(RxDesc) /\ scanned' = scanned + 1
      /\ UNCHANGED <<rxdesc, rxdma, rest, arrived>>
  BY DEF ScanSegment, ScanLast, EthIfSame, dmaVars
<1>6. Oldest' = Oldest
  BY <1>2, <1>3, <1>4, <1>5, OldestStays
<1>7. \A j \in 0..(RxN - 1) : At(j)' = At(j)
  BY <1>5, <1>6 DEF At
<1>8. Ring(n)'
  BY <1>5, <1>6, <1>7 DEF Ring
<1>9. SegCount' <= n /\ FSRxDesc' = Oldest
  <2>1. CASE SegCount = 0
    BY <1>2, <1>4, <2>1, OldestOfRing, RxAtZero DEF ScanSegment, ScanLast
  <2>2. CASE SegCount > 0
    BY <1>2, <1>3, <1>4, <2>2 DEF ScanSegment, ScanLast, Scan
  <2>3. QED
    BY <1>2, <1>3, <1>4, <2>1, <2>2
<1>10. \A j \in 0..SegCount : At(j).frame = At(0).frame
  BY <1>2, <1>3 DEF Scan
<1>11. \A j \in 0..(SegCount - 1) : ~At(j).last
  BY <1>1, <1>3 DEF Scan, Scanning
<1>12. IF pcIn' = "copy" THEN At(SegCount).last
                         ELSE pcIn' = "scan" /\ ~At(SegCount).last
  BY <1>2 DEF ScanSegment, ScanLast, Scanning
<1>13. pcIn' = "scan" => scanned' <= SegCount'
  BY <1>1, <1>3, <1>4, <1>5 DEF Scan, Scanning, TypeOK, ThreadOK
<1>14. Scan(n)'
  BY <1>2, <1>3, <1>4, <1>6, <1>7, <1>9, <1>10, <1>11, <1>12, <1>13 DEF Scan
<1>15. QED
  BY <1>8, <1>14
\* What a release leaves: the descriptors after the s of the frame, moved to the
\* front.
LEMMA ReleaseFrees ==
  ASSUME TypeOK, NEW n \in 0..RxN, Ring(n), Scan(n), ReleaseFrame,
         NEW s, s = SegCount
  PROVE  /\ Oldest \in Rx /\ Oldest' = RxAt(Oldest, s)
         /\ s \in 1..n /\ At(s - 1).last
         /\ \A j \in 0..(RxN - 1) :
              At(j)' = IF j + s < RxN THEN At(j + s) ELSE Free
<1> USE Constants
<1>1. Oldest \in Rx /\ RxDesc = RxAt(Oldest, s) /\ RxDesc \in Rx
  BY OldestOfRing DEF TypeOK, ThreadOK
<1>2. s \in 1..n /\ FSRxDesc = Oldest /\ At(s - 1).last
  BY DEF ReleaseFrame, Scan, TypeOK, ThreadOK
<1>3. Oldest' = RxAt(Oldest, s) /\ SegCount' = 0 /\ pcIn' = "resume"
      /\ UNCHANGED <<rxdma, rest, arrived>>
  BY <1>1, RxAtZero DEF ReleaseFrame, Oldest, EthIfSame, dmaVars
<1>4. \A x \in Rx : rxdesc'[x] = IF x \in Segments THEN Free ELSE rxdesc[x]
  BY DEF ReleaseFrame
<1>5. \A j \in 0..(RxN - 1) : RxAt(Oldest, j) \in Segments <=> j < s
  <2>1. TAKE j \in 0..(RxN - 1)
  <2>2. ASSUME RxAt(Oldest, j) \in Segments PROVE j < s
    <3>1. PICK k \in 0..(s - 1) : RxAt(Oldest, j) = RxAt(Oldest, k)
      BY <1>2, <2>2 DEF Segments
    <3>2. k \in 0..(RxN - 1)
      BY <1>2
    <3>3. j = k
      BY <1>1, <3>1, <3>2, RxAtInjective
    <3>4. QED
      BY <1>2, <3>3
  <2>3. ASSUME j < s PROVE RxAt(Oldest, j) \in Segments
    BY <1>2, <2>3 DEF Segments
  <2>4. QED
    BY <2>2, <2>3
<1>6. \A j \in 0..(RxN - 1) :
        At(j)' = IF j + s < RxN THEN At(j + s) ELSE Free
  <2>1. TAKE j \in 0..(RxN - 1)
  <2>2. CASE j + s < RxN
    <3>1. RxAt(Oldest', j) = RxAt(Oldest, j + s)
      BY <1>1, <1>2, <1>3, <2>2, RxAtSum
    <3>2. RxAt(Oldest, j + s) \in Rx /\ RxAt(Oldest, j + s) \notin Segments
      BY <1>1, <1>2, <1>5, <2>2, RxAtType
    <3>3. QED
      BY <1>4, <2>2, <3>1, <3>2 DEF At
  <2>3. CASE ~(j + s < RxN)
    <3>1. RxAt(Oldest', j) = RxAt(Oldest, j + s - RxN)
      BY <1>1, <1>2, <1>3, <2>3, RxAtSum
    <3>2. /\ RxAt(Oldest, j + s - RxN) \in Rx
          /\ RxAt(Oldest, j + s - RxN) \in Segments
      BY <1>1, <1>2, <1>5, <2>3, RxAtType
    <3>3. QED
      BY <1>4, <2>3, <3>1, <3>2 DEF At
  <2>4. QED
    BY <2>2, <2>3
<1>7. QED
  BY <1>1, <1>2, <1>3, <1>6

\* The SegCount descriptors of the frame go back to the DMA: the oldest is now
\* the one after them.
LEMMA ReleaseKeepsRing ==
  ASSUME TypeOK, NEW n \in 0..RxN, Ring(n), Scan(n), ReleaseFrame,
         NEW s, s = SegCount
  PROVE  n - s \in 0..RxN /\ Ring(n - s)' /\ Scan(n - s)'
<1> USE Constants
<1>1. Oldest \in Rx /\ Oldest' = RxAt(Oldest, s)
  BY ReleaseFrees
<1>2. s \in 1..n /\ At(s - 1).last
  BY ReleaseFrees
<1>3. SegCount' = 0 /\ pcIn' = "resume" /\ UNCHANGED <<rxdma, rest, arrived>>
  BY DEF ReleaseFrame, EthIfSame, dmaVars
<1>4. \A j \in 0..(RxN - 1) :
        At(j)' = IF j + s < RxN THEN At(j + s) ELSE Free
  BY ReleaseFrees
<1>5. rxdma' = RxAt(Oldest', n - s)
  BY <1>1, <1>2, <1>3, RxAtSum, RxAtZero DEF Ring
<1>6. \A j \in 0..(RxN - 1) : At(j)'.own = "cpu" <=> j < n - s
  BY <1>2, <1>4 DEF Ring, Free
<1>7. \A j \in 0..(n - s - 1), k \in 0..(n - 1) : k = j + s => At(j)' = At(k)
  BY <1>2, <1>4
<1>8. \A j \in 0..(n - s - 1) : At(j)'.first <=> (j = 0 \/ At(j - 1)'.last)
  <2>1. TAKE j \in 0..(n - s - 1)
  <2>2. At(j)'.first <=> At(j + s - 1).last
    BY <1>2, <1>7 DEF Ring
  <2>3. CASE j = 0
    BY <1>2, <2>2, <2>3
  <2>4. CASE j > 0
    BY <1>2, <1>7, <2>2, <2>4
  <2>5. QED
    BY <1>2, <2>3, <2>4
<1>9. \A j \in 1..(n - s - 1) :
         ~At(j)'.first => At(j)'.frame = At(j - 1)'.frame
  BY <1>2, <1>7 DEF Ring
<1>10. n - s > 0 => At(n - s - 1)' = At(n - 1)
  BY <1>2, <1>7
<1>11. rest > 0 => n - s > 0
  <2>1. SUFFICES ASSUME rest > 0, n = s PROVE FALSE
    BY <1>2
  <2>2. QED
    BY <1>2, <2>1 DEF Ring
<1>12. rest > 0 => /\ n - s \in 1..(RxN - 1) /\ ~At(n - s - 1)'.last
                   /\ At(n - s - 1)'.frame = arrived
  BY <1>2, <1>10, <1>11 DEF Ring
<1>13. rest = 0 /\ n - s > 0 => At(n - s - 1)'.last
  BY <1>2, <1>10 DEF Ring
<1>14. Ring(n - s)'
  <2>1. (rest > 0)' <=> rest > 0
    BY <1>3
  <2>2. QED
    BY <1>2, <1>3, <1>5, <1>6, <1>8, <1>9, <1>12, <1>13 DEF Ring
<1>15. Scan(n - s)'
  BY <1>2, <1>3 DEF Scan
<1>16. QED
  BY <1>2, <1>14, <1>15
\* What every other action leaves alone.
Held == <<rxdesc, rxdma, rest, arrived, RxDesc, FSRxDesc, SegCount>>

\* The places of EthIf at which the ring says the same.
Part == IF pcIn \in {"copy", "release"} THEN "frame"
        ELSE IF pcIn \in {"resume", "post"} THEN "given" ELSE "none"

LEMMA HeldKeepsRing ==
  ASSUME NEW n \in 0..RxN, Ring(n), Scan(n), UNCHANGED Held,
         Part' = Part \/ (Part = "given" /\ Part' = "none"),
         pcIn' = "scan" => scanned' <= SegCount,
         pcIn' = "post" => p' \in Frame
  PROVE  Ring(n)' /\ Scan(n)'
<1>1. Oldest' = Oldest /\ \A j : At(j)' = At(j)
  BY DEF Held, Oldest, At
<1>2. Ring(n)'
  BY <1>1 DEF Ring, Held
<1>3. Scan(n)'
  BY <1>1 DEF Scan, Held, Part
<1>4. QED
  BY <1>2, <1>3

LEMMA RingStep ==
  ASSUME TypeOK, RingInv, [Next]_vars
  PROVE  RingInv'
<1> USE Constants
<1>1. PICK n \in 0..RxN : Ring(n) /\ Scan(n)
  BY DEF RingInv
<1>2. SUFFICES ASSUME ~DmaReceive, ~ScanSegment, ~ScanLast, ~ReleaseFrame
               PROVE  Ring(n)' /\ Scan(n)'
  BY <1>1, ReceiveKeepsRing, ScanKeepsRing, ReleaseKeepsRing DEF RingInv
<1>3. SUFFICES /\ UNCHANGED Held
               /\ Part' = Part \/ (Part = "given" /\ Part' = "none")
               /\ pcIn' = "scan" => scanned' <= SegCount
               /\ pcIn' = "post" => p' \in Frame
  BY <1>1, HeldKeepsRing
<1>4. /\ pcIn = "scan" => scanned <= SegCount
      /\ pcIn = "post" => p \in Frame
      /\ SegCount \in Nat /\ p \in Frame \cup {NoFrame}
  BY <1>1 DEF Scan, TypeOK, ThreadOK
<1> USE <1>4 DEF Held, Part, dmaVars, scanVars, EthIfSame
<1>5. CASE DmaOverrun \/ EthInterrupt
  BY <1>5 DEF DmaOverrun, EthInterrupt
<1>6. CASE TakeSemaphore \/ TestLock
  BY <1>6 DEF TakeSemaphore, TestLock
<1>7. CASE EnterLock
  BY <1>7 DEF EnterLock
<1>8. CASE ScanEmpty \/ CopyFrame
  BY <1>8 DEF ScanEmpty, CopyFrame
<1>9. CASE ResumeReception
  BY <1>9 DEF ResumeReception
<1>10. CASE PostFrame
  BY <1>10 DEF PostFrame
<1>11. CASE FetchFrame
  BY <1>11 DEF FetchFrame
<1>12. CASE OutputFrame \/ Transmit \/ DmaTransmit \/ DmaUnderrun
  BY <1>12 DEF OutputFrame, Transmit, TransmitTest, TransmitEnter, TransmitGive,
               TransmitResume, DmaTransmit, DmaUnderrun, rxVars
<1>13. CASE UNCHANGED vars
  BY <1>13 DEF vars, rxVars
<1>14. QED
  BY <1>2, <1>5, <1>6, <1>7, <1>8, <1>9, <1>10, <1>11, <1>12, <1>13
     DEF Next, EthIf
LEMMA TypeInit == Init => TypeOK
<1> SUFFICES ASSUME Init PROVE TypeOK
  OBVIOUS
<1> USE Constants
<1>1. DmaOK
  <2>1. Free \in Descriptor
    BY DEF Free, Descriptor
  <2>2. rxdesc \in [Rx -> Descriptor]
    BY <2>1 DEF Init
  <2>3. /\ rxdma \in Rx /\ rest \in 0..(MaxSegs - 1)
        /\ arrived \in 0..MaxFrames /\ rflag \in BOOLEAN /\ rbus \in BOOLEAN
    BY DEF Init, Rx
  <2>4. QED
    BY <2>2, <2>3 DEF DmaOK
<1>2. ThreadOK
  BY DEF Init, ThreadOK, InPCs, Rx
<1>3. MboxOK
  BY DEF Init, MboxOK
<1>4. TransmitOK
  BY DEF Init, TransmitOK, OutPCs, Tx
<1>5. QED
  BY <1>1, <1>2, <1>3, <1>4 DEF TypeOK

\* A place of the ring and the one after it.
LEMMA NextType ==
  /\ \A i \in Rx : RxNext(i) \in Rx
  /\ \A i \in Tx : TxNext(i) \in Tx
BY Constants DEF Rx, Tx, RxNext, TxNext

LEMMA DmaTypeStep ==
  ASSUME TypeOK, [Next]_vars
  PROVE  DmaOK'
<1> USE Constants DEF TypeOK, DmaOK
<1>1. CASE DmaReceive
  <2>1. PICK left \in (IF rest = 0 THEN 0..(MaxSegs - 1) ELSE {rest - 1}) :
          LET cut == left > 0 /\ rxdesc[RxNext(rxdma)].own = "cpu"
              last == left = 0 \/ cut
              frame == IF rest = 0 THEN arrived + 1 ELSE arrived
          IN /\ rxdesc' = [rxdesc EXCEPT ![rxdma] =
                             [own |-> "cpu", first |-> rest = 0, last |-> last,
                              frame |-> frame]]
             /\ arrived' = frame
             /\ rest' = IF cut THEN 0 ELSE left
             /\ rflag' = (rflag \/ last)
             /\ rbus' = (rbus \/ cut)
    BY <1>1 DEF DmaReceive
  <2>2. left \in 0..(MaxSegs - 1)
    BY <2>1
  <2>3. rest = 0 => arrived < MaxFrames
    BY <1>1 DEF DmaReceive
  <2>4. arrived' \in 0..MaxFrames /\ arrived' \in Frame \cup {NoFrame}
    BY <2>1, <2>3 DEF Frame, NoFrame
  <2>5. rest' \in 0..(MaxSegs - 1)
    BY <2>1, <2>2
  <2>6. rflag' \in BOOLEAN /\ rbus' \in BOOLEAN
    BY <2>1
  <2>7. PICK first \in BOOLEAN, last \in BOOLEAN :
          rxdesc' = [rxdesc EXCEPT ![rxdma] =
                       [own |-> "cpu", first |-> first, last |-> last,
                        frame |-> arrived']]
    BY <2>1
  <2>8. rxdesc' \in [Rx -> Descriptor]
    BY <2>4, <2>7 DEF Descriptor
  <2>9. rxdma' \in Rx
    BY <1>1, NextType DEF DmaReceive
  <2>10. QED
    BY <2>4, <2>5, <2>6, <2>8, <2>9
<1>2. CASE ReleaseFrame
  <2>1. Free \in Descriptor
    BY DEF Free, Descriptor
  <2>2. rxdesc' \in [Rx -> Descriptor]
    BY <1>2, <2>1 DEF ReleaseFrame
  <2>3. QED
    BY <1>2, <2>2 DEF ReleaseFrame, EthIfSame, dmaVars
<1>3. CASE DmaOverrun \/ EthInterrupt \/ FetchFrame
  BY <1>3 DEF DmaOverrun, EthInterrupt, FetchFrame, dmaVars
<1>4. CASE EthIf /\ ~ReleaseFrame
  BY <1>4 DEF EthIf, TakeSemaphore, TestLock, EnterLock, ScanSegment, ScanLast,
              ScanEmpty, CopyFrame, ResumeReception, PostFrame, EthIfSame,
              dmaVars
<1>5. CASE OutputFrame \/ Transmit \/ DmaTransmit \/ DmaUnderrun
  BY <1>5 DEF OutputFrame, Transmit, TransmitTest, TransmitEnter, TransmitGive,
              TransmitResume, DmaTransmit, DmaUnderrun, rxVars, dmaVars
<1>6. CASE UNCHANGED vars
  BY <1>6 DEF vars, rxVars, dmaVars
<1>7. QED
  BY <1>1, <1>2, <1>3, <1>4, <1>5, <1>6 DEF Next

LEMMA ThreadTypeStep ==
  ASSUME TypeOK, RingInv, [Next]_vars
  PROVE  ThreadOK'
<1> USE Constants DEF TypeOK, ThreadOK, InPCs
<1>1. CASE TakeSemaphore \/ TestLock \/ EnterLock
  <2>1. CASE TakeSemaphore
    BY <2>1 DEF TakeSemaphore, scanVars
  <2>2. CASE TestLock
    BY <2>2 DEF TestLock, scanVars
  <2>3. CASE EnterLock
    BY <2>3 DEF EnterLock, scanVars
  <2>4. QED
    BY <1>1, <2>1, <2>2, <2>3
<1>2. CASE ScanSegment \/ ScanLast
  <2>1. Scanning
    BY <1>2 DEF ScanSegment, ScanLast
  <2>2. PICK n \in 0..RxN : Ring(n) /\ Scan(n)
    BY DEF RingInv
  <2>3. SegCount < RxN
    BY <2>1, <2>2, CountedIsOfFrame
  <2>4. RxNext(RxDesc) \in Rx /\ scanned < RxN
    BY <2>1, NextType DEF Scanning
  <2>5. QED
    <3>1. CASE ScanSegment
      BY <3>1, <2>3, <2>4 DEF ScanSegment
    <3>2. CASE ScanLast
      <4>1. SegCount' \in 0..RxN /\ scanned' \in 0..RxN
        BY <2>3, <2>4, <3>2 DEF ScanLast
      <4>2. FSRxDesc' \in Rx /\ RxDesc' \in Rx
        BY <2>4, <3>2 DEF ScanLast
      <4>3. QED
        BY <3>2, <4>1, <4>2 DEF ScanLast
    <3>3. QED
      BY <1>2, <3>1, <3>2
<1>3. CASE ScanEmpty \/ ReleaseFrame \/ ResumeReception \/ PostFrame
  <2>1. CASE ScanEmpty
    BY <2>1 DEF ScanEmpty, scanVars
  <2>2. CASE ReleaseFrame
    BY <2>2 DEF ReleaseFrame
  <2>3. CASE ResumeReception
    BY <2>3 DEF ResumeReception, scanVars
  <2>4. CASE PostFrame
    BY <2>4 DEF PostFrame, scanVars
  <2>5. QED
    BY <1>3, <2>1, <2>2, <2>3, <2>4
<1>4. CASE CopyFrame
  <2>1. rxdesc[FSRxDesc] \in Descriptor
    BY DEF DmaOK
  <2>2. QED
    BY <1>4, <2>1 DEF CopyFrame, Descriptor, scanVars
<1>5. CASE DmaReceive \/ DmaOverrun \/ EthInterrupt \/ FetchFrame
  BY <1>5 DEF DmaReceive, DmaOverrun, EthInterrupt, FetchFrame, scanVars
<1>6. CASE OutputFrame \/ Transmit \/ DmaTransmit \/ DmaUnderrun
  BY <1>6 DEF OutputFrame, Transmit, TransmitTest, TransmitEnter, TransmitGive,
              TransmitResume, DmaTransmit, DmaUnderrun, rxVars, scanVars
<1>7. CASE UNCHANGED vars
  BY <1>7 DEF vars, rxVars, scanVars
<1>8. QED
  BY <1>1, <1>2, <1>3, <1>4, <1>5, <1>6, <1>7 DEF Next, EthIf

LEMMA MboxTypeStep ==
  ASSUME TypeOK, RingInv, [Next]_vars
  PROVE  MboxOK'
<1> USE Constants DEF TypeOK, MboxOK
<1>1. CASE PostFrame
  <2>1. p \in Frame
    BY <1>1 DEF RingInv, Scan, PostFrame
  <2>2. QED
    BY <1>1, <2>1 DEF PostFrame
<1>2. CASE FetchFrame
  BY <1>2 DEF FetchFrame
<1>3. CASE UNCHANGED <<mbox, delivered>>
  BY <1>3
<1>4. ASSUME [Next]_vars, ~PostFrame, ~FetchFrame
      PROVE  UNCHANGED <<mbox, delivered>>
  BY <1>4 DEF Next, EthIf, Transmit, vars, rxVars, EthIfSame, DmaReceive,
              DmaOverrun, EthInterrupt, TakeSemaphore, TestLock, EnterLock,
              ScanSegment, ScanLast, ScanEmpty, CopyFrame, ReleaseFrame,
              ResumeReception, OutputFrame, TransmitTest, TransmitEnter,
              TransmitGive, TransmitResume, DmaTransmit, DmaUnderrun
<1>5. QED
  BY <1>1, <1>2, <1>3, <1>4

LEMMA TransmitTypeStep ==
  ASSUME TypeOK, [Next]_vars
  PROVE  TransmitOK'
<1> USE Constants DEF TypeOK, TransmitOK, OutPCs
<1>1. CASE OutputFrame \/ TransmitTest \/ TransmitEnter \/ TransmitResume
  BY <1>1 DEF OutputFrame, TransmitTest, TransmitEnter, TransmitResume
<1>2. CASE TransmitGive \/ DmaTransmit
  BY <1>2, NextType DEF TransmitGive, DmaTransmit
<1>3. CASE DmaUnderrun
  BY <1>3 DEF DmaUnderrun
<1>4. CASE EthIf \/ DmaReceive \/ DmaOverrun \/ EthInterrupt \/ FetchFrame
  BY <1>4 DEF EthIf, EthIfSame, txVars, DmaReceive, DmaOverrun, EthInterrupt,
              FetchFrame, TakeSemaphore, TestLock, EnterLock, ScanSegment,
              ScanLast, ScanEmpty, CopyFrame, ReleaseFrame, ResumeReception,
              PostFrame
<1>5. CASE UNCHANGED vars
  BY <1>5 DEF vars, txVars
<1>6. QED
  BY <1>1, <1>2, <1>3, <1>4, <1>5 DEF Next, Transmit

LEMMA InductiveInit == Init => IInv
BY TypeInit, RingInit DEF IInv

LEMMA InductiveStep == IInv /\ [Next]_vars => IInv'
BY DmaTypeStep, ThreadTypeStep, MboxTypeStep, TransmitTypeStep, RingStep
   DEF IInv, TypeOK

LEMMA Inductive == Spec => []IInv
BY InductiveInit, InductiveStep, PTL DEF Spec

\* Every variable keeps its type: the count of a frame's segments, which goes
\* over several calls of the HAL, never exceeds the ring.
THEOREM TypeCorrect == Spec => []TypeOK
<1>1. IInv => TypeOK
  BY DEF IInv
<1>2. QED
  BY <1>1, Inductive, PTL

-----------------------------------------------------------------------------
(* What the ring is for.                                                    *)

LEMMA RingHoldsOneFrame == IInv => CopiesOneFrame
<1> SUFFICES ASSUME TypeOK, NEW n \in 0..RxN, Ring(n), Scan(n),
                    pcIn \in {"copy", "release"}
             PROVE  CopiesOneFrame
  BY DEF IInv, RingInv, CopiesOneFrame
<1> USE Constants
<1>1. SegCount \in 1..n /\ FSRxDesc = Oldest /\ At(SegCount - 1).last
  BY DEF Scan, TypeOK, ThreadOK
<1>2. rxdesc[FSRxDesc] = At(0)
  BY <1>1, OldestOfRing, RxAtZero DEF At
<1>3. ASSUME NEW j \in 0..(SegCount - 1)
      PROVE  LET d == rxdesc[RxAt(FSRxDesc, j)] IN
               /\ d.own = "cpu" /\ d.frame = rxdesc[FSRxDesc].frame
               /\ d.first <=> j = 0
               /\ d.last <=> j = SegCount - 1
  <2>1. rxdesc[RxAt(FSRxDesc, j)] = At(j)
    BY <1>1 DEF At
  <2>2. At(j).own = "cpu" /\ At(j).frame = At(0).frame
    BY <1>1 DEF Ring, Scan
  <2>3. At(j).last <=> j = SegCount - 1
    BY <1>1 DEF Scan
  <2>4. At(j).first <=> j = 0
    BY <1>1 DEF Ring, Scan
  <2>5. QED
    BY <1>2, <2>1, <2>2, <2>3, <2>4
<1>4. QED
  BY <1>1, <1>3 DEF CopiesOneFrame

\* What is copied into a pbuf is one whole frame none of whose descriptors the
\* DMA owns, whatever the DMA stores meanwhile and wherever the ring wraps.
THEOREM OneFrameIsCopied == Spec => []CopiesOneFrame
BY Inductive, RingHoldsOneFrame, PTL

\* A drain that finds no segment to look at leaves no complete frame behind.
LEMMA EmptyRing ==
  ASSUME IInv, ScanEmpty PROVE ~Waiting
<1> USE Constants
<1>1. PICK n \in 0..RxN : Ring(n) /\ Scan(n)
  BY DEF IInv, RingInv
<1>2. /\ Oldest \in Rx /\ RxDesc = RxAt(Oldest, SegCount)
      /\ SegCount \in 0..RxN /\ scanned \in 0..RxN
  BY OldestOfRing DEF IInv, TypeOK, ThreadOK
<1>3. pcIn = "scan" /\ ~Scanning
  BY DEF ScanEmpty
<1>4. SegCount <= n /\ scanned <= SegCount
      /\ (SegCount > 0 => ~At(SegCount - 1).last)
  BY <1>1, <1>3 DEF Scan
<1>5. SegCount < RxN
  <2>1. SUFFICES ASSUME SegCount = RxN PROVE FALSE
    BY <1>2
  <2>2. rest > 0 \/ At(n - 1).last
    BY <1>1, <1>4, <2>1 DEF Ring, IInv, TypeOK, DmaOK
  <2>3. QED
    BY <1>1, <1>4, <2>1, <2>2 DEF Ring
<1>6. n = SegCount
  BY <1>1, <1>2, <1>3, <1>4, <1>5 DEF Scanning, Ring, At
<1>7. \A j \in 0..(n - 1) : ~At(j).last
  BY <1>1, <1>2, <1>4, <1>6 DEF Scan
<1>8. ASSUME NEW i \in Rx, rxdesc[i].own = "cpu", rxdesc[i].last PROVE FALSE
  <2>1. PICK j \in 0..(RxN - 1) : i = RxAt(Oldest, j)
    BY <1>2, RxAtOnto
  <2>2. j < n
    BY <1>1, <1>8, <2>1 DEF Ring, At
  <2>3. QED
    BY <1>7, <1>8, <2>1, <2>2 DEF At
<1>9. QED
  BY <1>8 DEF Waiting

LEMMA SleepInit == Init => SleepsOnlyWhenDrained
BY DEF Init, SleepsOnlyWhenDrained

LEMMA SleepStep ==
  ASSUME IInv, SleepsOnlyWhenDrained, [Next]_vars
  PROVE  SleepsOnlyWhenDrained'
<1> USE DEF SleepsOnlyWhenDrained
<1>1. CASE DmaReceive
  <2>1. SUFFICES ASSUME ~rflag' PROVE Waiting' => Waiting
    BY <1>1, <2>1 DEF DmaReceive
  <2>2. QED
    BY <1>1, <2>1 DEF DmaReceive, Waiting, IInv, TypeOK, DmaOK
<1>2. CASE DmaOverrun \/ EthInterrupt
  BY <1>2 DEF DmaOverrun, EthInterrupt, Waiting
<1>3. CASE ScanEmpty
  <2>1. ~Waiting
    BY <1>3, EmptyRing
  <2>2. QED
    BY <1>3, <2>1 DEF ScanEmpty, Waiting
<1>4. CASE TakeSemaphore \/ TestLock \/ EnterLock \/ ScanSegment \/ ScanLast
  BY <1>4 DEF TakeSemaphore, TestLock, EnterLock, ScanSegment, ScanLast,
              Scanning
<1>5. CASE CopyFrame \/ ReleaseFrame \/ ResumeReception \/ PostFrame
  BY <1>5 DEF CopyFrame, ReleaseFrame, ResumeReception, PostFrame
<1>6. CASE FetchFrame
  BY <1>6 DEF FetchFrame, Waiting
<1>7. CASE OutputFrame \/ Transmit \/ DmaTransmit \/ DmaUnderrun
  BY <1>7 DEF OutputFrame, Transmit, TransmitTest, TransmitEnter, TransmitGive,
              TransmitResume, DmaTransmit, DmaUnderrun, rxVars, Waiting
<1>8. CASE UNCHANGED vars
  BY <1>8 DEF vars, rxVars, Waiting
<1>9. QED
  BY <1>1, <1>2, <1>3, <1>4, <1>5, <1>6, <1>7, <1>8 DEF Next, EthIf

\* The EthIf thread sleeps on a complete frame only after a drain that was cut
\* short: the interrupt of a frame stored while it drains, or after its last
\* look at the ring, is not lost.
THEOREM NoWakeUpIsLost == Spec => []SleepsOnlyWhenDrained
<1>1. IInv /\ SleepsOnlyWhenDrained /\ [Next]_vars => SleepsOnlyWhenDrained'
  BY SleepStep
<1>2. QED
  BY <1>1, SleepInit, Inductive, PTL DEF Spec
-----------------------------------------------------------------------------
(* Order.  Frames get older from the place of the DMA back to the oldest     *)
(* descriptor and on through the frame in hand and the mailbox to the one   *)
(* delivered last.                                                          *)

\* Descriptors of one frame have one number, the descriptors behind its last
\* one higher numbers; all are newer than what was taken.
RingOrder ==
  \A j \in 0..(RxN - 1) : At(j).own = "cpu" =>
    /\ Newest < At(j).frame /\ At(j).frame <= arrived
    /\ \A i \in 0..(j - 1) : /\ At(i).frame <= At(j).frame
                             /\ At(i).last => At(i).frame < At(j).frame

\* What was taken is in order, and the frame just copied is still the oldest of
\* the ring.
TakenOrder ==
  /\ Increasing(Taken) /\ Newest <= arrived
  /\ pcIn = "release" => p \in {At(0).frame, NoFrame}

OrderInv == RingOrder /\ TakenOrder

\* A sequence that increases does so without its first element, without its
\* last, and with a greater one behind.
LEMMA IncreasingAppend ==
  ASSUME NEW q \in Seq(Nat), q # <<>>, NEW x \in Nat, Increasing(q),
         q[Len(q)] < x
  PROVE  /\ Increasing(Append(q, x))
         /\ Append(q, x)[Len(Append(q, x))] = x
<1>1. /\ Len(Append(q, x)) = Len(q) + 1 /\ Append(q, x)[Len(q) + 1] = x
      /\ \A i \in 1..Len(q) : Append(q, x)[i] = q[i]
      /\ Len(q) \in Nat \ {0}
  OBVIOUS
<1>2. ASSUME NEW i \in 1..Len(q) PROVE Append(q, x)[i] < Append(q, x)[i + 1]
  <2>1. CASE i = Len(q)
    BY <1>1, <2>1
  <2>2. CASE i # Len(q)
    BY <1>1, <2>2 DEF Increasing
  <2>3. QED
    BY <2>1, <2>2
<1>3. QED
  BY <1>1, <1>2 DEF Increasing

LEMMA IncreasingPrefix ==
  ASSUME NEW q \in Seq(Nat), q # <<>>, NEW x \in Nat,
         Increasing(Append(q, x))
  PROVE  Increasing(q) /\ q[Len(q)] < x
<1>1. /\ Len(Append(q, x)) = Len(q) + 1 /\ Append(q, x)[Len(q) + 1] = x
      /\ \A i \in 1..Len(q) : Append(q, x)[i] = q[i]
      /\ Len(q) \in Nat \ {0}
  OBVIOUS
<1>2. \A i \in 1..Len(q) : Append(q, x)[i] < Append(q, x)[i + 1]
  BY <1>1 DEF Increasing
<1>3. q[Len(q)] < x
  BY <1>1, <1>2
<1>4. ASSUME NEW i \in 1..(Len(q) - 1) PROVE q[i] < q[i + 1]
  <2>1. i \in 1..Len(q) /\ i + 1 \in 1..Len(q)
    BY <1>1
  <2>2. QED
    BY <1>1, <1>2, <2>1
<1>5. QED
  BY <1>3, <1>4 DEF Increasing

LEMMA IncreasingTail ==
  ASSUME NEW q \in Seq(Nat), Len(q) > 1, Increasing(q)
  PROVE  Increasing(Tail(q)) /\ Tail(q)[Len(Tail(q))] = q[Len(q)]
<1>1. /\ Len(Tail(q)) = Len(q) - 1 /\ Len(q) \in Nat
      /\ \A i \in 1..(Len(q) - 1) : Tail(q)[i] = q[i + 1]
  OBVIOUS
<1>2. ASSUME NEW i \in 1..(Len(q) - 2) PROVE Tail(q)[i] < Tail(q)[i + 1]
  BY <1>1 DEF Increasing
<1>3. QED
  BY <1>1, <1>2 DEF Increasing

\* The frames taken: those out of EthIf's hands, then the one in hand.
OutOfHand == <<delivered>> \o mbox

LEMMA TakenType ==
  ASSUME TypeOK
  PROVE  /\ OutOfHand \in Seq(Nat) /\ OutOfHand # <<>>
         /\ Taken = IF InHand = <<>> THEN OutOfHand ELSE Append(OutOfHand, p)
         /\ InHand = <<>> \/ (InHand = <<p>> /\ p \in Nat)
         /\ Taken \in Seq(Nat) /\ Taken # <<>> /\ Newest \in Nat
<1> USE Constants
<1>1. delivered \in Nat /\ mbox \in Seq(Nat) /\ p \in Nat
  BY DEF TypeOK, MboxOK, ThreadOK, Frame, NoFrame
<1>2. OutOfHand \in Seq(Nat) /\ Len(OutOfHand) = Len(mbox) + 1
  BY <1>1 DEF OutOfHand
<1>3. OutOfHand # <<>>
  BY <1>1, <1>2
<1>4. InHand = <<>> \/ (InHand = <<p>> /\ p \in Nat)
  BY <1>1 DEF InHand
<1>5. Taken = OutOfHand \o InHand
  BY DEF Taken, OutOfHand
<1>6. OutOfHand \o <<>> = OutOfHand /\ OutOfHand \o <<p>> = Append(OutOfHand, p)
  BY <1>1, <1>2
<1>7. Taken = IF InHand = <<>> THEN OutOfHand ELSE Append(OutOfHand, p)
  BY <1>4, <1>5, <1>6
<1>8. Taken \in Seq(Nat) /\ Len(Taken) \in Nat \ {0}
  BY <1>1, <1>2, <1>3, <1>7
<1>9. Newest \in Nat
  BY <1>8 DEF Newest
<1>10. QED
  BY <1>2, <1>3, <1>4, <1>7, <1>8, <1>9

LEMMA AtType ==
  ASSUME TypeOK
  PROVE  \A j \in 0..(RxN - 1) : At(j).frame \in Nat
<1>1. \A j \in 0..(RxN - 1) : RxAt(Oldest, j) \in Rx
  BY OldestOfRing, RxAtType, Constants
<1>2. \A i \in Rx : rxdesc[i].frame \in Nat
  BY Constants DEF TypeOK, DmaOK, Descriptor, Frame, NoFrame
<1>3. QED
  BY <1>1, <1>2 DEF At

LEMMA ReceiveOrder ==
  ASSUME IInv, OrderInv, DmaReceive
  PROVE  OrderInv'
<1> USE Constants
<1>1. PICK n \in 0..RxN : Ring(n) /\ Scan(n)
  BY DEF IInv, RingInv
<1>2. /\ n \in 0..(RxN - 1) /\ arrived \in Nat /\ rest \in Nat
      /\ arrived' = IF rest = 0 THEN arrived + 1 ELSE arrived
      /\ At(n)'.frame = arrived'
      /\ \A j \in 0..(RxN - 1) : j # n => At(j)' = At(j)
  BY <1>1, ReceiveStores DEF IInv, TypeOK, DmaOK
<1>3. Taken' = Taken /\ Newest' = Newest /\ Newest \in Nat
  BY TakenType DEF DmaReceive, Taken, InHand, Newest, IInv
<1>4. \A j \in 0..(RxN - 1) : At(j).frame \in Nat
  BY AtType DEF IInv
<1>5. /\ Newest < arrived'
      /\ \A i \in 0..(n - 1) : /\ At(i).frame <= arrived'
                               /\ At(i).last => At(i).frame < arrived'
  <2>1. \A i \in 0..(n - 1) : At(i).own = "cpu"
    BY <1>1, <1>2 DEF Ring
  <2>2. CASE rest = 0
    BY <1>2, <1>3, <1>4, <2>1, <2>2 DEF OrderInv, RingOrder, TakenOrder
  <2>3. CASE rest > 0
    <3>1. /\ n - 1 \in 0..(RxN - 1) /\ At(n - 1).own = "cpu"
          /\ ~At(n - 1).last /\ At(n - 1).frame = arrived'
      BY <1>1, <1>2, <2>1, <2>3 DEF Ring
    <3>2. /\ Newest < At(n - 1).frame
          /\ \A i \in 0..(n - 2) :
               /\ At(i).frame <= At(n - 1).frame
               /\ At(i).last => At(i).frame < At(n - 1).frame
      BY <1>2, <3>1 DEF OrderInv, RingOrder
    <3>3. QED
      BY <1>2, <3>1, <3>2
  <2>4. QED
    BY <1>2, <2>2, <2>3
<1>6. ASSUME NEW j \in 0..(RxN - 1), At(j)'.own = "cpu"
      PROVE  /\ Newest < At(j)'.frame /\ At(j)'.frame <= arrived'
             /\ \A i \in 0..(j - 1) :
                  /\ At(i)'.frame <= At(j)'.frame
                  /\ At(i)'.last => At(i)'.frame < At(j)'.frame
  <2>1. CASE j = n
    BY <1>2, <1>5, <2>1
  <2>2. CASE j # n
    <3>1. At(j)' = At(j) /\ At(j).own = "cpu" /\ j < n
      BY <1>1, <1>2, <1>6, <2>2 DEF Ring
    <3>2. \A i \in 0..(j - 1) : At(i)' = At(i)
      BY <1>2, <3>1
    <3>3. QED
      BY <1>2, <1>4, <3>1, <3>2 DEF OrderInv, RingOrder
  <2>3. QED
    BY <2>1, <2>2
<1>7. RingOrder'
  BY <1>3, <1>6 DEF RingOrder
<1>8. pcIn' = "release" => At(0)' = At(0)
  BY <1>1, <1>2 DEF DmaReceive, Scan, IInv, TypeOK, ThreadOK
<1>9. TakenOrder'
  BY <1>2, <1>3, <1>5, <1>8
     DEF OrderInv, TakenOrder, DmaReceive, Increasing
<1>10. QED
  BY <1>7, <1>9 DEF OrderInv

LEMMA ReleaseOrder ==
  ASSUME IInv, OrderInv, ReleaseFrame
  PROVE  OrderInv'
<1> USE Constants
<1>1. PICK n \in 0..RxN : Ring(n) /\ Scan(n)
  BY DEF IInv, RingInv
<1> DEFINE s == SegCount
<1>2. /\ s \in 1..n /\ At(s - 1).last
      /\ \A j \in 0..(RxN - 1) :
           At(j)' = IF j + s < RxN THEN At(j + s) ELSE Free
  BY <1>1, ReleaseFrees DEF IInv
<1>3. /\ arrived' = arrived /\ p' = p /\ pcIn = "release" /\ pcIn' = "resume"
      /\ OutOfHand' = OutOfHand
  BY DEF ReleaseFrame, EthIfSame, dmaVars, OutOfHand
<1>4. /\ At(0).own = "cpu" /\ At(s - 1).own = "cpu"
      /\ At(s - 1).frame = At(0).frame
  BY <1>1, <1>2 DEF Ring, Scan
<1>5. Newest < At(0).frame /\ At(0).frame <= arrived /\ arrived \in Nat
  BY <1>4 DEF OrderInv, RingOrder, IInv, TypeOK, DmaOK
<1>6. /\ Taken \in Seq(Nat) /\ Taken # <<>> /\ Newest \in Nat
      /\ Taken = OutOfHand /\ Increasing(Taken)
  BY <1>3, TakenType DEF IInv, InHand, OrderInv, TakenOrder
<1>7. /\ Increasing(Taken') /\ Newest' \in Nat
      /\ Newest' <= At(0).frame
  <2>1. CASE p = NoFrame
    <3>1. Taken' = Taken
      BY <1>3, <1>6, <2>1 DEF Taken, InHand, OutOfHand
    <3>2. QED
      BY <1>4, <1>5, <1>6, <3>1, AtType DEF Newest, IInv
  <2>2. CASE p # NoFrame
    <3>1. p = At(0).frame /\ p \in Nat
      BY <1>3, <2>2, AtType DEF OrderInv, TakenOrder, IInv
    <3>2. Taken' = Append(Taken, p)
      <4>1. InHand' = <<p>>
        BY <1>3, <2>2 DEF InHand
      <4>2. Taken' = OutOfHand \o <<p>>
        BY <1>3, <4>1 DEF Taken, OutOfHand
      <4>3. QED
        BY <1>6, <3>1, <4>2
    <3>3. Newest < p
      BY <1>5, <3>1
    <3>4. Increasing(Taken') /\ Newest' = p
      BY <1>6, <3>1, <3>2, <3>3, IncreasingAppend DEF Newest
    <3>5. QED
      BY <3>1, <3>4
  <2>3. QED
    BY <2>1, <2>2
<1>8. ASSUME NEW j \in 0..(RxN - 1), At(j)'.own = "cpu"
      PROVE  /\ Newest' < At(j)'.frame /\ At(j)'.frame <= arrived'
             /\ \A i \in 0..(j - 1) :
                  /\ At(i)'.frame <= At(j)'.frame
                  /\ At(i)'.last => At(i)'.frame < At(j)'.frame
  <2>1. j + s < RxN /\ At(j)' = At(j + s) /\ At(j + s).own = "cpu"
    BY <1>2, <1>8 DEF Free
  <2>2. /\ At(j + s).frame <= arrived
        /\ \A i \in 0..(j + s - 1) :
             /\ At(i).frame <= At(j + s).frame
             /\ At(i).last => At(i).frame < At(j + s).frame
    BY <1>2, <2>1 DEF OrderInv, RingOrder
  <2>3. At(0).frame < At(j + s).frame
    BY <1>2, <1>4, <2>2
  <2>4. Newest' < At(j + s).frame
    BY <1>2, <1>7, <2>1, <2>3, AtType DEF IInv
  <2>5. \A i \in 0..(j - 1) : At(i)' = At(i + s) /\ i + s \in 0..(j + s - 1)
    BY <1>2, <2>1
  <2>6. QED
    BY <1>3, <2>1, <2>2, <2>4, <2>5
<1>9. RingOrder'
  BY <1>8 DEF RingOrder
<1>10. Newest' <= arrived'
  BY <1>3, <1>5, <1>7, AtType DEF IInv
<1>11. QED
  BY <1>3, <1>7, <1>9, <1>10 DEF OrderInv, TakenOrder, Increasing

\* The tcpip thread takes the first of the frames that wait.
LEMMA FetchTaken ==
  ASSUME TypeOK, Increasing(Taken), FetchFrame
  PROVE  Increasing(Taken') /\ Newest' = Newest
<1>1. mbox \in Seq(Frame) /\ mbox # <<>> /\ delivered \in Frame \cup {NoFrame}
  BY DEF TypeOK, MboxOK, FetchFrame
<1>2. InHand' = InHand /\ InHand \in Seq(Frame)
  BY DEF FetchFrame, InHand, TypeOK, ThreadOK
<1>3. <<Head(mbox)>> \o Tail(mbox) = mbox
  BY <1>1
<1>4. Taken' = mbox \o InHand
  BY <1>2, <1>3 DEF FetchFrame, Taken
<1>5. Taken = <<delivered>> \o (mbox \o InHand) /\ mbox \o InHand \in Seq(Frame)
      /\ Len(mbox \o InHand) > 0
  BY <1>1, <1>2 DEF Taken
<1>6. Tail(Taken) = mbox \o InHand /\ Len(Taken) > 1
  BY <1>1, <1>5
<1>7. QED
  BY <1>4, <1>6, TakenType, IncreasingTail DEF Newest

\* The frame in hand goes into the mailbox or is dropped.
LEMMA PostTaken ==
  ASSUME TypeOK, RingInv, Increasing(Taken), PostFrame
  PROVE  Increasing(Taken') /\ Newest' \in Nat /\ Newest' <= Newest
<1> USE Constants
<1>1. p \in Frame /\ pcIn = "post" /\ p # NoFrame
  BY DEF RingInv, Scan, PostFrame, Frame, NoFrame
<1>2. Taken = Append(OutOfHand, p) /\ OutOfHand \in Seq(Nat) /\ OutOfHand # <<>>
      /\ Taken \in Seq(Nat) /\ Newest \in Nat /\ p \in Nat
  BY <1>1, TakenType DEF InHand, Frame
<1>3. Newest = p
  BY <1>2 DEF Newest
<1>4. Taken' = OutOfHand'
  <2>1. InHand' = <<>>
    BY DEF PostFrame, InHand
  <2>2. mbox' \in Seq(Frame) /\ delivered' \in Frame \cup {NoFrame}
    BY <1>1 DEF PostFrame, TypeOK, MboxOK
  <2>3. QED
    BY <2>1, <2>2 DEF Taken, OutOfHand
<1>5. CASE mbox' = mbox
  <2>1. Taken' = OutOfHand
    BY <1>4, <1>5 DEF PostFrame, OutOfHand
  <2>2. Increasing(OutOfHand) /\ OutOfHand[Len(OutOfHand)] < p
    BY <1>2, IncreasingPrefix
  <2>3. QED
    BY <1>2, <1>3, <2>1, <2>2 DEF Newest
<1>6. CASE mbox' = Append(mbox, p)
  <2>1. OutOfHand' = Append(OutOfHand, p)
    BY <1>1, <1>6 DEF PostFrame, OutOfHand, TypeOK, MboxOK
  <2>2. QED
    BY <1>2, <1>4, <2>1 DEF Newest
<1>7. QED
  BY <1>5, <1>6 DEF PostFrame

LEMMA OrderStep ==
  ASSUME IInv, OrderInv, [Next]_vars
  PROVE  OrderInv'
<1> USE Constants
<1> DEFINE RingSame == (\A j \in 0..(RxN - 1) : At(j)' = At(j)) /\ arrived' = arrived
           TakenSame == UNCHANGED <<delivered, mbox, InHand>>
<1>1. ASSUME RingSame, Increasing(Taken'), Newest' \in Nat, Newest' <= Newest,
             pcIn' = "release" => p' \in {At(0).frame, NoFrame}
      PROVE  OrderInv'
  <2>1. \A j \in 0..(RxN - 1) : At(j).frame \in Nat
    BY AtType DEF IInv
  <2>2. Newest \in Nat /\ arrived \in Nat
    BY TakenType DEF IInv, TypeOK, DmaOK
  <2>3. RingOrder'
    BY <1>1, <2>1, <2>2 DEF OrderInv, RingOrder
  <2>4. At(0)' = At(0)
    BY <1>1
  <2>5. Newest' <= arrived' /\ Increasing(Taken)'
    BY <1>1, <2>2 DEF OrderInv, TakenOrder, Increasing
  <2>6. TakenOrder'
    BY <1>1, <2>4, <2>5 DEF TakenOrder
  <2>7. QED
    BY <2>3, <2>6 DEF OrderInv
<1>2. ASSUME RingSame, TakenSame,
             pcIn' = "release" => p' \in {At(0).frame, NoFrame}
      PROVE  OrderInv'
  <2>1. Taken' = Taken /\ Newest' = Newest /\ Newest \in Nat
    BY <1>2, TakenType DEF Taken, Newest, IInv
  <2>2. QED
    BY <1>1, <1>2, <2>1 DEF OrderInv, TakenOrder
<1>3. UNCHANGED Held => RingSame
  BY DEF Held, At, Oldest
<1>4. pcIn = "release" => p \in {At(0).frame, NoFrame}
  BY DEF OrderInv, TakenOrder
<1>5. CASE DmaReceive
  BY <1>5, ReceiveOrder
<1>6. CASE ReleaseFrame
  BY <1>6, ReleaseOrder
<1>7. CASE ScanSegment \/ ScanLast
  <2>1. PICK n \in 0..RxN : Ring(n) /\ Scan(n)
    BY DEF IInv, RingInv
  <2>2. Scanning /\ SegCount < n /\ SegCount \in Nat
    BY <1>7, <2>1, CountedIsOfFrame
       DEF ScanSegment, ScanLast, IInv, TypeOK, ThreadOK
  <2>3. SegCount' = SegCount + 1
    BY <1>7, <2>1, <2>2, CountedIsOfFrame DEF ScanSegment, ScanLast, IInv
  <2>4. Oldest' = Oldest
    BY <1>7, <2>2, <2>3, OldestStays DEF ScanSegment, ScanLast, IInv
  <2>5. RingSame
    BY <1>7, <2>4 DEF ScanSegment, ScanLast, EthIfSame, dmaVars, At
  <2>6. TakenSame /\ pcIn' # "release"
    BY <1>7 DEF ScanSegment, ScanLast, Scanning, InHand
  <2>7. QED
    BY <1>2, <2>5, <2>6
<1>8. CASE CopyFrame
  <2>1. rxdesc[FSRxDesc] = At(0)
    BY <1>8, OldestOfRing, RxAtZero
       DEF CopyFrame, IInv, RingInv, Scan, TypeOK, ThreadOK, At
  <2>2. RingSame
    BY <1>3, <1>8 DEF CopyFrame, Held, scanVars, EthIfSame, dmaVars
  <2>3. TakenSame
    BY <1>8 DEF CopyFrame, InHand
  <2>4. QED
    BY <1>2, <1>8, <2>1, <2>2, <2>3 DEF CopyFrame
<1>9. CASE PostFrame
  <2>1. RingSame /\ pcIn' # "release"
    BY <1>3, <1>9 DEF PostFrame, Held, scanVars, EthIfSame, dmaVars
  <2>2. Increasing(Taken') /\ Newest' \in Nat /\ Newest' <= Newest
    BY <1>9, PostTaken DEF IInv, OrderInv, TakenOrder
  <2>3. QED
    BY <1>1, <2>1, <2>2
<1>10. CASE FetchFrame
  <2>1. RingSame /\ UNCHANGED <<pcIn, p>>
    BY <1>3, <1>10 DEF FetchFrame, Held, scanVars, dmaVars
  <2>2. Increasing(Taken') /\ Newest' = Newest /\ Newest \in Nat
    BY <1>10, FetchTaken, TakenType DEF IInv, OrderInv, TakenOrder
  <2>3. QED
    BY <1>1, <1>4, <2>1, <2>2
<1>11. CASE DmaOverrun \/ EthInterrupt
  BY <1>2, <1>3, <1>4, <1>11
     DEF DmaOverrun, EthInterrupt, Held, scanVars, dmaVars, InHand
<1>12. CASE TakeSemaphore \/ TestLock \/ EnterLock \/ ScanEmpty \/ ResumeReception
  <2>1. UNCHANGED Held
    BY <1>12 DEF TakeSemaphore, TestLock, EnterLock, ScanEmpty,
                 ResumeReception, Held, scanVars, EthIfSame, dmaVars
  <2>2. TakenSame /\ pcIn' # "release"
    BY <1>12 DEF TakeSemaphore, TestLock, EnterLock, ScanEmpty,
                 ResumeReception, InHand
  <2>3. QED
    BY <1>2, <1>3, <2>1, <2>2
<1>13. CASE OutputFrame \/ Transmit \/ DmaTransmit \/ DmaUnderrun
  BY <1>2, <1>3, <1>4, <1>13
     DEF OutputFrame, Transmit, TransmitTest, TransmitEnter, TransmitGive,
         TransmitResume, DmaTransmit, DmaUnderrun, rxVars, Held, scanVars,
         dmaVars, InHand
<1>14. CASE UNCHANGED vars
  BY <1>2, <1>3, <1>4, <1>14 DEF vars, rxVars, Held, scanVars, dmaVars, InHand
<1>15. QED
  BY <1>5, <1>6, <1>7, <1>8, <1>9, <1>10, <1>11, <1>12, <1>13, <1>14
     DEF Next, EthIf

LEMMA OrderInit == Init => OrderInv
<1> SUFFICES ASSUME Init PROVE OrderInv
  OBVIOUS
<1> USE Constants
<1>1. TypeOK
  BY TypeInit
<1>2. Oldest = 0 /\ \A j \in 0..(RxN - 1) : At(j) = Free
  BY RxAtType DEF Init, Oldest, RxAt, At, Rx
<1>3. RingOrder
  BY <1>2 DEF RingOrder, Free
<1>4. Taken = <<NoFrame>>
  BY DEF Init, Taken, InHand
<1>5. TakenOrder
  BY <1>4 DEF Init, TakenOrder, Increasing, Newest, NoFrame
<1>6. QED
  BY <1>3, <1>5 DEF OrderInv

\* The tcpip thread gets frames in the order in which the DMA stored them and
\* none twice, whichever are dropped on the way and wherever the ring wraps.
THEOREM FramesStayInOrder == Spec => []DeliveredInOrder
<1>1. OrderInv => DeliveredInOrder
  BY Constants DEF OrderInv, RingOrder, TakenOrder, DeliveredInOrder, Complete
<1>2. IInv /\ OrderInv /\ [Next]_vars => OrderInv'
  BY OrderStep
<1>3. QED
  BY <1>1, <1>2, OrderInit, Inductive, PTL DEF Spec
=============================================================================
