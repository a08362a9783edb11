--------------------------- MODULE EthernetDriver ---------------------------
(***************************************************************************)
(* The Ethernet driver between lwIP and the DMA of the MAC: ethernetif.c   *)
(* and the functions of the HAL it calls (stm32f4xx_hal_eth.c).            *)
(*                                                                         *)
(*    reception     DMA --> descriptor ring --R interrupt, s_xSemaphore--> *)
(*                  EthIf thread --> mailbox of the tcpip thread           *)
(*    transmission  the thread that holds lwIP's core lock --> descriptor  *)
(*                  ring --> DMA                                           *)
(*                                                                         *)
(* EthIf and the tcpip thread have the same priority, osPriorityRealtime   *)
(* (ethernetif.c:304, lwipopts.h TCPIP_THREAD_PRIO), and are time-sliced,  *)
(* so either may run between any two actions of the other.  The HAL's lock *)
(* is a flag of the handle that a call tests and then sets                 *)
(* (stm32f4xx_hal_def.h:107-117) and that the interrupt handler clears     *)
(* whoever set it.                                                         *)
(***************************************************************************)
EXTENDS Integers, Sequences

CONSTANTS
  RxN,          \* ETH_RXBUFNB, receive descriptors (4)
  TxN,          \* ETH_TXBUFNB, transmit descriptors (4)
  MaxSegs,      \* descriptors a frame may need: the MAC accepts 2048 bytes,
                \* a descriptor holds ETH_RX_BUF_SIZE, 1524
  MboxSize,     \* TCPIP_MBOX_SIZE (6)
  MaxFrames     \* bound: frames the network sends

ASSUME RxAssumption == RxN \in Nat /\ RxN >= 2
ASSUME TxAssumption == TxN \in Nat \ {0}
ASSUME FrameAssumption == MaxSegs \in 1..RxN /\ MaxFrames \in Nat
ASSUME MboxAssumption == MboxSize \in Nat

NoFrame == 0
Frame == 1..MaxFrames

VARIABLES
  rxdesc,                    \* DMARxDscrTab
  rxdma, rest,               \* DMA: next descriptor, segments still to come
  arrived,                   \* frames the DMA has begun to store
  rflag, rbus,               \* DMASR: frame received, no receive descriptor
  sem,                       \* s_xSemaphore
  lock,                      \* heth.Lock
  pcIn,                      \* where the EthIf thread is
  RxDesc, FSRxDesc, SegCount, \* heth.RxDesc, heth.RxFrameInfos
  scanned,                   \* descriptorscancounter
  p,                         \* the pbuf: the frame it holds or NULL
  gaveUp,                    \* the last drain ended before the ring was empty
  mbox, delivered,           \* frames queued for tcpip, the last it took
  txown,                     \* DMATxDscrTab: the OWN bits
  TxDesc,                    \* heth.TxDesc
  txdma, tbus,               \* DMA: next descriptor, DMASR: none to send
  pcOut                      \* where the transmitting thread is

dmaVars == <<rxdma, rest, arrived>>
scanVars == <<RxDesc, FSRxDesc, SegCount, scanned>>
rxVars == <<rxdesc, dmaVars, rflag, rbus, sem, pcIn, scanVars, p, gaveUp,
            mbox, delivered>>
txVars == <<txown, TxDesc, txdma, tbus, pcOut>>
vars == <<rxVars, lock, txVars>>

Rx == 0..(RxN - 1)
Tx == 0..(TxN - 1)
RxNext(i) == IF i = RxN - 1 THEN 0 ELSE i + 1
TxNext(i) == IF i = TxN - 1 THEN 0 ELSE i + 1

\* The descriptor j places after i.
RxAt(i, j) == IF i + j < RxN THEN i + j ELSE i + j - RxN

\* A descriptor the DMA owns; what it held is not looked at any more.
Free == [own |-> "dma", first |-> FALSE, last |-> FALSE, frame |-> NoFrame]
Descriptor == [own : {"dma", "cpu"}, first : BOOLEAN, last : BOOLEAN,
               frame : Frame \cup {NoFrame}]

\* The descriptors of the frame that HAL_ETH_GetReceivedFrame_IT has found.
Segments == {RxAt(FSRxDesc, j) : j \in 0..(SegCount - 1)}

\* low_level_init: every descriptor to the DMA, the semaphore created with one
\* token, the thread created.
Init ==
  /\ rxdesc = [i \in Rx |-> Free] /\ rxdma = 0 /\ rest = 0 /\ arrived = 0
  /\ rflag = FALSE /\ rbus = FALSE
  /\ sem = 1 /\ lock = FALSE
  /\ pcIn = "wait" /\ RxDesc = 0 /\ FSRxDesc = 0 /\ SegCount = 0
  /\ scanned = 0 /\ p = NoFrame /\ gaveUp = FALSE
  /\ mbox = <<>> /\ delivered = NoFrame
  /\ txown = [i \in Tx |-> FALSE] /\ TxDesc = 0 /\ txdma = 0 /\ tbus = FALSE
  /\ pcOut = "idle"
-----------------------------------------------------------------------------
(* The DMA and the interrupt.                                              *)

\* A segment of a frame is stored and its descriptor handed over.  A frame that
\* runs out of descriptors is cut there, its rest discarded.  R is set with the
\* last segment.
DmaReceive ==
  /\ rxdesc[rxdma].own = "dma"
  /\ rest = 0 => arrived < MaxFrames
  /\ \E left \in (IF rest = 0 THEN 0..(MaxSegs - 1) ELSE {rest - 1}) :
       LET cut == left > 0 /\ rxdesc[RxNext(rxdma)].own = "cpu"
           last == left = 0 \/ cut
           frame == IF rest = 0 THEN arrived + 1 ELSE arrived
       IN /\ rxdesc' = [rxdesc EXCEPT ![rxdma] =
                          [own |-> "cpu", first |-> rest = 0, last |-> last,
                           frame |-> frame]]
          /\ arrived' = frame
          /\ rest' = IF cut THEN 0 ELSE left
          /\ rflag' = (rflag \/ last)
          /\ rbus' = (rbus \/ cut)
  /\ rxdma' = RxNext(rxdma)
  /\ UNCHANGED <<sem, lock, pcIn, scanVars, p, gaveUp, mbox, delivered, txVars>>

\* The DMA finds no descriptor for the next frame, which is lost.  No interrupt
\* is enabled for it: ETH_MACDMAConfig enables NIS and R only.
DmaOverrun ==
  /\ rxdesc[rxdma].own = "cpu" /\ ~rbus
  /\ rbus' = TRUE
  /\ UNCHANGED <<rxdesc, dmaVars, rflag, sem, lock, pcIn, scanVars, p, gaveUp,
                 mbox, delivered, txVars>>

\* HAL_ETH_IRQHandler: give the semaphore, clear R, and unlock.
EthInterrupt ==
  /\ rflag
  /\ sem' = 1 /\ rflag' = FALSE /\ lock' = FALSE
  /\ UNCHANGED <<rxdesc, dmaVars, rbus, pcIn, scanVars, p, gaveUp, mbox,
                 delivered, txVars>>
-----------------------------------------------------------------------------
(* The EthIf thread: ethernetif_input and low_level_input.                 *)

EthIfSame == <<dmaVars, rflag, txVars>>

\* osSemaphoreWait.
TakeSemaphore ==
  /\ pcIn = "wait" /\ sem = 1
  /\ sem' = 0 /\ pcIn' = "test"
  /\ UNCHANGED <<rxdesc, rbus, lock, scanVars, p, gaveUp, mbox, delivered,
                 EthIfSame>>

\* __HAL_LOCK in HAL_ETH_GetReceivedFrame_IT, the test: HAL_BUSY makes
\* low_level_input return NULL, which ends the drain.
TestLock ==
  /\ pcIn = "test"
  /\ \/ lock /\ pcIn' = "wait" /\ gaveUp' = TRUE
     \/ ~lock /\ pcIn' = "enter" /\ UNCHANGED gaveUp
  /\ UNCHANGED <<rxdesc, rbus, sem, lock, scanVars, p, mbox, delivered,
                 EthIfSame>>

EnterLock ==
  /\ pcIn = "enter"
  /\ lock' = TRUE /\ scanned' = 0 /\ pcIn' = "scan"
  /\ UNCHANGED <<rxdesc, rbus, sem, RxDesc, FSRxDesc, SegCount, p, gaveUp,
                 mbox, delivered, EthIfSame>>

Scanning == /\ pcIn = "scan"
            /\ rxdesc[RxDesc].own = "cpu" /\ scanned < RxN

\* A segment that is not the last of its frame: the first starts the count, an
\* intermediate one is counted.
ScanSegment ==
  /\ Scanning /\ ~rxdesc[RxDesc].last
  /\ IF rxdesc[RxDesc].first
     THEN FSRxDesc' = RxDesc /\ SegCount' = 1
     ELSE SegCount' = SegCount + 1 /\ UNCHANGED FSRxDesc
  /\ RxDesc' = RxNext(RxDesc) /\ scanned' = scanned + 1
  /\ UNCHANGED <<rxdesc, rbus, sem, lock, pcIn, p, gaveUp, mbox, delivered,
                 EthIfSame>>

\* Mutant of ScanLast: RxDesc stays where it is.
ScanLastStays ==
  /\ Scanning /\ rxdesc[RxDesc].last
  /\ SegCount' = SegCount + 1
  /\ FSRxDesc' = IF SegCount = 0 THEN RxDesc ELSE FSRxDesc
  /\ lock' = FALSE /\ pcIn' = "copy"
  /\ UNCHANGED <<RxDesc, scanned>>
  /\ UNCHANGED <<rxdesc, rbus, sem, p, gaveUp, mbox, delivered, EthIfSame>>

\* The last segment: the frame is complete.
ScanLast ==
  /\ Scanning /\ rxdesc[RxDesc].last
  /\ SegCount' = SegCount + 1
  /\ FSRxDesc' = IF SegCount = 0 THEN RxDesc ELSE FSRxDesc
  /\ RxDesc' = RxNext(RxDesc) /\ scanned' = scanned + 1
  /\ lock' = FALSE /\ pcIn' = "copy"
  /\ UNCHANGED <<rxdesc, rbus, sem, p, gaveUp, mbox, delivered, EthIfSame>>

\* No complete frame: HAL_ERROR, low_level_input returns NULL.
ScanEmpty ==
  /\ pcIn = "scan" /\ ~Scanning
  /\ lock' = FALSE /\ pcIn' = "wait" /\ gaveUp' = FALSE
  /\ UNCHANGED <<rxdesc, rbus, sem, scanVars, p, mbox, delivered, EthIfSame>>

\* pbuf_alloc, which may fail, and the copy.
CopyFrame ==
  /\ pcIn = "copy"
  /\ p' \in {rxdesc[FSRxDesc].frame, NoFrame}
  /\ pcIn' = "release"
  /\ UNCHANGED <<rxdesc, rbus, sem, lock, scanVars, gaveUp, mbox, delivered,
                 EthIfSame>>

\* Mutant of ReleaseFrame: the segments are not counted anew.
ReleaseFrameUncounted ==
  /\ pcIn = "release"
  /\ rxdesc' = [i \in Rx |-> IF i \in Segments THEN Free ELSE rxdesc[i]]
  /\ pcIn' = "resume"
  /\ UNCHANGED <<rbus, sem, lock, scanVars, p, gaveUp, mbox, delivered,
                 EthIfSame>>

\* The frame's descriptors go back to the DMA, copied or not.
ReleaseFrame ==
  /\ pcIn = "release"
  /\ rxdesc' = [i \in Rx |-> IF i \in Segments THEN Free ELSE rxdesc[i]]
  /\ SegCount' = 0 /\ pcIn' = "resume"
  /\ UNCHANGED <<rbus, sem, lock, RxDesc, FSRxDesc, scanned, p, gaveUp, mbox,
                 delivered, EthIfSame>>

\* Mutant of ResumeReception: the flag is left as it is.
ResumeReceptionSkipped ==
  /\ pcIn = "resume"
  /\ pcIn' = IF p = NoFrame THEN "wait" ELSE "post"
  /\ gaveUp' = (gaveUp \/ p = NoFrame)
  /\ UNCHANGED <<rxdesc, rbus, sem, lock, scanVars, p, mbox, delivered,
                 EthIfSame>>

\* Clear RBUS and demand a poll.  Without a pbuf low_level_input returns NULL
\* and the drain ends.
ResumeReception ==
  /\ pcIn = "resume"
  /\ rbus' = FALSE
  /\ pcIn' = IF p = NoFrame THEN "wait" ELSE "post"
  /\ gaveUp' = (gaveUp \/ p = NoFrame)
  /\ UNCHANGED <<rxdesc, sem, lock, scanVars, p, mbox, delivered, EthIfSame>>

\* Mutant of PostFrame: one frame for each interrupt (the loop left out).
PostFrameOnce ==
  /\ pcIn = "post"
  /\ mbox' = IF Len(mbox) < MboxSize THEN Append(mbox, p) ELSE mbox
  /\ p' = NoFrame /\ pcIn' = "wait"
  /\ UNCHANGED <<rxdesc, rbus, sem, lock, scanVars, gaveUp, delivered,
                 EthIfSame>>

\* netif->input, tcpip_input: a full mailbox drops the frame.  Then the next.
PostFrame ==
  /\ pcIn = "post"
  /\ mbox' = IF Len(mbox) < MboxSize THEN Append(mbox, p) ELSE mbox
  /\ p' = NoFrame /\ pcIn' = "test"
  /\ UNCHANGED <<rxdesc, rbus, sem, lock, scanVars, gaveUp, delivered,
                 EthIfSame>>

\* The tcpip thread takes a frame from its mailbox.
FetchFrame ==
  /\ mbox # <<>>
  /\ delivered' = Head(mbox) /\ mbox' = Tail(mbox)
  /\ UNCHANGED <<rxdesc, dmaVars, rflag, rbus, sem, lock, pcIn, scanVars, p,
                 gaveUp, txVars>>
-----------------------------------------------------------------------------
(* low_level_output and HAL_ETH_TransmitFrame.  A frame of lwIP needs one  *)
(* descriptor (mtu 1500, ETH_TX_BUF_SIZE 1524).                            *)

\* A frame to send finds its descriptor free and is copied; an owned one is
\* ERR_USE and nothing happens.
OutputFrame ==
  /\ pcOut = "idle" /\ ~txown[TxDesc]
  /\ pcOut' = "test"
  /\ UNCHANGED <<rxVars, lock, txown, TxDesc, txdma, tbus>>

\* __HAL_LOCK, the test: HAL_BUSY is not looked at and the frame is gone.
TransmitTest ==
  /\ pcOut = "test"
  /\ pcOut' = IF lock THEN "idle" ELSE "enter"
  /\ UNCHANGED <<rxVars, lock, txown, TxDesc, txdma, tbus>>

TransmitEnter ==
  /\ pcOut = "enter"
  /\ lock' = TRUE /\ pcOut' = "give"
  /\ UNCHANGED <<rxVars, txown, TxDesc, txdma, tbus>>

\* The OWN bit gives the descriptor to the DMA.
TransmitGive ==
  /\ pcOut = "give"
  /\ txown' = [txown EXCEPT ![TxDesc] = TRUE]
  /\ TxDesc' = TxNext(TxDesc) /\ pcOut' = "resume"
  /\ UNCHANGED <<rxVars, lock, txdma, tbus>>

\* Mutant of TransmitResume: no poll demand.
TransmitResumeSkipped ==
  /\ pcOut = "resume"
  /\ lock' = FALSE /\ pcOut' = "idle"
  /\ UNCHANGED <<rxVars, txown, TxDesc, txdma, tbus>>

\* Clear TBUS and demand a poll, unlock.
TransmitResume ==
  /\ pcOut = "resume"
  /\ tbus' = FALSE /\ lock' = FALSE /\ pcOut' = "idle"
  /\ UNCHANGED <<rxVars, txown, TxDesc, txdma>>

\* The DMA sends the frame of its next descriptor ...
DmaTransmit ==
  /\ ~tbus /\ txown[txdma]
  /\ txown' = [txown EXCEPT ![txdma] = FALSE] /\ txdma' = TxNext(txdma)
  /\ UNCHANGED <<rxVars, lock, TxDesc, tbus, pcOut>>

\* ... or finds none and suspends until a poll is demanded.
DmaUnderrun ==
  /\ ~tbus /\ ~txown[txdma]
  /\ tbus' = TRUE
  /\ UNCHANGED <<rxVars, lock, txown, TxDesc, txdma, pcOut>>
-----------------------------------------------------------------------------
EthIf == \/ TakeSemaphore \/ TestLock \/ EnterLock
         \/ ScanSegment \/ ScanLast \/ ScanEmpty
         \/ CopyFrame \/ ReleaseFrame \/ ResumeReception \/ PostFrame
Transmit == TransmitTest \/ TransmitEnter \/ TransmitGive \/ TransmitResume
Next == \/ DmaReceive \/ DmaOverrun \/ EthInterrupt
        \/ EthIf \/ FetchFrame
        \/ OutputFrame \/ Transmit \/ DmaTransmit \/ DmaUnderrun

Spec == Init /\ [][Next]_vars

\* Both threads run in turn, an interrupt that is pending is taken, the DMA
\* sends what it is given.  Nobody has to send or receive anything.
FairSpec == Spec /\ WF_vars(EthIf) /\ WF_vars(Transmit) /\ WF_vars(FetchFrame)
                 /\ WF_vars(EthInterrupt) /\ WF_vars(DmaTransmit)
-----------------------------------------------------------------------------
(* Properties.                                                             *)

InPCs == {"wait", "test", "enter", "scan", "copy", "release", "resume", "post"}
OutPCs == {"idle", "test", "enter", "give", "resume"}

DmaOK ==
  /\ rxdesc \in [Rx -> Descriptor] /\ rxdma \in Rx
  /\ rest \in 0..(MaxSegs - 1) /\ arrived \in 0..MaxFrames
  /\ rflag \in BOOLEAN /\ rbus \in BOOLEAN
ThreadOK ==
  /\ pcIn \in InPCs /\ sem \in {0, 1} /\ lock \in BOOLEAN
  /\ RxDesc \in Rx /\ FSRxDesc \in Rx /\ SegCount \in 0..RxN
  /\ scanned \in 0..RxN /\ gaveUp \in BOOLEAN
  /\ p \in Frame \cup {NoFrame}
MboxOK == /\ mbox \in Seq(Frame) /\ Len(mbox) <= MboxSize
          /\ delivered \in Frame \cup {NoFrame}
TransmitOK ==
  /\ txown \in [Tx -> BOOLEAN] /\ TxDesc \in Tx /\ txdma \in Tx
  /\ tbus \in BOOLEAN /\ pcOut \in OutPCs

TypeOK == DmaOK /\ ThreadOK /\ MboxOK /\ TransmitOK

\* What is copied is one whole frame, first segment to last, and the DMA owns
\* none of its descriptors while it is copied, although segments are counted
\* over several calls and the DMA goes on storing frames.
CopiesOneFrame ==
  pcIn \in {"copy", "release"} =>
    /\ SegCount > 0
    /\ \A j \in 0..(SegCount - 1) :
         LET d == rxdesc[RxAt(FSRxDesc, j)] IN
           /\ d.own = "cpu" /\ d.frame = rxdesc[FSRxDesc].frame
           /\ d.first <=> j = 0
           /\ d.last <=> j = SegCount - 1

\* A complete frame is in the ring.
Waiting == \E i \in Rx : rxdesc[i].own = "cpu" /\ rxdesc[i].last

\* No wake-up is lost: EthIf sleeps on a complete frame only if its last drain
\* was cut short, by the lock or for want of a pbuf.
SleepsOnlyWhenDrained ==
  pcIn = "wait" /\ sem = 0 /\ ~rflag /\ Waiting => gaveUp

\* The frames taken from the ring: the last one delivered, the mailbox, the one
\* in hand.  The ring is read from its oldest descriptor.
InHand == IF p # NoFrame /\ pcIn \in {"resume", "post"} THEN <<p>> ELSE <<>>
Oldest == RxAt(RxDesc, IF SegCount = 0 THEN 0 ELSE RxN - SegCount)
At(j) == rxdesc[RxAt(Oldest, j)]
Complete(j) == At(j).own = "cpu" /\ At(j).last
Taken == <<delivered>> \o mbox \o InHand
Newest == Taken[Len(Taken)]

Increasing(q) == \A i \in 1..(Len(q) - 1) : q[i] < q[i + 1]

\* tcpip sees the frames in the order of arrival and none twice, whichever are
\* dropped on the way: what waits for it increases, and so do the frames of the
\* ring, which are all newer.
DeliveredInOrder ==
  /\ Increasing(Taken)
  /\ \A j \in 0..(RxN - 1) :
       Complete(j) => /\ Newest < At(j).frame
                      /\ \A i \in 0..(j - 1) :
                           Complete(i) => At(i).frame < At(j).frame

\* A frame given to the DMA is sent, whether or not another one follows.
GivenIsSent == \A i \in Tx : txown[i] ~> ~txown[i]

\* Reception that ran out of descriptors is resumed, or the last drain was cut
\* short.
ResumesUnlessCutShort == rbus ~> (~rbus \/ gaveUp)

\* "When Rx Buffer unavailable flag is set: clear it and resume reception"
\* (ethernetif.c:504).
ResumesReception == rbus ~> ~rbus
=============================================================================
