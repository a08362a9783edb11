---------------------- MODULE IntercomOwnershipProofs ----------------------
(***************************************************************************)
(* Who owns the frame buffers of IntercomAudio, and what they hold: no     *)
(* buffer has two owners, none is lost, and the captured frames stay in    *)
(* order, for every heap and queue length.                                 *)
(***************************************************************************)
EXTENDS IntercomAudioProofs, FiniteSetTheorems

-----------------------------------------------------------------------------
(* Ledgers.  A ledger q says what each owner holds, h is what nobody does.  *)
(* Whatever the queues do is a removal, an addition, or owners giving up     *)
(* all they hold; these keep Once and, if what is given up goes to the heap, *)
(* Complete.                                                                 *)

Ledger == [Owners -> Seq(Pointer)]

Once(q, h) ==
  \A o, u \in Owners : \A i \in 1..Len(q[o]), j \in 1..Len(q[u]) :
    q[o][i] # NoBuf => /\ q[o][i] \notin h
                       /\ q[o][i] = q[u][j] => o = u /\ i = j

Complete(q, h) ==
  \A b \in Buf : b \in h \/ \E o \in Owners : \E i \in 1..Len(q[o]) : q[o][i] = b

LEMMA TailOf ==
  ASSUME NEW s \in Seq(Pointer), s # <<>>
  PROVE  /\ Len(s) \in Nat \ {0} /\ Len(Tail(s)) = Len(s) - 1
         /\ Head(s) = s[1] /\ Head(s) \in Pointer /\ Tail(s) \in Seq(Pointer)
         /\ \A i \in 1..(Len(s) - 1) : Tail(s)[i] = s[i + 1]
<1>1. Len(s) \in Nat \ {0} /\ Len(Tail(s)) = Len(s) - 1
  OBVIOUS
<1>2. Head(s) = s[1] /\ Head(s) \in Pointer /\ Tail(s) \in Seq(Pointer)
  OBVIOUS
<1>3. \A i \in 1..(Len(s) - 1) : Tail(s)[i] = s[i + 1]
  OBVIOUS
<1>4. QED
  BY <1>1, <1>2, <1>3

LEMMA AppendOf ==
  ASSUME NEW s \in Seq(Pointer), NEW x \in Pointer
  PROVE  /\ Len(s) \in Nat /\ Len(Append(s, x)) = Len(s) + 1
         /\ Append(s, x) \in Seq(Pointer) /\ Append(s, x)[Len(s) + 1] = x
         /\ \A i \in 1..Len(s) : Append(s, x)[i] = s[i]
<1>1. Len(s) \in Nat /\ Len(Append(s, x)) = Len(s) + 1
  OBVIOUS
<1>2. Append(s, x) \in Seq(Pointer) /\ Append(s, x)[Len(s) + 1] = x
  OBVIOUS
<1>3. \A i \in 1..Len(s) : Append(s, x)[i] = s[i]
  OBVIOUS
<1>4. QED
  BY <1>1, <1>2, <1>3

\* An owner gives its first buffer back to the heap.
LEMMA LedgerRemove ==
  ASSUME NEW q \in Ledger, NEW h \in SUBSET Buf, Once(q, h),
         NEW k \in Owners, q[k] # <<>>,
         NEW r \in Ledger,
         \A o \in Owners : r[o] = IF o = k THEN Tail(q[k]) ELSE q[o]
  PROVE  /\ Once(r, (h \cup {Head(q[k])}) \ {NoBuf})
         /\ Complete(q, h) => Complete(r, (h \cup {Head(q[k])}) \ {NoBuf})
<1> DEFINE shift(o) == IF o = k THEN 1 ELSE 0
           x == Head(q[k])
<1>1. /\ Len(q[k]) \in Nat \ {0} /\ x = q[k][1]
      /\ r[k] = Tail(q[k]) /\ Len(r[k]) = Len(q[k]) - 1
      /\ \A i \in 1..Len(r[k]) : r[k][i] = q[k][i + 1]
  <2>1. q[k] \in Seq(Pointer) /\ r[k] = Tail(q[k])
    BY DEF Ledger
  <2>2. QED
    BY <2>1, TailOf
<1>2. \A o \in Owners : o # k => r[o] = q[o]
  BY DEF Ledger
<1>3. \A o \in Owners : Len(q[o]) \in Nat
  BY DEF Ledger
<1>4. ASSUME NEW o \in Owners, NEW i \in 1..Len(r[o])
      PROVE  /\ i + shift(o) \in 1..Len(q[o])
             /\ r[o][i] = q[o][i + shift(o)]
             /\ ~(o = k /\ i + shift(o) = 1)
  <2>1. CASE o = k
    <3>1. shift(o) = 1 /\ i \in 1..(Len(q[k]) - 1) /\ r[o][i] = q[k][i + 1]
      BY <1>1, <2>1
    <3>2. QED
      BY <1>1, <2>1, <3>1
  <2>2. CASE o # k
    BY <1>2, <1>3, <2>2
  <2>3. QED
    BY <2>1, <2>2
<1>5. Once(r, (h \cup {x}) \ {NoBuf})
  <2> SUFFICES ASSUME NEW o \in Owners, NEW u \in Owners,
                      NEW i \in 1..Len(r[o]), NEW j \in 1..Len(r[u]),
                      r[o][i] # NoBuf
               PROVE  /\ r[o][i] \notin (h \cup {x}) \ {NoBuf}
                      /\ r[o][i] = r[u][j] => o = u /\ i = j
    BY DEF Once
  <2>1. q[o][i + shift(o)] # NoBuf
    BY <1>4
  <2>2. r[o][i] \notin h /\ r[o][i] # x
    BY <1>1, <1>4, <2>1 DEF Once
  <2>3. ASSUME r[o][i] = r[u][j] PROVE o = u /\ i = j
    <3>1. q[o][i + shift(o)] = q[u][j + shift(u)]
      BY <1>4, <2>3
    <3>2. o = u /\ i + shift(o) = j + shift(u)
      BY <1>4, <2>1, <3>1 DEF Once
    <3>3. shift(o) \in Nat /\ i \in Int /\ j \in Int
      BY <1>1, <1>2, <1>3
    <3>4. QED
      BY <3>2, <3>3
  <2>4. QED
    BY <2>2, <2>3
<1>6. ASSUME Complete(q, h) PROVE Complete(r, (h \cup {x}) \ {NoBuf})
  <2> SUFFICES ASSUME NEW b \in Buf, b \notin h, b # x
               PROVE  \E o \in Owners : \E i \in 1..Len(r[o]) : r[o][i] = b
    BY Constants DEF Complete
  <2>10. PICK o \in Owners : \E i \in 1..Len(q[o]) : q[o][i] = b
    BY <1>6 DEF Complete
  <2>1. PICK i \in 1..Len(q[o]) : q[o][i] = b
    BY <2>10
  <2>2. CASE o = k
    <3>1. i - 1 \in 1..Len(r[k]) /\ r[k][i - 1] = b
      BY <1>1, <2>1, <2>2
    <3>2. QED
      BY <3>1
  <2>3. CASE o # k
    BY <1>2, <2>1, <2>3
  <2>4. QED
    BY <2>2, <2>3
<1>7. QED
  BY <1>5, <1>6

\* An owner gets a buffer from the heap, or a NULL pointer.
LEMMA LedgerAdd ==
  ASSUME NEW q \in Ledger, NEW h \in SUBSET Buf, Once(q, h),
         NEW k \in Owners, NEW x \in h \cup {NoBuf},
         NEW r \in Ledger,
         \A o \in Owners : r[o] = IF o = k THEN Append(q[k], x) ELSE q[o]
  PROVE  /\ Once(r, h \ {x})
         /\ Complete(q, h) => Complete(r, h \ {x})
<1>1. /\ x \in Pointer /\ r[k] = Append(q[k], x)
      /\ Len(r[k]) = Len(q[k]) + 1 /\ r[k][Len(q[k]) + 1] = x
      /\ \A i \in 1..Len(q[k]) : r[k][i] = q[k][i]
  <2>1. x \in Pointer /\ q[k] \in Seq(Pointer)
    BY DEF Pointer, Ledger
  <2>2. r[k] = Append(q[k], x)
    BY DEF Ledger
  <2>3. QED
    BY <2>1, <2>2, AppendOf
<1>2. \A o \in Owners : o # k => r[o] = q[o]
  BY DEF Ledger
<1>3. \A o \in Owners : Len(q[o]) \in Nat
  BY DEF Ledger
<1>4. ASSUME NEW o \in Owners, NEW i \in 1..Len(r[o])
      PROVE  \/ o = k /\ i = Len(q[k]) + 1 /\ r[o][i] = x
             \/ i \in 1..Len(q[o]) /\ r[o][i] = q[o][i]
  <2>1. CASE o # k
    <3>1. r[o] = q[o]
      BY <1>2, <2>1
    <3>2. QED
      BY <3>1
  <2>2. CASE o = k /\ i = Len(q[k]) + 1
    BY <1>1, <2>2
  <2>3. CASE o = k /\ i # Len(q[k]) + 1
    <3>1. i \in 1..Len(q[k])
      BY <1>1, <1>3, <2>3
    <3>2. QED
      BY <1>1, <2>3, <3>1
  <2>4. QED
    BY <2>1, <2>2, <2>3
<1>5. \A o \in Owners : \A i \in 1..Len(q[o]) :
        q[o][i] # NoBuf => q[o][i] \notin h /\ q[o][i] # x
  BY Constants DEF Once
<1>6. Once(r, h \ {x})
  <2> SUFFICES ASSUME NEW o \in Owners, NEW u \in Owners,
                      NEW i \in 1..Len(r[o]), NEW j \in 1..Len(r[u]),
                      r[o][i] # NoBuf
               PROVE  /\ r[o][i] \notin h \ {x}
                      /\ r[o][i] = r[u][j] => o = u /\ i = j
    BY DEF Once
  <2>1. r[o][i] \notin h \ {x}
    BY <1>4, <1>5
  <2>2. ASSUME r[o][i] = r[u][j] PROVE o = u /\ i = j
    <3>1. CASE i \in 1..Len(q[o]) /\ r[o][i] = q[o][i]
      <4>1. j \in 1..Len(q[u]) /\ r[u][j] = q[u][j]
        BY <1>4, <1>5, <2>2, <3>1
      <4>2. q[o][i] # NoBuf /\ q[o][i] = q[u][j]
        BY <2>2, <3>1, <4>1
      <4>3. QED
        BY <3>1, <4>1, <4>2 DEF Once
    <3>2. CASE o = k /\ i = Len(q[k]) + 1 /\ r[o][i] = x
      BY <1>4, <1>5, <2>2, <3>2
    <3>3. QED
      BY <1>4, <3>1, <3>2
  <2>3. QED
    BY <2>1, <2>2
<1>7. ASSUME Complete(q, h) PROVE Complete(r, h \ {x})
  <2> SUFFICES ASSUME NEW b \in Buf, b \notin h \/ b = x
               PROVE  \E o \in Owners : \E i \in 1..Len(r[o]) : r[o][i] = b
    BY DEF Complete
  <2>1. CASE b = x
    <3>1. Len(q[k]) + 1 \in 1..Len(r[k])
      BY <1>1, <1>3
    <3>2. QED
      BY <1>1, <2>1, <3>1
  <2>2. CASE b \notin h
    <3>10. PICK o \in Owners : \E i \in 1..Len(q[o]) : q[o][i] = b
      BY <1>7, <2>2 DEF Complete
    <3>1. PICK i \in 1..Len(q[o]) : q[o][i] = b
      BY <3>10
    <3>2. i \in 1..Len(r[o]) /\ r[o][i] = b
      BY <1>1, <1>2, <1>3, <3>1
    <3>3. QED
      BY <3>2
  <2>3. QED
    BY <2>1, <2>2
<1>8. QED
  BY <1>6, <1>7

\* The first buffer of one owner goes to another one.
LEMMA LedgerMove ==
  ASSUME NEW q \in Ledger, NEW h \in SUBSET Buf, Once(q, h),
         NEW k \in Owners, NEW l \in Owners, k # l, q[k] # <<>>,
         NEW r \in Ledger,
         \A o \in Owners :
           r[o] = IF o = k THEN Tail(q[k])
                  ELSE IF o = l THEN Append(q[l], Head(q[k])) ELSE q[o]
  PROVE  Once(r, h) /\ (Complete(q, h) => Complete(r, h))
<1> DEFINE x == Head(q[k])
           s == [q EXCEPT ![k] = Tail(q[k])]
           g == (h \cup {x}) \ {NoBuf}
<1>1. x = q[k][1] /\ 1 \in 1..Len(q[k]) /\ x \in Pointer /\ Tail(q[k]) \in Seq(Pointer)
  BY TailOf DEF Ledger
<1>2. s \in Ledger /\ g \in SUBSET Buf
  BY <1>1 DEF Ledger, Pointer
<1>3. Once(s, g) /\ (Complete(q, h) => Complete(s, g))
  <2> HIDE DEF g, x
  <2>1. \A o \in Owners : s[o] = IF o = k THEN Tail(q[k]) ELSE q[o]
    BY DEF Ledger
  <2> HIDE DEF s
  <2>2. QED
    BY <1>2, <2>1, LedgerRemove DEF g, x
<1>4. x \in g \cup {NoBuf} /\ g \ {x} = h
  BY <1>1, Constants DEF Pointer, Once
<1>5. \A o \in Owners : r[o] = IF o = l THEN Append(s[l], x) ELSE s[o]
  BY DEF Ledger
<1>6. Once(r, g \ {x}) /\ (Complete(s, g) => Complete(r, g \ {x}))
  <2> HIDE DEF g, x, s
  <2>1. QED
    BY <1>2, <1>3, <1>4, <1>5, LedgerAdd
<1>7. QED
  BY <1>3, <1>4, <1>6

\* Some owners give up all they hold, to the heap or to nobody.
LEMMA LedgerClear ==
  ASSUME NEW q \in Ledger, NEW h \in SUBSET Buf, Once(q, h),
         NEW K \in SUBSET Owners,
         NEW r \in Ledger, \A o \in Owners : r[o] = IF o \in K THEN <<>> ELSE q[o],
         NEW g, \A x \in g : \/ x \in h
                             \/ \E o \in K : \E i \in 1..Len(q[o]) : q[o][i] = x
  PROVE  /\ Once(r, g)
         /\ h \subseteq g /\ Complete(q, h)
              /\ (\A o \in K : \A i \in 1..Len(q[o]) : q[o][i] \in g \cup {NoBuf})
            => Complete(r, g)
<1>1. \A o \in Owners : \A i \in 1..Len(r[o]) :
        o \notin K /\ r[o] = q[o] /\ i \in 1..Len(q[o])
  OBVIOUS
<1>2. Once(r, g)
  <2> SUFFICES ASSUME NEW o \in Owners, NEW u \in Owners,
                      NEW i \in 1..Len(r[o]), NEW j \in 1..Len(r[u]),
                      r[o][i] # NoBuf
               PROVE  /\ r[o][i] \notin g
                      /\ r[o][i] = r[u][j] => o = u /\ i = j
    BY DEF Once
  <2>1. /\ o \notin K /\ r[o] = q[o] /\ i \in 1..Len(q[o])
        /\ u \notin K /\ r[u] = q[u] /\ j \in 1..Len(q[u])
    BY <1>1
  <2>2. r[o][i] \notin h /\ (r[o][i] = r[u][j] => o = u /\ i = j)
    BY <2>1 DEF Once
  <2>3. \A v \in K : \A n \in 1..Len(q[v]) : q[v][n] # r[o][i]
    BY <2>1 DEF Once
  <2>4. QED
    BY <2>2, <2>3
<1>3. ASSUME h \subseteq g, Complete(q, h),
             \A o \in K : \A i \in 1..Len(q[o]) : q[o][i] \in g \cup {NoBuf}
      PROVE  Complete(r, g)
  <2> SUFFICES ASSUME NEW b \in Buf, b \notin g
               PROVE  \E o \in Owners : \E i \in 1..Len(r[o]) : r[o][i] = b
    BY DEF Complete
  <2>10. PICK o \in Owners : \E i \in 1..Len(q[o]) : q[o][i] = b
    BY <1>3 DEF Complete
  <2>1. PICK i \in 1..Len(q[o]) : q[o][i] = b
    BY <2>10
  <2>2. o \notin K
    BY <1>3, <2>1, Constants
  <2>3. QED
    BY <2>1, <2>2
<1>4. QED
  BY <1>2, <1>3

\* The first buffer of an owner is lost.
LEMMA LedgerLose ==
  ASSUME NEW q \in Ledger, NEW h \in SUBSET Buf, Once(q, h),
         NEW k \in Owners, q[k] # <<>>,
         NEW r \in Ledger,
         \A o \in Owners : r[o] = IF o = k THEN Tail(q[k]) ELSE q[o]
  PROVE  Once(r, h)
<1>1. Once(r, (h \cup {Head(q[k])}) \ {NoBuf})
  BY LedgerRemove
<1>2. h \subseteq (h \cup {Head(q[k])}) \ {NoBuf}
  BY Constants
<1>3. QED
  BY <1>1, <1>2 DEF Once

-----------------------------------------------------------------------------
(* The ledger of the model.  The first lemmas say what Holds is, now and     *)
(* after a step.                                                            *)

LEMMA HoldsNow ==
  /\ Holds["free"] = xTxBufferQueue /\ Holds["captured"] = xOutgoingAudio
  /\ Holds["sending"] = Held /\ Holds["playing"] = xIncomingAudio
  /\ Holds["played"] = xRxBufferQueue /\ Holds["filling"] = <<buf_in>>
BY DEF Holds, HeldBy, Owners

LEMMA HoldsNext ==
  /\ Holds'["free"] = xTxBufferQueue' /\ Holds'["captured"] = xOutgoingAudio'
  /\ Holds'["sending"] = Held' /\ Holds'["playing"] = xIncomingAudio'
  /\ Holds'["played"] = xRxBufferQueue' /\ Holds'["filling"] = <<buf_in'>>
BY DEF Holds, HeldBy, Owners

LEMMA HoldsType ==
  ASSUME TypeOK PROVE Holds \in Ledger /\ heap \in SUBSET Buf
<1>1. /\ xTxBufferQueue \in Seq(Pointer) /\ xOutgoingAudio \in Seq(Pointer)
      /\ xIncomingAudio \in Seq(Pointer) /\ xRxBufferQueue \in Seq(Pointer)
      /\ <<buf_in>> \in Seq(Pointer) /\ Held \in Seq(Pointer)
  BY DEF TypeOK, QueuesOK, BuffersOK, IsQueue, Held
<1>2. \A o \in Owners : Holds[o] \in Seq(Pointer)
  BY <1>1, HoldsNow DEF Owners
<1>3. Holds = [o \in Owners |-> Holds[o]]
  BY DEF Holds
<1>4. QED
  BY <1>2, <1>3 DEF Ledger, TypeOK, BuffersOK

LEMMA HoldsTypeNext ==
  ASSUME TypeOK' PROVE Holds' \in Ledger /\ heap' \in SUBSET Buf
<1>1. /\ xTxBufferQueue' \in Seq(Pointer) /\ xOutgoingAudio' \in Seq(Pointer)
      /\ xIncomingAudio' \in Seq(Pointer) /\ xRxBufferQueue' \in Seq(Pointer)
      /\ <<buf_in'>> \in Seq(Pointer) /\ Held' \in Seq(Pointer)
  BY DEF TypeOK, QueuesOK, BuffersOK, IsQueue, Held
<1>2. \A o \in Owners : Holds'[o] \in Seq(Pointer)
  BY <1>1, HoldsNext DEF Owners
<1>3. Holds' = [o \in Owners |-> Holds'[o]]
  BY DEF Holds
<1>4. QED
  BY <1>2, <1>3 DEF Ledger, TypeOK, BuffersOK

Same(o) == Holds'[o] = Holds[o]

\* Nobody owns a buffer twice, and the pointer the thread is left with when a
\* channel is closed is not taken for one.
Own == Once(Holds, heap) /\ (pc = "alloc" => bytes_to_send = 0)

\* No step finds the queue full it sends a buffer to, or leaves the loop without
\* giving the buffers back.
Lossless ==
  /\ "recv" \notin Faults
  /\ pc = "alloc" /\ allocated < PoolSize => ~Full(xTxBufferQueue)
  /\ pc = "send" /\ bytes_to_send > 0 => ~Full(xTxBufferQueue)
  /\ adcOn /\ xTxBufferQueue # <<>> => ~Full(xOutgoingAudio)
  /\ dacOn /\ pc # "halted" /\ (Streaming => played < MaxPlayed)
       => ~Full(xRxBufferQueue)

Keeps == Lossless /\ Complete(Holds, heap) => Complete(Holds', heap')

\* The buffers of a queue are the elements of it.
LEMMA ElementsAre ==
  ASSUME NEW s \in Seq(Pointer)
  PROVE  \A x : x \in ToSet(s) <=> \E i \in 1..Len(s) : s[i] = x
BY DEF ToSet

LEMMA CloseOwns ==
  ASSUME TypeOK, TypeOK', Own, CloseChannel
  PROVE  Once(Holds', heap') /\ Keeps
<1>1. Holds \in Ledger /\ Holds' \in Ledger /\ heap \in SUBSET Buf
  BY HoldsType, HoldsTypeNext
<1> DEFINE K == {"free", "captured", "sending", "playing"}
           E(s) == {s[i] : i \in 1..Len(s)}
<1>2. \A o \in Owners : Holds'[o] = IF o \in K THEN <<>> ELSE Holds[o]
  BY HoldsNow, HoldsNext
     DEF CloseChannel, Held, Holding, Streaming, threadVars, Owners
<1>3. \A o \in K : Holds[o] \in Seq(Pointer)
  BY <1>1 DEF Ledger, Owners
<1>4. ToSet(Outbound) = E(Held) \cup E(xOutgoingAudio)
  <2>1. Held \in Seq(Pointer) /\ xOutgoingAudio \in Seq(Pointer)
    BY <1>3, HoldsNow
  <2>2. Outbound \in Seq(Pointer) /\ Len(Outbound) = Len(Held) + Len(xOutgoingAudio)
    BY <2>1 DEF Outbound
  <2>3. \A i \in 1..Len(Outbound) :
          Outbound[i] = IF i <= Len(Held) THEN Held[i]
                                          ELSE xOutgoingAudio[i - Len(Held)]
    BY <2>1 DEF Outbound
  <2>4. \A i \in 1..Len(Held) : Outbound[i] = Held[i] /\ i \in 1..Len(Outbound)
    BY <2>1, <2>2, <2>3
  <2>5. \A i \in 1..Len(xOutgoingAudio) :
          /\ Outbound[i + Len(Held)] = xOutgoingAudio[i]
          /\ i + Len(Held) \in 1..Len(Outbound)
    <3>1. Len(Held) \in Nat /\ Len(xOutgoingAudio) \in Nat
      BY <2>1
    <3>2. TAKE i \in 1..Len(xOutgoingAudio)
    <3>3. i + Len(Held) \in 1..Len(Outbound) /\ ~(i + Len(Held) <= Len(Held))
          /\ (i + Len(Held)) - Len(Held) = i
      BY <2>2, <3>1
    <3>4. QED
      BY <2>3, <3>3
  <2>6. ASSUME NEW x PROVE x \in ToSet(Outbound) <=> x \in E(Held) \cup E(xOutgoingAudio)
    <3>1. x \in ToSet(Outbound) <=> \E i \in 1..Len(Outbound) : Outbound[i] = x
      BY <2>2, ElementsAre
    <3>2. ASSUME NEW i \in 1..Len(Outbound), Outbound[i] = x
          PROVE  x \in E(Held) \cup E(xOutgoingAudio)
      <4>1. CASE i <= Len(Held)
        BY <2>1, <2>3, <3>2, <4>1
      <4>2. CASE ~(i <= Len(Held))
        <5>1. i - Len(Held) \in 1..Len(xOutgoingAudio)
          BY <2>1, <2>2, <4>2
        <5>2. QED
          BY <2>3, <3>2, <4>2, <5>1
      <4>3. QED
        BY <4>1, <4>2
    <3>3. QED
      BY <2>4, <2>5, <3>1, <3>2
  <2>7. QED
    BY <2>6
<1>5. heap' = (heap \cup E(Holds["playing"]) \cup E(Holds["sending"])
                    \cup E(Holds["captured"]) \cup E(Holds["free"])) \ {NoBuf}
  <2>1. /\ ToSet(xIncomingAudio) = E(xIncomingAudio)
        /\ ToSet(xTxBufferQueue) = E(xTxBufferQueue)
    BY <1>3, HoldsNow, ElementsAre
  <2>2. QED
    BY <1>4, <2>1, HoldsNow DEF CloseChannel
<1>6. \A x \in heap' : \/ x \in heap
                       \/ \E o \in K : \E i \in 1..Len(Holds[o]) : Holds[o][i] = x
  BY <1>5
<1>7. \A o \in K : \A i \in 1..Len(Holds[o]) : Holds[o][i] \in heap' \cup {NoBuf}
  BY <1>5
<1>8. heap \subseteq heap'
  BY <1>1, <1>5, Constants
<1>9. K \in SUBSET Owners
  BY DEF Owners
<1>10. QED
  <2> HIDE DEF K
  <2>1. /\ Once(Holds', heap')
        /\ heap \subseteq heap' /\ Complete(Holds, heap)
             /\ (\A o \in K : \A i \in 1..Len(Holds[o]) :
                   Holds[o][i] \in heap' \cup {NoBuf})
           => Complete(Holds', heap')
    BY <1>1, <1>2, <1>6, <1>9, LedgerClear DEF Own
  <2>2. QED
    BY <1>7, <1>8, <2>1 DEF Keeps

\* What leaves every owner and the heap as they are.
LEMMA SameOwns ==
  ASSUME TypeOK, TypeOK', Own, heap' = heap,
         UNCHANGED <<xTxBufferQueue, xOutgoingAudio, xIncomingAudio,
                     xRxBufferQueue, buf_in, Held>>
  PROVE  Once(Holds', heap') /\ Keeps
<1>1. \A o \in Owners : Same(o)
  BY HoldsNow, HoldsNext DEF Owners, Same
<1>2. Holds \in Ledger /\ Holds' \in Ledger
  BY HoldsType, HoldsTypeNext
<1>3. Holds' = Holds
  BY <1>1, <1>2 DEF Ledger, Same
<1>4. QED
  BY <1>3 DEF Own, Keeps

LEMMA MoveOwns ==
  ASSUME TypeOK, TypeOK', Own, heap' = heap,
         NEW k \in Owners, NEW l \in Owners, k # l, Holds[k] # <<>>,
         Holds'[k] = Tail(Holds[k]), Holds'[l] = Append(Holds[l], Head(Holds[k])),
         \A o \in Owners \ {k, l} : Same(o)
  PROVE  Once(Holds', heap') /\ Keeps
<1>1. Holds \in Ledger /\ Holds' \in Ledger /\ heap \in SUBSET Buf
  BY HoldsType, HoldsTypeNext
<1>2. \A o \in Owners :
        Holds'[o] = IF o = k THEN Tail(Holds[k])
                    ELSE IF o = l THEN Append(Holds[l], Head(Holds[k]))
                    ELSE Holds[o]
  BY DEF Same
<1>3. Once(Holds', heap) /\ (Complete(Holds, heap) => Complete(Holds', heap))
  BY <1>1, <1>2, LedgerMove DEF Own
<1>4. QED
  BY <1>3 DEF Keeps

LEMMA LoseOwns ==
  ASSUME TypeOK, TypeOK', Own, heap' = heap, ~Lossless,
         NEW k \in Owners, Holds[k] # <<>>, Holds'[k] = Tail(Holds[k]),
         \A o \in Owners \ {k} : Same(o) \/ Holds'[o] = <<>>
  PROVE  Once(Holds', heap') /\ Keeps
<1>1. Holds \in Ledger /\ Holds' \in Ledger /\ heap \in SUBSET Buf
  BY HoldsType, HoldsTypeNext
<1> DEFINE K == {o \in Owners \ {k} : Holds'[o] = <<>>}
           s == [o \in Owners |-> IF o = k THEN Tail(Holds[k]) ELSE Holds[o]]
<1>2. s \in Ledger
  BY <1>1, TailOf DEF Ledger
<1>3. Once(s, heap)
  <2>1. \A o \in Owners : s[o] = IF o = k THEN Tail(Holds[k]) ELSE Holds[o]
    OBVIOUS
  <2> HIDE DEF s
  <2>2. QED
    BY <1>1, <1>2, <2>1, LedgerLose DEF Own
<1>4. \A o \in Owners : Holds'[o] = IF o \in K THEN <<>> ELSE s[o]
  BY DEF Same
<1>5. Once(Holds', heap)
  <2>1. K \in SUBSET Owners
    OBVIOUS
  <2> HIDE DEF s, K
  <2>2. QED
    BY <1>1, <1>2, <1>3, <1>4, <2>1, LedgerClear
<1>6. QED
  BY <1>5 DEF Keeps

\* Some owners lose all they hold, the heap as well perhaps.
LEMMA ForgetOwns ==
  ASSUME TypeOK, TypeOK', Own, heap' \subseteq heap, ~Lossless,
         \A o \in Owners : Same(o) \/ Holds'[o] = <<>>
  PROVE  Once(Holds', heap') /\ Keeps
<1>1. Holds \in Ledger /\ Holds' \in Ledger /\ heap \in SUBSET Buf
  BY HoldsType, HoldsTypeNext
<1> DEFINE K == {o \in Owners : Holds'[o] = <<>>}
<1>2. \A o \in Owners : Holds'[o] = IF o \in K THEN <<>> ELSE Holds[o]
  BY DEF Same
<1>3. Once(Holds', heap')
  <2>1. K \in SUBSET Owners
    OBVIOUS
  <2> HIDE DEF K
  <2>2. QED
    BY <1>1, <1>2, <2>1, LedgerClear DEF Own
<1>4. QED
  BY <1>3 DEF Keeps

LEMMA AllocateOwns ==
  ASSUME TypeOK, TypeOK', Own, AllocateBuffer
  PROVE  Once(Holds', heap') /\ Keeps
<1>1. Holds \in Ledger /\ Holds' \in Ledger /\ heap \in SUBSET Buf
  BY HoldsType, HoldsTypeNext
<1>2. Held = <<>> /\ Held' = <<>>
  BY DEF AllocateBuffer, Held, Holding, Streaming
<1>3. CASE heap = {}
  BY <1>2, <1>3, SameOwns DEF AllocateBuffer, threadVars
<1>4. CASE heap # {}
  <2>1. PICK b \in heap : /\ heap' = heap \ {b}
                          /\ xTxBufferQueue' = IF Full(xTxBufferQueue)
                                               THEN xTxBufferQueue
                                               ELSE Append(xTxBufferQueue, b)
    BY <1>4 DEF AllocateBuffer
  <2>2. UNCHANGED <<xOutgoingAudio, xIncomingAudio, xRxBufferQueue, buf_in>>
        /\ pc = "alloc" /\ allocated < PoolSize
    BY <1>4 DEF AllocateBuffer
  <2>3. CASE Full(xTxBufferQueue)
    <3>1. \A o \in Owners : Same(o)
      BY <1>2, <2>1, <2>2, <2>3, HoldsNow, HoldsNext DEF Owners, Same
    <3>2. ~Lossless
      BY <2>2, <2>3 DEF Lossless
    <3>3. QED
      BY <2>1, <3>1, <3>2, ForgetOwns
  <2>4. CASE ~Full(xTxBufferQueue)
    <3>1. "free" \in Owners
      BY DEF Owners
    <3>2. \A o \in Owners : Holds'[o] = IF o = "free" THEN Append(Holds["free"], b)
                                                      ELSE Holds[o]
      BY <1>2, <2>1, <2>2, <2>4, HoldsNow, HoldsNext DEF Owners
    <3>3. /\ Once(Holds', heap \ {b})
          /\ Complete(Holds, heap) => Complete(Holds', heap \ {b})
      BY <1>1, <3>1, <3>2, LedgerAdd DEF Own
    <3>4. QED
      BY <2>1, <3>3 DEF Keeps
  <2>5. QED
    BY <2>3, <2>4
<1>5. QED
  BY <1>3, <1>4

LEMMA DrainOwns ==
  ASSUME TypeOK, TypeOK', Own, DrainPlayed
  PROVE  Once(Holds', heap') /\ Keeps
<1>1. Holds \in Ledger /\ Holds' \in Ledger /\ heap \in SUBSET Buf
  BY HoldsType, HoldsTypeNext
<1>2. Held' = Held
  BY DEF DrainPlayed, Held, Holding, Streaming, threadVars
<1>3. CASE xRxBufferQueue = <<>>
  BY <1>2, <1>3, SameOwns DEF DrainPlayed, threadVars
<1>4. CASE xRxBufferQueue # <<>>
  <2>1. "played" \in Owners /\ Holds["played"] # <<>>
    BY <1>4, HoldsNow DEF Owners
  <2>2. \A o \in Owners : Holds'[o] = IF o = "played" THEN Tail(Holds["played"])
                                                      ELSE Holds[o]
    BY <1>2, <1>4, HoldsNow, HoldsNext DEF DrainPlayed, threadVars, Owners
  <2>3. heap' = (heap \cup {Head(Holds["played"])}) \ {NoBuf}
    BY <1>4, HoldsNow DEF DrainPlayed
  <2>4. /\ Once(Holds', heap')
        /\ Complete(Holds, heap) => Complete(Holds', heap')
    BY <1>1, <2>1, <2>2, <2>3, LedgerRemove DEF Own
  <2>5. QED
    BY <2>4 DEF Keeps
<1>5. QED
  BY <1>3, <1>4

LEMMA TakeFrameOwns ==
  ASSUME TypeOK, TypeOK', Own, TakeFrame
  PROVE  Once(Holds', heap') /\ Keeps
<1> USE Constants DEF threadVars
<1>1. CASE bytes_to_send = 0 /\ xOutgoingAudio # <<>>
  <2>1. Held = <<>> /\ Held' = <<Head(xOutgoingAudio)>>
    BY <1>1 DEF TakeFrame, Held, Holding, Streaming
  <2>2. "captured" \in Owners /\ "sending" \in Owners /\ Holds["captured"] # <<>>
    BY <1>1, HoldsNow DEF Owners
  <2>3. /\ Holds'["captured"] = Tail(Holds["captured"])
        /\ Holds'["sending"] = <<Head(Holds["captured"])>> /\ Holds["sending"] = <<>>
    BY <1>1, <2>1, HoldsNow, HoldsNext DEF TakeFrame
  <2>4. Holds'["sending"] = Append(Holds["sending"], Head(Holds["captured"]))
    BY <2>3
  <2>5. \A o \in Owners \ {"captured", "sending"} : Same(o)
    BY HoldsNow, HoldsNext DEF TakeFrame, Owners, Same
  <2>6. heap' = heap
    BY DEF TakeFrame
  <2>7. QED
    BY <2>2, <2>3, <2>4, <2>5, <2>6, MoveOwns
<1>2. CASE bytes_to_send > 0 \/ xOutgoingAudio = <<>>
  <2>1. Held' = Held /\ UNCHANGED xOutgoingAudio
    BY <1>2 DEF TakeFrame, Held, Holding, Streaming
  <2>2. QED
    BY <2>1, SameOwns DEF TakeFrame
<1>3. QED
  BY <1>1, <1>2 DEF TakeFrame

LEMMA SendOwns ==
  ASSUME TypeOK, TypeOK', Own, SendStep
  PROVE  Once(Holds', heap') /\ Keeps
<1>1. CASE SendFrame
  <2>1. Held = <<buf_out>> /\ Held' = <<>> /\ buf_out \in Pointer
    BY <1>1 DEF SendFrame, Held, Holding, Streaming, TypeOK, BuffersOK
  <2>2. "sending" \in Owners /\ "free" \in Owners
    BY DEF Owners
  <2>3. \A o \in Owners \ {"sending", "free"} : Same(o)
    BY <1>1, HoldsNow, HoldsNext DEF SendFrame, Owners, Same
  <2>4. CASE Full(xTxBufferQueue)
    <3>1. \A o \in Owners : Same(o) \/ Holds'[o] = <<>>
      BY <1>1, <2>1, <2>3, <2>4, HoldsNow, HoldsNext DEF SendFrame, Same
    <3>2. ~Lossless /\ heap' = heap
      BY <1>1, <2>4 DEF SendFrame, Lossless
    <3>3. QED
      BY <3>1, <3>2, ForgetOwns
  <2>5. CASE ~Full(xTxBufferQueue)
    <3>1. Holds["sending"] # <<>> /\ Holds'["sending"] = Tail(Holds["sending"])
          /\ Head(Holds["sending"]) = buf_out
      BY <2>1, HoldsNow, HoldsNext
    <3>2. Holds'["free"] = Append(Holds["free"], Head(Holds["sending"]))
      BY <1>1, <2>5, <3>1, HoldsNow, HoldsNext DEF SendFrame
    <3>3. heap' = heap
      BY <1>1 DEF SendFrame
    <3>4. QED
      BY <2>2, <2>3, <3>1, <3>2, <3>3, MoveOwns
  <2>6. QED
    BY <2>4, <2>5
<1>2. CASE SendAgain \/ SendNothing
  BY <1>2, SameOwns DEF SendAgain, SendNothing, Held, Holding, Streaming, threadVars
<1>3. CASE SendFails
  <2>1. Held' = Held
    BY <1>3, Constants
       DEF SendFails, Held, Holding, Streaming, TypeOK, CountersOK, MaxExcess
  <2>2. QED
    BY <1>3, <2>1, SameOwns DEF SendFails
<1>4. QED
  BY <1>1, <1>2, <1>3 DEF SendStep

LEMMA ReceiveOwns ==
  ASSUME TypeOK, TypeOK', Own, ReceiveStep
  PROVE  Once(Holds', heap') /\ Keeps
<1>1. CASE ReceiveFails
  <2>1. Held' = <<>>
    BY <1>1 DEF ReceiveFails, Held, Holding, Streaming
  <2>2. \A o \in Owners : Same(o) \/ Holds'[o] = <<>>
    BY <1>1, <2>1, HoldsNow, HoldsNext DEF ReceiveFails, threadVars, Owners, Same
  <2>3. ~Lossless /\ heap' \subseteq heap
    BY <1>1 DEF ReceiveFails, Lossless
  <2>4. QED
    BY <2>2, <2>3, ForgetOwns
<1>2. CASE \E n \in 0..(FrameSize - buf_count) : Receive(n)
  BY <1>2, SameOwns DEF Receive, Held, Holding, Streaming
<1>3. QED
  BY <1>1, <1>2 DEF ReceiveStep

LEMMA PlayOwns ==
  ASSUME TypeOK, TypeOK', Own, PlayFrame
  PROVE  Once(Holds', heap') /\ Keeps
<1>1. Holds \in Ledger /\ Holds' \in Ledger /\ heap \in SUBSET Buf
  BY HoldsType, HoldsTypeNext
<1> DEFINE s == [o \in Owners |-> IF o = "filling" THEN <<>>
                                  ELSE IF o = "playing"
                                       THEN Append(xIncomingAudio, buf_in)
                                       ELSE Holds[o]]
<1>2. /\ "filling" \in Owners /\ "playing" \in Owners
      /\ Holds["filling"] # <<>> /\ Tail(Holds["filling"]) = <<>>
      /\ Head(Holds["filling"]) = buf_in /\ buf_in \in Pointer
      /\ Holds["playing"] = xIncomingAudio
  BY HoldsNow DEF Owners, TypeOK, BuffersOK
<1>3. s \in Ledger
  BY <1>1, <1>2, AppendOf DEF Ledger
<1>4. \A o \in Owners :
        s[o] = IF o = "filling" THEN Tail(Holds["filling"])
               ELSE IF o = "playing"
                    THEN Append(Holds["playing"], Head(Holds["filling"]))
                    ELSE Holds[o]
  BY <1>2
<1>5. Once(s, heap) /\ (Complete(Holds, heap) => Complete(s, heap))
  <2> HIDE DEF s
  <2>1. QED
    BY <1>1, <1>2, <1>3, <1>4, LedgerMove DEF Own
<1>6. Held' = Held
  BY DEF PlayFrame, Held, Holding, Streaming
<1>7. buf_in' \in heap \cup {NoBuf} /\ heap' = heap \ {buf_in'}
  BY <1>1, Constants DEF PlayFrame
<1>8. \A o \in Owners :
        Holds'[o] = IF o = "filling" THEN Append(s["filling"], buf_in') ELSE s[o]
  <2>1. /\ Holds'["filling"] = <<buf_in'>> /\ s["filling"] = <<>>
        /\ Holds'["playing"] = s["playing"]
    BY <1>2, HoldsNext DEF PlayFrame
  <2>2. Append(<<>>, buf_in') = <<buf_in'>>
    OBVIOUS
  <2>3. \A o \in Owners \ {"filling", "playing"} : Holds'[o] = Holds[o]
    BY <1>6, HoldsNow, HoldsNext DEF PlayFrame, Owners
  <2>4. QED
    BY <2>1, <2>2, <2>3
<1>9. Once(Holds', heap') /\ (Complete(s, heap) => Complete(Holds', heap'))
  <2> HIDE DEF s
  <2>1. QED
    BY <1>1, <1>2, <1>3, <1>5, <1>7, <1>8, LedgerAdd
<1>10. QED
  BY <1>5, <1>9 DEF Keeps

LEMMA AdcOwns ==
  ASSUME TypeOK, TypeOK', Own, AdcInterrupt
  PROVE  Once(Holds', heap') /\ Keeps
<1>1. "free" \in Owners /\ "captured" \in Owners /\ Holds["free"] # <<>>
      /\ Holds'["free"] = Tail(Holds["free"]) /\ heap' = heap
  BY HoldsNow, HoldsNext DEF AdcInterrupt, Owners
<1>2. CASE Full(xOutgoingAudio)
  <2>1. ~Lossless
    BY <1>2 DEF AdcInterrupt, Lossless
  <2>2. Held' = <<>>
    BY <1>2 DEF AdcInterrupt, Held, Holding, Streaming
  <2>3. \A o \in Owners \ {"free"} : Same(o) \/ Holds'[o] = <<>>
    BY <1>2, <2>2, HoldsNow, HoldsNext DEF AdcInterrupt, threadVars, Owners, Same
  <2>4. QED
    BY <1>1, <2>1, <2>3, LoseOwns
<1>3. CASE ~Full(xOutgoingAudio)
  <2>1. Held' = Held
    BY <1>3 DEF AdcInterrupt, Held, Holding, Streaming, threadVars
  <2>2. \A o \in Owners \ {"free", "captured"} : Same(o)
    BY <2>1, HoldsNow, HoldsNext DEF AdcInterrupt, threadVars, Owners, Same
  <2>3. Holds'["captured"] = Append(Holds["captured"], Head(Holds["free"]))
    BY <1>3, HoldsNow, HoldsNext DEF AdcInterrupt
  <2>4. QED
    BY <1>1, <2>2, <2>3, MoveOwns
<1>4. QED
  BY <1>2, <1>3

LEMMA DacOwns ==
  ASSUME TypeOK, TypeOK', Own, DacInterrupt
  PROVE  Once(Holds', heap') /\ Keeps
<1>1. "playing" \in Owners /\ "played" \in Owners /\ Holds["playing"] # <<>>
      /\ Holds'["playing"] = Tail(Holds["playing"]) /\ heap' = heap
  BY HoldsNow, HoldsNext DEF DacInterrupt, Owners
<1>2. Held' = Held
  BY DEF DacInterrupt, Held, Holding, Streaming, threadVars
<1>3. \A o \in Owners \ {"playing", "played"} : Same(o)
  BY <1>2, HoldsNow, HoldsNext DEF DacInterrupt, threadVars, Owners, Same
<1>4. CASE Full(xRxBufferQueue)
  <2>1. ~Lossless
    BY <1>4 DEF DacInterrupt, Lossless
  <2>2. Same("played")
    BY <1>4, HoldsNow, HoldsNext DEF DacInterrupt, Same
  <2>3. QED
    BY <1>1, <1>3, <2>1, <2>2, LoseOwns
<1>5. CASE ~Full(xRxBufferQueue)
  <2>1. Holds'["played"] = Append(Holds["played"], Head(Holds["playing"]))
    BY <1>5, HoldsNow, HoldsNext DEF DacInterrupt
  <2>2. QED
    BY <1>1, <1>3, <2>1, MoveOwns
<1>6. QED
  BY <1>4, <1>5

LEMMA OwnStep ==
  ASSUME TypeOK, TypeOK', Own, [Next]_vars
  PROVE  Own' /\ Keeps
<1>1. pc' = "alloc" => bytes_to_send' = 0
  <2> USE DEF Own, threadVars
  <2>1. CASE ChannelOpen \/ ChannelClose \/ UNCHANGED vars
    BY <2>1 DEF ChannelOpen, ChannelClose, ChannelRequest, vars
  <2>2. CASE AwaitOpen \/ OpenFails \/ AllocateBuffer \/ StartCapture
    BY <2>2 DEF AwaitOpen, OpenFails, AllocateBuffer, StartCapture
  <2>3. CASE DrainPlayed \/ PollNotification \/ CloseChannel \/ TakeFrame
    BY <2>3 DEF DrainPlayed, PollNotification, CloseChannel, TakeFrame
  <2>4. CASE SendStep \/ ReceiveStep
    BY <2>4 DEF SendStep, SendFrame, SendAgain, SendFails, SendNothing,
                ReceiveStep, Receive, ReceiveFails
  <2>5. CASE PlayFrame \/ DropFrame \/ AdcInterrupt \/ DacInterrupt
    BY <2>5 DEF PlayFrame, DropFrame, AdcInterrupt, DacInterrupt
  <2>6. QED
    BY <2>1, <2>2, <2>3, <2>4, <2>5 DEF Next, Thread
<1>2. Once(Holds', heap') /\ Keeps
  <2> USE DEF Held, Holding, Streaming, threadVars
  <2>1. CASE ChannelOpen \/ ChannelClose \/ UNCHANGED vars
    BY <2>1, SameOwns DEF ChannelOpen, ChannelClose, ChannelRequest, vars
  <2>2. CASE AwaitOpen \/ OpenFails
    BY <2>2, SameOwns DEF AwaitOpen, OpenFails
  <2>3. CASE StartCapture
    BY <2>3, SameOwns DEF StartCapture, Own
  <2>4. CASE PollNotification \/ DropFrame
    BY <2>4, SameOwns DEF PollNotification, DropFrame
  <2>5. CASE AllocateBuffer \/ DrainPlayed \/ CloseChannel \/ TakeFrame
    BY <2>5, AllocateOwns, DrainOwns, CloseOwns, TakeFrameOwns
  <2>6. CASE SendStep \/ ReceiveStep \/ PlayFrame
    BY <2>6, SendOwns, ReceiveOwns, PlayOwns
  <2>7. CASE AdcInterrupt \/ DacInterrupt
    BY <2>7, AdcOwns, DacOwns
  <2>8. QED
    BY <2>1, <2>2, <2>3, <2>4, <2>5, <2>6, <2>7 DEF Next, Thread
<1>3. QED
  BY <1>1, <1>2 DEF Own

LEMMA OwnInit == Init => Own /\ Complete(Holds, heap)
<1> SUFFICES ASSUME Init PROVE Own /\ Complete(Holds, heap)
  OBVIOUS
<1>1. Held = <<>> /\ Len(<<buf_in>>) = 1 /\ <<buf_in>>[1] = buf_in
  BY DEF Init, Held, Holding, Streaming
<1>2. \A o \in Owners : Holds[o] = IF o = "filling" THEN <<buf_in>> ELSE <<>>
  BY <1>1, HoldsNow DEF Init, Owners
<1>3. ASSUME NEW o \in Owners, NEW i \in 1..Len(Holds[o])
      PROVE  o = "filling" /\ i = 1 /\ Holds[o][i] = buf_in
  BY <1>1, <1>2
<1>4. Once(Holds, heap)
  <2>1. buf_in \notin heap
    BY DEF Init
  <2> SUFFICES ASSUME NEW o \in Owners, NEW u \in Owners,
                      NEW i \in 1..Len(Holds[o]), NEW j \in 1..Len(Holds[u])
               PROVE  Holds[o][i] \notin heap /\ o = u /\ i = j
    BY DEF Once
  <2>2. QED
    BY <1>3, <2>1
<1>5. "filling" \in Owners /\ 1 \in 1..Len(Holds["filling"])
      /\ Holds["filling"][1] = buf_in
  <2>1. "filling" \in Owners /\ Holds["filling"] = <<buf_in>>
    BY HoldsNow DEF Owners
  <2>2. QED
    BY <1>1, <2>1
<1>6. Complete(Holds, heap)
  BY <1>5 DEF Complete, Init
<1>7. QED
  BY <1>4, <1>6 DEF Own, Init

LEMMA OwnInvariant == Spec => []Own
<1>1. TypeOK /\ TypeOK' /\ Own /\ [Next]_vars => Own'
  BY OwnStep
<1>2. Init => Own
  BY OwnInit
<1>3. QED
  BY <1>1, <1>2, TypeCorrect, PTL DEF Spec

\* No buffer has two owners, whichever calls fail and whether or not the
\* converters run on over a channel that was left.
THEOREM BuffersOwnedOnce == Spec => []OwnedOnce
<1>1. Own => OwnedOnce
  BY DEF Own, Once, OwnedOnce
<1>2. QED
  BY <1>1, OwnInvariant, PTL

-----------------------------------------------------------------------------
(* Nothing is lost.  The queues the frames of a channel circulate in have    *)
(* room because the pool does (PoolInv); the one for played buffers because  *)
(* no more are played than MaxPlayed since it was drained.                  *)

PlayedInv == Len(xRxBufferQueue) <= played

LEMMA PlayedInit == Init => PlayedInv
BY DEF Init, PlayedInv

LEMMA PlayedStep ==
  ASSUME "recv" \notin Faults
  PROVE  TypeOK /\ PoolInv /\ PlayedInv /\ [Next]_vars => PlayedInv'
<1> SUFFICES ASSUME TypeOK, PoolInv, PlayedInv, [Next]_vars PROVE PlayedInv'
  OBVIOUS
<1> USE DEF PlayedInv
<1>1. /\ IsQueue(xRxBufferQueue) /\ Len(xRxBufferQueue) \in Nat
      /\ played \in 0..MaxPlayed
  BY QueueLength DEF TypeOK, QueuesOK, CountersOK
<1>2. CASE UNCHANGED <<xRxBufferQueue, played>>
  BY <1>2
<1>3. CASE DrainPlayed
  BY <1>1, <1>3, QueueReceive, EmptyQueue, Constants DEF DrainPlayed
<1>4. CASE DacInterrupt
  <2>1. Streaming
    BY <1>4 DEF DacInterrupt, PoolInv, WaitInv, AllocInv, TypeOK, ControlOK, PCs,
                Streaming
  <2>2. played' = played + 1
    BY <1>4, <2>1 DEF DacInterrupt
  <2>3. Len(xRxBufferQueue') \in {Len(xRxBufferQueue), Len(xRxBufferQueue) + 1}
    <3>1. xIncomingAudio # <<>> /\ Head(xIncomingAudio) \in Pointer
      BY <1>4, QueueReceive DEF DacInterrupt, TypeOK, QueuesOK
    <3>2. QED
      BY <1>1, <1>4, <3>1, QueueSend DEF DacInterrupt
  <2>4. QED
    BY <1>1, <2>2, <2>3, Constants
<1>5. ASSUME [Next]_vars, ~DrainPlayed, ~DacInterrupt
      PROVE  UNCHANGED <<xRxBufferQueue, played>>
  BY <1>5 DEF Next, Thread, vars, ChannelOpen, ChannelClose, ChannelRequest,
              AwaitOpen, OpenFails, AllocateBuffer, StartCapture,
              PollNotification, CloseChannel, TakeFrame, SendStep, SendFrame,
              SendAgain, SendFails, SendNothing, ReceiveStep, Receive,
              ReceiveFails, PlayFrame, DropFrame, AdcInterrupt
<1>6. QED
  BY <1>2, <1>3, <1>4, <1>5

LEMMA RoomEverywhere ==
  ASSUME "recv" \notin Faults, TypeOK, PoolInv, PlayedInv
  PROVE  Lossless
<1> USE Constants DEF Full
<1>1. /\ Len(xTxBufferQueue) \in 0..QueueLen /\ Len(xOutgoingAudio) \in 0..QueueLen
      /\ Len(xRxBufferQueue) \in 0..QueueLen /\ bytes_to_send \in Nat
      /\ (xTxBufferQueue = <<>> <=> Len(xTxBufferQueue) = 0)
  BY QueueLength DEF TypeOK, QueuesOK, CountersOK, MaxExcess
<1>2. pc = "alloc" /\ allocated < PoolSize => ~Full(xTxBufferQueue)
  BY <1>1 DEF PoolInv, AllocInv
<1>3. pc = "send" /\ bytes_to_send > 0 => ~Full(xTxBufferQueue)
  BY <1>1 DEF PoolInv, StreamInv, Streaming, InFlight
<1>4. adcOn /\ xTxBufferQueue # <<>> => ~Full(xOutgoingAudio)
  <2>1. adcOn => Streaming
    BY DEF TypeOK, ControlOK, PCs, PoolInv, WaitInv, AllocInv, HaltInv, Streaming
  <2>2. QED
    BY <1>1, <2>1 DEF PoolInv, StreamInv, InFlight
<1>5. dacOn /\ pc # "halted" /\ (Streaming => played < MaxPlayed)
        => ~Full(xRxBufferQueue)
  <2>1. dacOn /\ pc # "halted" => Streaming
    BY DEF TypeOK, ControlOK, PCs, PoolInv, WaitInv, AllocInv, Streaming
  <2>2. MaxPlayed <= QueueLen
    BY TimingAssumption
  <2>3. QED
    BY <1>1, <2>1, <2>2 DEF PlayedInv, TypeOK, CountersOK
<1>6. QED
  BY <1>2, <1>3, <1>4, <1>5 DEF Lossless

LEMMA AllKept ==
  ASSUME "recv" \notin Faults, TypeOK, TypeOK', PoolInv, PlayedInv, Own,
         Complete(Holds, heap), [Next]_vars
  PROVE  Complete(Holds, heap)'
<1>1. Lossless
  BY RoomEverywhere
<1>2. Keeps
  BY OwnStep
<1>3. QED
  BY <1>1, <1>2 DEF Keeps, Complete

\* Every buffer is on the heap or owned, over any number of channels, sends
\* that fail and frames that find no buffer.
THEOREM NoBufferIsLost ==
  ASSUME "recv" \notin Faults PROVE Spec => []NothingLost
<1>1. TypeOK /\ TypeOK' /\ PoolInv /\ PlayedInv /\ Own /\ Complete(Holds, heap)
        /\ [Next]_vars => Complete(Holds, heap)'
  BY AllKept
<1>2. TypeOK /\ Complete(Holds, heap) => NothingLost
  <2> SUFFICES ASSUME TypeOK, Complete(Holds, heap), NEW b \in Buf, b \notin heap
               PROVE  \E o \in Owners : b \in ToSet(Holds[o])
    BY DEF NothingLost
  <2>1. PICK o \in Owners : \E i \in 1..Len(Holds[o]) : Holds[o][i] = b
    BY DEF Complete
  <2>2. Holds[o] \in Seq(Pointer)
    BY HoldsType DEF Ledger
  <2>3. QED
    BY <2>1, <2>2, ElementsAre
<1>3. TypeOK /\ PoolInv /\ PlayedInv /\ [Next]_vars => PlayedInv'
  BY PlayedStep
<1>4. Init => PlayedInv /\ Complete(Holds, heap)
  BY PlayedInit, OwnInit
<1>5. QED
  BY <1>1, <1>2, <1>3, <1>4, TypeCorrect, PoolInvariant, OwnInvariant, PTL DEF Spec

-----------------------------------------------------------------------------
(* The device does not halt.  The queues have room whenever something is     *)
(* sent to them without waiting, so what is left of the calls of             *)
(* Error_Handler is the one for a heap that is empty when the pool of a      *)
(* channel is built (lines 160-162).  There the only buffers in use are the  *)
(* ones the pool has already, those played since the last drain and the one  *)
(* that is received into.                                                    *)

\* A queue has no more buffers than its length.
LEMMA QueueHoldsAtMost ==
  ASSUME NEW q \in Seq(Pointer)
  PROVE  /\ IsFiniteSet(ToSet(q)) /\ Cardinality(ToSet(q)) \in Nat
         /\ Cardinality(ToSet(q)) <= Len(q)
<1>1. Len(q) \in Nat /\ q \in [1..Len(q) -> Pointer]
  OBVIOUS
<1>2. ToSet(q) = {q[i] : i \in 1..Len(q)}
  BY <1>1 DEF ToSet
<1>3. q \in Surjection(1..Len(q), ToSet(q))
  BY <1>1, <1>2 DEF Surjection
<1>4. ExistsSurjection(1..Len(q), ToSet(q))
  BY <1>3 DEF ExistsSurjection
<1>5. IsFiniteSet(ToSet(q))
  BY <1>1, <1>4, FS_NatSurjection
<1>6. QED
  BY <1>1, <1>4, <1>5, FS_SurjCardinalityBound, FS_CardinalityType

\* While the pool is built the heap has a buffer for it.
LEMMA HeapLasts ==
  ASSUME IsFiniteSet(Buf), Cardinality(Buf) >= PoolSize + MaxPlayed + 1,
         TypeOK, PoolInv, PlayedInv, Complete(Holds, heap),
         pc = "alloc", allocated < PoolSize
  PROVE  heap # {}
<1> SUFFICES ASSUME heap = {} PROVE FALSE
  OBVIOUS
<1>1. /\ xOutgoingAudio = <<>> /\ xIncomingAudio = <<>> /\ Held = <<>>
      /\ Len(xTxBufferQueue) = allocated /\ Len(xRxBufferQueue) <= played
  BY DEF PoolInv, AllocInv, PlayedInv, Held, Holding, Streaming
<1>2. /\ xTxBufferQueue \in Seq(Pointer) /\ xRxBufferQueue \in Seq(Pointer)
      /\ Len(xRxBufferQueue) \in Nat /\ allocated \in Nat /\ played <= MaxPlayed
      /\ played \in Nat
  BY Constants DEF TypeOK, QueuesOK, CountersOK, IsQueue
<1> DEFINE T == ToSet(xTxBufferQueue)
           R == ToSet(xRxBufferQueue)
<1>3. ASSUME NEW b \in Buf PROVE b \in (T \cup R) \cup {buf_in}
  <2>1. PICK o \in Owners : \E i \in 1..Len(Holds[o]) : Holds[o][i] = b
    BY DEF Complete
  <2>2. PICK i \in 1..Len(Holds[o]) : Holds[o][i] = b
    BY <2>1
  <2>3. Holds[o] # <<>>
    BY <2>2
  <2>4. o \in {"free", "played", "filling"}
    BY <1>1, <2>3, HoldsNow DEF Owners
  <2>5. CASE o = "free"
    BY <1>2, <2>1, <2>5, ElementsAre, HoldsNow
  <2>6. CASE o = "played"
    BY <1>2, <2>1, <2>6, ElementsAre, HoldsNow
  <2>7. CASE o = "filling"
    <3>1. Len(<<buf_in>>) = 1 /\ <<buf_in>>[1] = buf_in
      OBVIOUS
    <3>2. b = buf_in
      BY <2>2, <2>7, <3>1, HoldsNow
    <3>3. QED
      BY <3>2
  <2>8. QED
    BY <2>4, <2>5, <2>6, <2>7
<1>4. /\ IsFiniteSet(T) /\ Cardinality(T) \in Nat /\ Cardinality(T) <= allocated
      /\ IsFiniteSet(R) /\ Cardinality(R) \in Nat /\ Cardinality(R) <= played
  BY <1>1, <1>2, QueueHoldsAtMost
<1> HIDE DEF T, R
<1>5. /\ IsFiniteSet(T \cup R) /\ Cardinality(T \cup R) \in Nat
      /\ Cardinality(T \cup R) <= allocated + played
  <2>1. /\ IsFiniteSet(T \cup R)
        /\ Cardinality(T \cup R) = Cardinality(T) + Cardinality(R) - Cardinality(T \cap R)
    BY <1>4, FS_Union
  <2>2. IsFiniteSet(T \cap R)
    BY <1>4, FS_Intersection
  <2>3. Cardinality(T \cup R) \in Nat /\ Cardinality(T \cap R) \in Nat
    BY <2>1, <2>2, FS_CardinalityType
  <2>4. QED
    BY <1>2, <1>4, <2>1, <2>3
<1>6. /\ IsFiniteSet((T \cup R) \cup {buf_in})
      /\ Cardinality((T \cup R) \cup {buf_in}) <= allocated + played + 1
      /\ Cardinality((T \cup R) \cup {buf_in}) \in Nat
  <2>1. /\ IsFiniteSet((T \cup R) \cup {buf_in})
        /\ Cardinality((T \cup R) \cup {buf_in}) =
             IF buf_in \in T \cup R THEN Cardinality(T \cup R)
                                   ELSE Cardinality(T \cup R) + 1
    BY <1>5, FS_AddElement
  <2>2. QED
    BY <1>2, <1>5, <2>1
<1>7. Buf \in SUBSET ((T \cup R) \cup {buf_in})
  BY <1>3
<1>8. Cardinality(Buf) <= Cardinality((T \cup R) \cup {buf_in})
  BY <1>6, <1>7, FS_Subset
<1>9. Cardinality(Buf) \in Nat
  BY FS_CardinalityType
<1>10. QED
  BY <1>2, <1>6, <1>8, <1>9, Constants

LEMMA HaltStep ==
  ASSUME "recv" \notin Faults, "socket" \notin Faults,
         IsFiniteSet(Buf), Cardinality(Buf) >= PoolSize + MaxPlayed + 1,
         TypeOK, PoolInv, PlayedInv, Complete(Holds, heap),
         NeverHalted, [Next]_vars
  PROVE  NeverHalted'
<1> USE DEF NeverHalted
<1>1. Lossless
  BY RoomEverywhere
<1>2. CASE AwaitOpen
  BY <1>2 DEF AwaitOpen
<1>3. CASE AllocateBuffer
  BY <1>3, HeapLasts DEF AllocateBuffer
<1>4. CASE SendFrame
  BY <1>1, <1>4 DEF SendFrame, Lossless
<1>5. CASE AdcInterrupt
  BY <1>1, <1>5 DEF AdcInterrupt, Lossless
<1>6. ASSUME ~AwaitOpen, ~AllocateBuffer, ~SendFrame, ~AdcInterrupt PROVE NeverHalted'
  BY <1>6 DEF Next, Thread, vars, ChannelOpen, ChannelClose, ChannelRequest,
              OpenFails, StartCapture, DrainPlayed,
              PollNotification, CloseChannel, TakeFrame, SendStep,
              SendAgain, SendFails, SendNothing, ReceiveStep, Receive,
              ReceiveFails, PlayFrame, DropFrame, DacInterrupt
<1>7. QED
  BY <1>2, <1>3, <1>4, <1>5, <1>6

\* As long as sockets can be made and recvfrom does not fail for good, a heap of
\* PoolSize + MaxPlayed + 1 buffers is enough: no call of Error_Handler is reached
\* (lines 128, 149, 161, 238, 379 and 411), over any number of channels.
THEOREM ThreadNeverHalts ==
  ASSUME "recv" \notin Faults, "socket" \notin Faults,
         IsFiniteSet(Buf), Cardinality(Buf) >= PoolSize + MaxPlayed + 1
  PROVE  Spec => []NeverHalted
<1>1. TypeOK /\ TypeOK' /\ PoolInv /\ PlayedInv /\ Own /\ Complete(Holds, heap)
        /\ [Next]_vars => Complete(Holds, heap)'
  BY AllKept
<1>2. TypeOK /\ PoolInv /\ PlayedInv /\ Complete(Holds, heap) /\ NeverHalted
        /\ [Next]_vars => NeverHalted'
  BY HaltStep
<1>3. TypeOK /\ PoolInv /\ PlayedInv /\ [Next]_vars => PlayedInv'
  BY PlayedStep
<1>4. Init => PlayedInv /\ Complete(Holds, heap) /\ NeverHalted
  BY PlayedInit, OwnInit DEF Init, NeverHalted
<1>5. QED
  BY <1>1, <1>2, <1>3, <1>4, TypeCorrect, PoolInvariant, OwnInvariant, PTL DEF Spec
=============================================================================
