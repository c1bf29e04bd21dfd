---------------------------- MODULE ReplayProofs ----------------------------
(***************************************************************************)
(* Proofs about the replay databases and about ReplayReceiver: for every   *)
(* size of the sequence number space and every window, no index is         *)
(* accepted twice and a timely packet is never refused.                    *)
(***************************************************************************)
EXTENDS SrtpPacketInvariant, TLAPS

(* The quotient and the remainder that the code takes with shifts and      *)
(* masks.                                                                  *)
LEMMA SplitIndex ==
    ASSUME NEW i \in Nat
    PROVE  /\ RocOf(i) \in Nat /\ SeqOf(i) \in 0..(SEQ_MAX - 1)
           /\ i = RocOf(i) * SEQ_MAX + SeqOf(i)
BY ReplayAssumption DEF RocOf, SeqOf

(* An index below the sequence number space is its own sequence number.    *)
LEMMA SmallIndex ==
    ASSUME NEW i \in Nat, i < SEQ_MAX
    PROVE  SeqOf(i) = i
BY ReplayAssumption DEF SeqOf

(* Indices in order have their rollover counters in order.                 *)
LEMMA RocMonotone ==
    ASSUME NEW i \in Nat, NEW j \in Nat, i <= j
    PROVE  RocOf(i) <= RocOf(j)
<1> DEFINE a == RocOf(i)
           b == RocOf(j)
<1>1. /\ a \in Nat /\ b \in Nat
      /\ i = a * SEQ_MAX + SeqOf(i) /\ SeqOf(i) \in 0..(SEQ_MAX - 1)
      /\ j = b * SEQ_MAX + SeqOf(j) /\ SeqOf(j) \in 0..(SEQ_MAX - 1)
  BY Zenon, SplitIndex
<1>2. SUFFICES ASSUME a >= b + 1 PROVE FALSE
  BY <1>1
<1>3. a * SEQ_MAX >= (b + 1) * SEQ_MAX
  BY <1>1, <1>2, ReplayAssumption
<1>4. (b + 1) * SEQ_MAX = b * SEQ_MAX + SEQ_MAX
  BY <1>1, ReplayAssumption
<1>5. a * SEQ_MAX \in Nat /\ b * SEQ_MAX \in Nat
  BY <1>1, ReplayAssumption
<1> QED
  BY <1>1, <1>3, <1>4, <1>5, ReplayAssumption

(* Up to LastRtpIndex the counter is below ROC_MAX, also after the next    *)
(* wrap of the sequence number.                                            *)
LEMMA RocIsBelow ==
    ASSUME NEW i \in Nat, i <= LastRtpIndex
    PROVE  /\ RocOf(i) < ROC_MAX
           /\ ~ (SeqOf(i) < seq_num_median) => RocOf(i) + 1 < ROC_MAX
<1> DEFINE a == RocOf(i)
           t == SeqOf(i)
           M == SEQ_MAX
           h == seq_num_median
<1>1. a \in Nat /\ t \in 0..(M - 1) /\ i = a * M + t
  BY Zenon, SplitIndex
<1>2. /\ M \in Nat /\ M >= 4 /\ M = 2 * h /\ h \in Nat /\ ROC_MAX \in Nat
      /\ i <= ROC_MAX * M - h - 1
  BY ReplayAssumption DEF seq_num_median, LastRtpIndex
<1> HIDE DEF a, t, M, h
<1>3. /\ a * M \in Nat /\ ROC_MAX * M \in Nat /\ (a + 1) * M = a * M + M
      /\ a >= ROC_MAX => a * M >= ROC_MAX * M
      /\ a + 1 >= ROC_MAX => (a + 1) * M >= ROC_MAX * M
  BY <1>1, <1>2
<1>4. a < ROC_MAX /\ (~ (t < h) => a + 1 < ROC_MAX)
  BY <1>1, <1>2, <1>3
<1> QED
  BY Zenon, <1>4 DEF a, t, h

LEMMA Remainder ==
    ASSUME NEW a \in Nat, NEW n \in Nat, a < n
    PROVE  a % n = a
BY SMT

(* srtp_index_guess without the width of the counter,                      *)
UnboundedGuess(local, s) ==
    LET roc == RocOf(local)
        seq == SeqOf(local)
    IN IF seq < seq_num_median
       THEN IF s - seq > seq_num_median
            THEN [est |-> (roc - 1) * SEQ_MAX + s, delta |-> s - seq - SEQ_MAX]
            ELSE [est |-> roc * SEQ_MAX + s, delta |-> s - seq]
       ELSE IF seq - seq_num_median > s
            THEN [est |-> (roc + 1) * SEQ_MAX + s, delta |-> s - seq + SEQ_MAX]
            ELSE [est |-> roc * SEQ_MAX + s, delta |-> s - seq]

(* which makes no difference up to LastRtpIndex.                           *)
LEMMA GuessIsUnbounded ==
    ASSUME NEW i \in Nat, i <= LastRtpIndex, i > seq_num_median, NEW s \in 0..(SEQ_MAX - 1)
    PROVE  srtp_index_guess(i, s) = UnboundedGuess(i, s)
<1> DEFINE a == RocOf(i)
           t == SeqOf(i)
           h == seq_num_median
<1>1. a \in Nat /\ t \in 0..(SEQ_MAX - 1) /\ i = a * SEQ_MAX + t
  BY Zenon, SplitIndex
<1>2. a < ROC_MAX /\ (~ (t < h) => a + 1 < ROC_MAX)
  BY Zenon, RocIsBelow
<1>3. SEQ_MAX \in Nat /\ h \in Nat /\ ROC_MAX \in Nat /\ i > h
  BY ReplayAssumption DEF seq_num_median
<1>4. srtp_index_guess(i, s) =
        LET carry == IF t < h THEN IF s - t > h THEN -1 ELSE 0
                     ELSE IF t - h > s THEN 1 ELSE 0
        IN [est |-> ((a + carry) % ROC_MAX) * SEQ_MAX + s, delta |-> s - t + carry * SEQ_MAX]
  BY Zenon DEF srtp_index_guess
<1>5. UnboundedGuess(i, s) =
        IF t < h
        THEN IF s - t > h
             THEN [est |-> (a - 1) * SEQ_MAX + s, delta |-> s - t - SEQ_MAX]
             ELSE [est |-> a * SEQ_MAX + s, delta |-> s - t]
        ELSE IF t - h > s
             THEN [est |-> (a + 1) * SEQ_MAX + s, delta |-> s - t + SEQ_MAX]
             ELSE [est |-> a * SEQ_MAX + s, delta |-> s - t]
  BY Zenon DEF UnboundedGuess
<1> HIDE DEF a, t, h
<1>6. a = 0 => ~ (t < h)
  BY <1>1, <1>3
<1>7. a % ROC_MAX = a /\ (a + 0) % ROC_MAX = a
  BY <1>1, <1>2, <1>3, Remainder
<1>8. t < h => (a + (-1)) % ROC_MAX = a - 1
  BY <1>1, <1>2, <1>3, <1>6, Remainder
<1>9. ~ (t < h) => (a + 1) % ROC_MAX = a + 1
  BY <1>1, <1>2, <1>3, Remainder
<1>10. /\ s - t + (-1) * SEQ_MAX = s - t - SEQ_MAX
       /\ s - t + 0 * SEQ_MAX = s - t
       /\ s - t + 1 * SEQ_MAX = s - t + SEQ_MAX
  BY <1>1, <1>3
<1>11. CASE t < h /\ s - t > h
  BY Zenon, <1>4, <1>5, <1>8, <1>10, <1>11
<1>12. CASE t < h /\ ~ (s - t > h)
  BY Zenon, <1>4, <1>5, <1>7, <1>10, <1>12
<1>13. CASE ~ (t < h) /\ t - h > s
  BY Zenon, <1>4, <1>5, <1>9, <1>10, <1>13
<1>14. CASE ~ (t < h) /\ ~ (t - h > s)
  BY Zenon, <1>4, <1>5, <1>7, <1>10, <1>14
<1> QED
  BY Zenon, <1>11, <1>12, <1>13, <1>14

(* srtp_rdbx_estimate_index: the distance it returns is the distance of    *)
(* the index it guesses.                                                   *)
LEMMA EstimateDelta ==
    ASSUME NEW r, r.index \in Nat, r.index <= LastRtpIndex, NEW s \in 0..(SEQ_MAX - 1)
    PROVE  LET e == srtp_rdbx_estimate_index(r, s)
           IN e.delta \in Int /\ e.est = r.index + e.delta
<1> DEFINE roc == RocOf(r.index)
           seq == SeqOf(r.index)
           p == roc * SEQ_MAX
<1>0. roc \in Nat /\ seq \in 0..(SEQ_MAX - 1) /\ r.index = p + seq
  BY Zenon, SplitIndex
<1>1. roc \in Nat /\ seq \in 0..(SEQ_MAX - 1) /\ r.index = p + seq /\ p \in Nat
  BY <1>0, ReplayAssumption
<1>2. (roc - 1) * SEQ_MAX = p - SEQ_MAX /\ (roc + 1) * SEQ_MAX = p + SEQ_MAX
  BY <1>1, ReplayAssumption
<1>3. CASE r.index > seq_num_median
  <2>1. srtp_rdbx_estimate_index(r, s) = UnboundedGuess(r.index, s)
    BY Zenon, <1>3, GuessIsUnbounded DEF srtp_rdbx_estimate_index
  <2>2. UnboundedGuess(r.index, s) \in
          {[est |-> p - SEQ_MAX + s, delta |-> s - seq - SEQ_MAX],
           [est |-> p + s, delta |-> s - seq],
           [est |-> p + SEQ_MAX + s, delta |-> s - seq + SEQ_MAX]}
    BY Zenon, <1>2 DEF UnboundedGuess
  <2> HIDE DEF p, seq
  <2> QED
    BY <2>1, <2>2, <1>1, ReplayAssumption
<1>4. CASE ~ (r.index > seq_num_median)
  <2>1. seq = r.index
    BY <1>4, SmallIndex, ReplayAssumption DEF seq_num_median
  <2>2. QED
    BY <1>4, <2>1 DEF srtp_rdbx_estimate_index
<1> QED
  BY Zenon, <1>3, <1>4

(* srtp_rdbx_check and srtp_rdbx_add_index: an index that passes the check *)
(* was not accepted before, and entering it keeps the window's memory      *)
(* exact.                                                                  *)
LEMMA AddRemembers ==
    ASSUME NEW r \in [index : Nat, bits : SUBSET (0..(WINDOW - 1))],
           NEW acc \in SUBSET Nat, RtpRemembers(r, acc),
           NEW d \in Int, r.index + d \in Nat, srtp_rdbx_check(r, d) = "ok"
    PROVE  /\ r.index + d \notin acc
           /\ srtp_rdbx_add_index(r, d) \in [index : Nat, bits : SUBSET (0..(WINDOW - 1))]
           /\ RtpRemembers(srtp_rdbx_add_index(r, d), acc \cup {r.index + d})
<1> DEFINE W == WINDOW - 1
           i == r.index + d
           q == srtp_rdbx_add_index(r, d)
<1>0. WINDOW \in Nat /\ WINDOW >= 1 /\ W \in Nat /\ r.index \in Nat /\ i \in Nat
  BY ReplayAssumption
<1>1. CASE d > 0
  <2>1. q = [index |-> i, bits |-> LeftShift(r.bits, d) \cup {W}]
    BY Zenon, <1>1 DEF srtp_rdbx_add_index
  <2>2. i \notin acc
    BY <1>0, <1>1 DEF RtpRemembers
  <2>3. \A b \in 0..W : b \in LeftShift(r.bits, d) <=> b + d \in r.bits
    BY <1>0, <1>1 DEF LeftShift
  <2>4. LeftShift(r.bits, d) \subseteq 0..W
    BY <1>0, <1>1 DEF LeftShift
  <2>5. q \in [index : Nat, bits : SUBSET (0..W)]
    BY <2>1, <2>4, <1>0
  <2>6. \A k \in acc \cup {i} : k <= q.index
    BY <2>1, <1>0, <1>1 DEF RtpRemembers
  <2>7. ASSUME NEW b \in 0..W
        PROVE  b \in q.bits <=> q.index - W + b \in acc \cup {i}
    <3>1. CASE b = W
      BY <3>1, <2>1, <1>0
    <3>2. CASE b # W /\ b + d <= W
      <4>1. b \in q.bits <=> b + d \in r.bits
        BY <3>2, <2>1, <2>3
      <4>2. b + d \in 0..W
        BY <3>2, <1>0, <1>1
      <4>3. b + d \in r.bits <=> r.index - W + (b + d) \in acc
        BY Zenon, <4>2 DEF RtpRemembers
      <4>4. q.index - W + b = r.index - W + (b + d) /\ q.index - W + b # i
        BY <2>1, <3>2, <1>0
      <4> QED
        BY Zenon, <4>1, <4>3, <4>4
    <3>3. CASE b # W /\ b + d > W
      <4>1. b \notin q.bits
        BY <3>3, <2>1, <2>3, <1>0
      <4>2. q.index - W + b > r.index /\ q.index - W + b # i
        BY <2>1, <3>3, <1>0
      <4>3. q.index - W + b \notin acc
        BY <4>2, <1>0, <2>1 DEF RtpRemembers
      <4> QED
        BY Zenon, <4>1, <4>2, <4>3
    <3> QED
      BY <3>1, <3>2, <3>3, <1>0
  <2> QED
    BY Zenon, <2>2, <2>5, <2>6, <2>7 DEF RtpRemembers
<1>2. CASE ~ (d > 0)
  <2>1. q = [index |-> r.index, bits |-> r.bits \cup {W + d}]
    BY Zenon, <1>2 DEF srtp_rdbx_add_index
  <2>2. W + d >= 0 /\ W + d \notin r.bits
    BY <1>2, <1>0 DEF srtp_rdbx_check
  <2>3. W + d \in 0..W
    BY <2>2, <1>2, <1>0
  <2>4. r.index - W + (W + d) = i
    BY <1>0
  <2>5. i \notin acc
    BY Zenon, <2>2, <2>3, <2>4 DEF RtpRemembers
  <2>6. q \in [index : Nat, bits : SUBSET (0..W)]
    BY <2>1, <2>3, <1>0
  <2>7. \A k \in acc \cup {i} : k <= q.index
    BY <2>1, <1>0, <1>2 DEF RtpRemembers
  <2>8. ASSUME NEW b \in 0..W
        PROVE  b \in q.bits <=> q.index - W + b \in acc \cup {i}
    <3>1. b \in r.bits <=> r.index - W + b \in acc
      BY Zenon DEF RtpRemembers
    <3>2. r.index - W + b = i <=> b = W + d
      BY <1>0
    <3> QED
      BY <3>1, <3>2, <2>1
  <2> QED
    BY Zenon, <2>5, <2>6, <2>7, <2>8 DEF RtpRemembers
<1> QED
  BY Zenon, <1>1, <1>2

(* srtp_rdbx_set_roc_seq followed by srtp_rdbx_add_index(0), for an index  *)
(* more than half the sequence number space ahead: the window is emptied   *)
(* and moved there.                                                        *)
LEMMA AdvanceMoves ==
    ASSUME NEW r \in [index : Nat, bits : SUBSET (0..(WINDOW - 1))],
           NEW i \in Nat, i - r.index > seq_num_median
    PROVE  srtp_rdbx_add_index(srtp_rdbx_set_roc_seq(r, RocOf(i), SeqOf(i)), 0)
             = [index |-> i, bits |-> {WINDOW - 1}]
<1> DEFINE e == [index |-> i, bits |-> {}]
<1>0. WINDOW \in Nat /\ seq_num_median \in Nat /\ r.index \in Nat /\ r.index <= i
  BY ReplayAssumption DEF seq_num_median
<1>1. RocOf(r.index) <= RocOf(i) /\ RocOf(r.index) \in Nat /\ RocOf(i) \in Nat
      /\ i = RocOf(i) * SEQ_MAX + SeqOf(i)
  BY Zenon, <1>0, RocMonotone, SplitIndex
<1>2. srtp_rdbx_set_roc_seq(r, RocOf(i), SeqOf(i)) = e
  <2>1. ~ (RocOf(i) < RocOf(r.index))
    BY <1>1
  <2>2. srtp_rdbx_set_roc_seq(r, RocOf(i), SeqOf(i)) = [index |-> RocOf(i) * SEQ_MAX + SeqOf(i), bits |-> {}]
    BY Zenon, <2>1 DEF srtp_rdbx_set_roc_seq
  <2> QED
    BY Zenon, <1>1, <2>2
<1>3. srtp_rdbx_add_index(e, 0) = [e EXCEPT !.bits = e.bits \cup {WINDOW - 1 + 0}]
  BY DEF srtp_rdbx_add_index
<1>4. WINDOW - 1 + 0 = WINDOW - 1
  BY <1>0
<1> QED
  BY Zenon, <1>2, <1>3, <1>4

(* srtp_rdbx_set_roc_seq followed by srtp_rdbx_add_index(0), for an index  *)
(* more than half the sequence number space ahead: nothing accepted before *)
(* is inside the new window, so the emptied bitmask forgets nothing.       *)
LEMMA AdvanceRemembers ==
    ASSUME NEW r \in [index : Nat, bits : SUBSET (0..(WINDOW - 1))],
           NEW acc \in SUBSET Nat, RtpRemembers(r, acc),
           NEW i \in Nat, i - r.index > seq_num_median
    PROVE  LET q == srtp_rdbx_add_index(srtp_rdbx_set_roc_seq(r, RocOf(i), SeqOf(i)), 0)
           IN /\ i \notin acc
              /\ q \in [index : Nat, bits : SUBSET (0..(WINDOW - 1))]
              /\ RtpRemembers(q, acc \cup {i})
<1> DEFINE W == WINDOW - 1
           q == srtp_rdbx_add_index(srtp_rdbx_set_roc_seq(r, RocOf(i), SeqOf(i)), 0)
<1>0. WINDOW \in Nat /\ WINDOW >= 1 /\ W \in Nat /\ r.index \in Nat /\ W < i - r.index /\ i > r.index
  BY ReplayAssumption DEF seq_num_median
<1>2. q = [index |-> i, bits |-> {W}]
  BY Zenon, AdvanceMoves
<1>3. i \notin acc
  BY <1>0 DEF RtpRemembers
<1>4. q \in [index : Nat, bits : SUBSET (0..W)]
  BY <1>2, <1>0
<1>5. \A k \in acc \cup {i} : k <= q.index
  BY <1>2, <1>0 DEF RtpRemembers
<1>6. ASSUME NEW b \in 0..W
      PROVE  b \in q.bits <=> q.index - W + b \in acc \cup {i}
  <2>1. q.index - W + b > r.index
    BY <1>0, <1>2
  <2>2. q.index - W + b \notin acc
    BY <2>1, <1>0, <1>2 DEF RtpRemembers
  <2>3. q.index - W + b = i <=> b = W
    BY <1>2, <1>0
  <2> QED
    BY <2>2, <2>3, <1>2
<1> QED
  BY Zenon, <1>3, <1>4, <1>5, <1>6 DEF RtpRemembers

(* srtp_rdb_check and srtp_rdb_add_index, the same for SRTCP.              *)
LEMMA RtcpAddRemembers ==
    ASSUME NEW r \in [window_start : Nat, bits : SUBSET (0..(RDB_BITS - 1))],
           NEW acc \in SUBSET Nat, RtcpRemembers(r, acc),
           NEW i \in Nat, srtp_rdb_check(r, i) = "ok"
    PROVE  /\ i \notin acc
           /\ srtp_rdb_add_index(r, i) \in [window_start : Nat, bits : SUBSET (0..(RDB_BITS - 1))]
           /\ RtcpRemembers(srtp_rdb_add_index(r, i), acc \cup {i})
<1> DEFINE W == RDB_BITS - 1
           ws == r.window_start
           d == i - ws
           h == d - W
           q == srtp_rdb_add_index(r, i)
<1>0. W \in Nat /\ RDB_BITS = W + 1 /\ ws \in Nat
  BY ReplayAssumption
<1>1. CASE d < RDB_BITS
  <2>1. d >= 0 /\ d \notin r.bits /\ d \in 0..W
    BY <1>0, <1>1 DEF srtp_rdb_check
  <2>2. q = [window_start |-> ws, bits |-> r.bits \cup {d}]
    BY <2>1, <1>0, <1>1 DEF srtp_rdb_add_index
  <2>3. i \notin acc
    BY <2>1, <1>0 DEF RtcpRemembers
  <2>4. q \in [window_start : Nat, bits : SUBSET (0..W)]
    BY <2>1, <2>2, <1>0
  <2>5. \A k \in acc \cup {i} : k < q.window_start + RDB_BITS
    BY <2>2, <1>0, <1>1 DEF RtcpRemembers
  <2>6. ASSUME NEW b \in 0..W
        PROVE  b \in q.bits <=> q.window_start + b \in acc \cup {i}
    <3>1. b \in r.bits <=> ws + b \in acc
      BY Zenon DEF RtcpRemembers
    <3>2. ws + b = i <=> b = d
      BY <1>0
    <3> QED
      BY <3>1, <3>2, <2>2
  <2> QED
    BY Zenon, <2>3, <2>4, <2>5, <2>6 DEF RtcpRemembers
<1>2. CASE ~ (d < RDB_BITS)
  <2>1. q = [window_start |-> ws + h, bits |-> LeftShift(r.bits, h) \cup {W}] /\ h >= 1
    BY <1>2, <1>0 DEF srtp_rdb_add_index
  <2>2. i \notin acc /\ i = ws + h + W
    BY <1>2, <1>0 DEF RtcpRemembers
  <2>3. \A b \in 0..W : b \in LeftShift(r.bits, h) <=> b + h \in r.bits
    BY <1>0, <2>1 DEF LeftShift
  <2>4. LeftShift(r.bits, h) \subseteq 0..W
    BY <1>0, <2>1 DEF LeftShift
  <2>5. q \in [window_start : Nat, bits : SUBSET (0..W)]
    BY <2>1, <2>4, <1>0
  <2>6. \A k \in acc \cup {i} : k < q.window_start + RDB_BITS
    BY <2>1, <2>2, <1>0 DEF RtcpRemembers
  <2>7. ASSUME NEW b \in 0..W
        PROVE  b \in q.bits <=> q.window_start + b \in acc \cup {i}
    <3>1. CASE b = W
      BY <3>1, <2>1, <2>2, <1>0
    <3>2. CASE b # W /\ b + h <= W
      <4>1. b \in q.bits <=> b + h \in r.bits
        BY <3>2, <2>1, <2>3
      <4>2. b + h \in 0..W
        BY <3>2, <1>0, <2>1
      <4>3. b + h \in r.bits <=> ws + (b + h) \in acc
        BY Zenon, <4>2 DEF RtcpRemembers
      <4>4. q.window_start + b = ws + (b + h) /\ q.window_start + b # i
        BY <2>1, <2>2, <3>2, <1>0
      <4> QED
        BY Zenon, <4>1, <4>3, <4>4
    <3>3. CASE b # W /\ b + h > W
      <4>1. b \notin q.bits
        BY <3>3, <2>1, <2>3, <1>0
      <4>2. q.window_start + b >= ws + RDB_BITS /\ q.window_start + b # i
        BY <2>1, <2>2, <3>3, <1>0
      <4>3. q.window_start + b \notin acc
        BY <4>2, <1>0, <2>1 DEF RtcpRemembers
      <4> QED
        BY Zenon, <4>1, <4>2, <4>3
    <3> QED
      BY <3>1, <3>2, <3>3, <1>0, <2>1
  <2> QED
    BY Zenon, <2>2, <2>5, <2>6, <2>7 DEF RtcpRemembers
<1> QED
  BY Zenon, <1>1, <1>2

LEMMA Distribute ==
    ASSUME NEW x \in Int, NEW y \in Int
    PROVE  /\ x * y \in Int
           /\ (x + 1) * y = x * y + y
           /\ (x - 1) * y = x * y - y
           /\ (x + 2) * y = x * y + y + y
BY SMT

(* srtp_rdbx_estimate_index: an index less than half the sequence number   *)
(* space from the newest one is found again from its sequence number.      *)
LEMMA EstimateIsExact ==
    ASSUME NEW r, r.index \in Nat, r.index <= LastRtpIndex, NEW i \in Nat,
           i - r.index < seq_num_median, r.index - i < seq_num_median
    PROVE  srtp_rdbx_estimate_index(r, SeqOf(i)).est = i
<1> DEFINE a == RocOf(r.index)
           s == SeqOf(r.index)
           b == RocOf(i)
           t == SeqOf(i)
           M == SEQ_MAX
<1>1. /\ a \in Nat /\ s \in 0..(M - 1) /\ r.index = a * M + s
      /\ b \in Nat /\ t \in 0..(M - 1) /\ i = b * M + t
  BY Zenon, SplitIndex
<1>2. M \in Nat /\ M >= 4 /\ M = 2 * seq_num_median /\ seq_num_median \in Nat
  BY ReplayAssumption DEF seq_num_median
<1>3. CASE ~ (r.index > seq_num_median)
  <2>1. i < M
    BY <1>2, <1>3
  <2>2. t = i
    BY Zenon, <2>1, SmallIndex
  <2> QED
    BY Zenon, <1>3, <2>2 DEF srtp_rdbx_estimate_index
<1>4. CASE r.index > seq_num_median
  <2>0. srtp_rdbx_estimate_index(r, t) = UnboundedGuess(r.index, t)
    BY Zenon, <1>1, <1>4, GuessIsUnbounded DEF srtp_rdbx_estimate_index
  <2>1. /\ a * M \in Int /\ b * M \in Int
        /\ (a + 1) * M = a * M + M /\ (a - 1) * M = a * M - M
        /\ (a + 2) * M = a * M + M + M /\ (b + 2) * M = b * M + M + M
    <3>1. a \in Int /\ b \in Int /\ M \in Int
      BY <1>1, <1>2
    <3> HIDE DEF a, b, M
    <3> QED
      BY Zenon, <3>1, Distribute
  <2>2. b <= a + 1
    <3>1. SUFFICES ASSUME b >= a + 2 PROVE FALSE
      BY <1>1
    <3>2. b * M >= (a + 2) * M
      BY <3>1, <1>1, <1>2
    <3> QED
      BY <3>2, <2>1, <1>1, <1>2
  <2>3. b >= a - 1
    <3>1. SUFFICES ASSUME b + 2 <= a PROVE FALSE
      BY <1>1
    <3>2. (b + 2) * M <= a * M
      BY <3>1, <1>1, <1>2
    <3> QED
      BY <3>2, <2>1, <1>1, <1>2
  <2>4. CASE b = a
    <3>1. i - r.index = t - s
      BY <2>4, <1>1, <2>1
    <3>2. ~ (t - s > seq_num_median) /\ ~ (s - seq_num_median > t)
      BY <3>1, <1>1, <1>2
    <3> QED
      BY <3>2, <2>0, <2>4, <1>1 DEF UnboundedGuess
  <2>5. CASE b = a + 1
    <3>0. b * M = a * M + M
      BY Zenon, <2>5, <2>1
    <3>1. i - r.index = t - s + M
      BY <3>0, <1>1, <2>1, <1>2
    <3>2. ~ (s < seq_num_median) /\ s - seq_num_median > t
      BY <3>1, <1>1, <1>2
    <3> QED
      BY <3>2, <2>0, <2>5, <1>1 DEF UnboundedGuess
  <2>6. CASE b = a - 1
    <3>0. b * M = a * M - M
      BY Zenon, <2>6, <2>1
    <3>1. i - r.index = t - s - M
      BY SMTT(30), <3>0, <1>1, <2>1, <1>2
    <3>2. s < seq_num_median /\ t - s > seq_num_median
      BY <3>1, <1>1, <1>2
    <3> QED
      BY <3>2, <2>0, <2>6, <1>1 DEF UnboundedGuess
  <2> QED
    BY <2>2, <2>3, <2>4, <2>5, <2>6, <1>1
<1> QED
  BY Zenon, <1>3, <1>4

----------------------------------------------------------------------------
(* The inductive invariant of the receiver.                                *)
IInv == ReplayTypeOK /\ NoReplay /\ WindowsRemember

LEMMA InitIInv == ReplayInit => IInv
<1> SUFFICES ASSUME ReplayInit PROVE IInv
  BY Zenon
<1>1. WINDOW \in Nat /\ RDB_BITS \in Nat
  BY ReplayAssumption
<1>2. 0 <= LastRtpIndex
  <2>1. ROC_MAX \in Nat /\ ROC_MAX >= 1 /\ SEQ_MAX \in Nat /\ SEQ_MAX >= 4
    BY ReplayAssumption
  <2>2. ROC_MAX * SEQ_MAX >= 1 * SEQ_MAX
    BY <2>1
  <2> QED
    BY <2>1, <2>2 DEF LastRtpIndex, seq_num_median
<1> QED
  BY Zenon, <1>1, <1>2 DEF ReplayInit, IInv, ReplayTypeOK, NoReplay, WindowsRemember, RtpRemembers, RtcpRemembers,
              srtp_rdbx_init, srtp_rdb_init

LEMMA StepIInv == IInv /\ [ReplayNext]_replayVars => IInv'
<1> SUFFICES ASSUME IInv, [ReplayNext]_replayVars PROVE IInv'
  BY Zenon
<1>0. /\ ReplayTypeOK /\ ~ twice /\ RtpRemembers(rdbx, accepted) /\ RtcpRemembers(rdb, caccepted)
      /\ rdbx \in [index : Nat, bits : SUBSET (0..(WINDOW - 1))] /\ accepted \in SUBSET Nat
      /\ rdb \in [window_start : Nat, bits : SUBSET (0..(RDB_BITS - 1))] /\ caccepted \in SUBSET Nat
      /\ rdbx.index <= LastRtpIndex /\ RtcpIndices \subseteq Nat
  BY Zenon, IndicesAssumption DEF IInv, ReplayTypeOK, NoReplay, WindowsRemember
<1>00. \A i \in Indices : i \in Nat /\ i <= LastRtpIndex
  BY IndicesAssumption, ReplayAssumption DEF LastRtpIndex, seq_num_median
<1>1. ASSUME NEW i \in Indices, ReceiveRtp(i) PROVE IInv'
  <2> DEFINE e == srtp_rdbx_estimate_index(rdbx, SeqOf(i))
  <2>1. i \in Nat /\ SeqOf(i) \in 0..(SEQ_MAX - 1) /\ rdbx.index \in Nat
    BY Zenon, <1>0, <1>00, SplitIndex
  <2>2. e.delta \in Int /\ e.est = rdbx.index + e.delta
    BY Zenon, <1>0, <2>1, EstimateDelta
  <2>3. rdbx.index + e.delta = i /\ srtp_rdbx_check(rdbx, e.delta) = "ok"
    BY Zenon, <1>1, <2>2 DEF ReceiveRtp
  <2> HIDE DEF e
  <2>4. /\ i \notin accepted
        /\ srtp_rdbx_add_index(rdbx, e.delta) \in [index : Nat, bits : SUBSET (0..(WINDOW - 1))]
        /\ RtpRemembers(srtp_rdbx_add_index(rdbx, e.delta), accepted \cup {i})
    BY Zenon, <1>0, <2>1, <2>2, <2>3, AddRemembers
  <2>5. /\ rdbx' = srtp_rdbx_add_index(rdbx, e.delta) /\ accepted' = accepted \cup {i}
        /\ twice' = (twice \/ i \in accepted) /\ rdb' = rdb /\ caccepted' = caccepted
    BY Zenon, <1>1 DEF ReceiveRtp, e
  <2>6. twice' = FALSE
    BY Zenon, <2>4, <2>5, <1>0
  <2>7. rdbx'.index <= LastRtpIndex
    <3>1. srtp_rdbx_add_index(rdbx, e.delta).index \in {rdbx.index, rdbx.index + e.delta}
      BY Zenon, <1>0 DEF srtp_rdbx_add_index
    <3> QED
      BY Zenon, <1>0, <1>00, <2>3, <2>5, <3>1
  <2> QED
    BY Zenon, <1>0, <2>1, <2>4, <2>5, <2>6, <2>7 DEF IInv, ReplayTypeOK, NoReplay, WindowsRemember, RtcpRemembers, RtpRemembers
<1>2. ASSUME NEW i \in Indices, ReceiveRtpPending(i) PROVE IInv'
  <2> DEFINE e == srtp_estimate_index(rdbx, RocOf(i), SeqOf(i))
  <2>1. i \in Nat /\ rdbx.index \in Nat /\ RocOf(i) * SEQ_MAX + SeqOf(i) = i
    BY Zenon, <1>0, <1>00, SplitIndex
  <2>2. /\ accepted' = accepted \cup {i} /\ twice' = (twice \/ i \in accepted)
        /\ rdb' = rdb /\ caccepted' = caccepted
    BY Zenon, <1>2 DEF ReceiveRtpPending
  <2>3. /\ i \notin accepted
        /\ rdbx' \in [index : Nat, bits : SUBSET (0..(WINDOW - 1))]
        /\ rdbx'.index <= LastRtpIndex
        /\ RtpRemembers(rdbx', accepted \cup {i})
    <3>1. CASE e.status = "pkt_idx_adv"
      <4>1. i - rdbx.index > seq_num_median
        BY Zenon, <3>1, <2>1 DEF srtp_estimate_index
      <4>2. rdbx' = srtp_rdbx_add_index(srtp_rdbx_set_roc_seq(rdbx, RocOf(i), SeqOf(i)), 0)
        BY Zenon, <3>1, <1>2 DEF ReceiveRtpPending
      <4>3. rdbx' = [index |-> i, bits |-> {WINDOW - 1}]
        BY Zenon, <1>0, <2>1, <4>1, <4>2, AdvanceMoves
      <4>4. rdbx'.index = i
        BY <4>3
      <4> QED
        BY Zenon, <1>0, <1>00, <2>1, <4>1, <4>2, <4>4, AdvanceRemembers
    <3>2. CASE e.status = "ok"
      <4>1. e.delta = i - rdbx.index
        BY Zenon, <3>2, <2>1 DEF srtp_estimate_index
      <4>2. /\ rdbx' = srtp_rdbx_add_index(rdbx, e.delta)
            /\ srtp_rdbx_check(rdbx, e.delta) = "ok"
        BY Zenon, <3>2, <1>2 DEF ReceiveRtpPending
      <4>3. e.delta \in Int /\ rdbx.index + e.delta = i
        BY <4>1, <2>1
      <4> HIDE DEF e
      <4>4. srtp_rdbx_add_index(rdbx, e.delta).index \in {rdbx.index, rdbx.index + e.delta}
        BY Zenon, <1>0 DEF srtp_rdbx_add_index
      <4> QED
        BY Zenon, <1>0, <1>00, <2>1, <4>2, <4>3, <4>4, AddRemembers
    <3> QED
      BY Zenon, <3>1, <3>2, <1>2 DEF ReceiveRtpPending
  <2>4. twice' = FALSE
    BY Zenon, <2>2, <2>3, <1>0
  <2> QED
    BY Zenon, <1>0, <2>1, <2>2, <2>3, <2>4 DEF IInv, ReplayTypeOK, NoReplay, WindowsRemember, RtcpRemembers, RtpRemembers
<1>3. ASSUME NEW i \in RtcpIndices, ReceiveRtcp(i) PROVE IInv'
  <2>1. i \in Nat /\ srtp_rdb_check(rdb, i) = "ok"
    BY Zenon, <1>0, <1>3 DEF ReceiveRtcp
  <2>2. /\ i \notin caccepted
        /\ srtp_rdb_add_index(rdb, i) \in [window_start : Nat, bits : SUBSET (0..(RDB_BITS - 1))]
        /\ RtcpRemembers(srtp_rdb_add_index(rdb, i), caccepted \cup {i})
    BY Zenon, <1>0, <2>1, RtcpAddRemembers
  <2>3. /\ rdb' = srtp_rdb_add_index(rdb, i) /\ caccepted' = caccepted \cup {i}
        /\ twice' = (twice \/ i \in caccepted) /\ rdbx' = rdbx /\ accepted' = accepted
    BY Zenon, <1>3 DEF ReceiveRtcp
  <2>4. twice' = FALSE
    BY Zenon, <2>2, <2>3, <1>0
  <2> QED
    BY Zenon, <1>0, <2>1, <2>2, <2>3, <2>4 DEF IInv, ReplayTypeOK, NoReplay, WindowsRemember, RtcpRemembers, RtpRemembers
<1>4. CASE UNCHANGED replayVars
  BY Zenon, <1>0, <1>4 DEF replayVars, IInv, ReplayTypeOK, NoReplay, WindowsRemember, RtcpRemembers, RtpRemembers
<1> QED
  BY Zenon, <1>1, <1>2, <1>3, <1>4 DEF ReplayNext

(* No RTP and no SRTCP index is accepted twice by srtp_unprotect and       *)
(* srtp_unprotect_rtcp, whatever the sequence number width, the window and *)
(* the order of arrival.                                                   *)
THEOREM ReceiverNoReplay == ReplaySpec => []NoReplay
<1>1. ReplaySpec => []IInv
  BY InitIInv, StepIInv, PTL DEF ReplaySpec
<1>2. IInv => NoReplay
  BY Zenon DEF IInv
<1> QED
  BY <1>1, <1>2, PTL

(* The bitmasks of rdbx and rdb hold exactly the accepted indices of the   *)
(* window, after every sequence of arrivals.                               *)
THEOREM ReceiverRemembers == ReplaySpec => []WindowsRemember
<1>1. ReplaySpec => []IInv
  BY InitIInv, StepIInv, PTL DEF ReplaySpec
<1>2. IInv => WindowsRemember
  BY Zenon DEF IInv
<1> QED
  BY <1>1, <1>2, PTL

(* A timely packet is never refused: srtp_rdbx_estimate_index finds its    *)
(* index and srtp_rdbx_check no replay.                                    *)
THEOREM ReceiverTimely == ReplaySpec => []TimelyIsAccepted
<1>1. ReplaySpec => []IInv
  BY InitIInv, StepIInv, PTL DEF ReplaySpec
<1>2. IInv => TimelyIsAccepted
  <2> SUFFICES ASSUME IInv, NEW i \in Indices,
                      i - rdbx.index < seq_num_median, rdbx.index - i < WINDOW, i \notin accepted
               PROVE  /\ srtp_rdbx_estimate_index(rdbx, SeqOf(i)).est = i
                      /\ srtp_rdbx_check(rdbx, srtp_rdbx_estimate_index(rdbx, SeqOf(i)).delta) = "ok"
    BY Zenon DEF TimelyIsAccepted
  <2> DEFINE e == srtp_rdbx_estimate_index(rdbx, SeqOf(i))
             w == WINDOW - 1 + e.delta
  <2>0. /\ rdbx \in [index : Nat, bits : SUBSET (0..(WINDOW - 1))]
        /\ RtpRemembers(rdbx, accepted) /\ rdbx.index \in Nat /\ rdbx.index <= LastRtpIndex
    BY Zenon DEF IInv, ReplayTypeOK, WindowsRemember
  <2>00. i \in Nat
    BY IndicesAssumption
  <2>1. WINDOW \in Nat /\ WINDOW >= 1 /\ seq_num_median \in Nat /\ WINDOW <= seq_num_median
    BY ReplayAssumption DEF seq_num_median
  <2>2. rdbx.index - i < seq_num_median
    BY <2>0, <2>00, <2>1
  <2>3. e.est = i
    BY Zenon, <2>0, <2>00, <2>2, EstimateIsExact
  <2>4. e.delta \in Int /\ e.est = rdbx.index + e.delta
    BY Zenon, <2>0, <2>00, SplitIndex, EstimateDelta
  <2> HIDE DEF e
  <2>5. ~ (e.delta > 0) => w \in 0..(WINDOW - 1) /\ rdbx.index - (WINDOW - 1) + w = i
    BY <2>0, <2>00, <2>1, <2>3, <2>4
  <2>6. ~ (e.delta > 0) => w \notin rdbx.bits
    BY Zenon, <2>5, <2>0 DEF RtpRemembers
  <2>7. srtp_rdbx_check(rdbx, e.delta) = "ok"
    BY <2>4, <2>5, <2>6, <2>1 DEF srtp_rdbx_check
  <2> QED
    BY Zenon, <2>3, <2>7 DEF e
<1> QED
  BY <1>1, <1>2, PTL

----------------------------------------------------------------------------
(* Rollover counter and sequence number are put together and taken apart.  *)
LEMMA Compose ==
    ASSUME NEW a \in Nat, NEW s \in 0..(SEQ_MAX - 1)
    PROVE  /\ a * SEQ_MAX + s \in Nat
           /\ RocOf(a * SEQ_MAX + s) = a
           /\ SeqOf(a * SEQ_MAX + s) = s
<1> DEFINE i == a * SEQ_MAX + s
           b == RocOf(i)
           t == SeqOf(i)
<1>0. SEQ_MAX \in Nat /\ SEQ_MAX >= 4 /\ a * SEQ_MAX \in Nat
  BY ReplayAssumption
<1>1. i \in Nat
  BY <1>0
<1>2. b \in Nat /\ t \in 0..(SEQ_MAX - 1) /\ i = b * SEQ_MAX + t
  BY Zenon, <1>1, SplitIndex
<1>3. b * SEQ_MAX \in Nat
  BY <1>2, <1>0
<1>4. /\ a >= b + 1 => a * SEQ_MAX >= b * SEQ_MAX + SEQ_MAX
      /\ b >= a + 1 => b * SEQ_MAX >= a * SEQ_MAX + SEQ_MAX
  <2>1. a >= b + 1 => a * SEQ_MAX >= (b + 1) * SEQ_MAX
    BY <1>0, <1>2
  <2>2. b >= a + 1 => b * SEQ_MAX >= (a + 1) * SEQ_MAX
    BY <1>0, <1>2
  <2>3. (b + 1) * SEQ_MAX = b * SEQ_MAX + SEQ_MAX /\ (a + 1) * SEQ_MAX = a * SEQ_MAX + SEQ_MAX
    BY <1>0, <1>2
  <2> QED
    BY Zenon, <2>1, <2>2, <2>3
<1>5. a = b
  BY <1>0, <1>2, <1>3, <1>4
<1> QED
  BY SMTT(30), <1>1, <1>2, <1>3, <1>5, <1>0

(* srtp_rdbx_estimate_index guesses an index with the sequence number it   *)
(* is given, less than SEQ_MAX ahead of the newest.                        *)
LEMMA EstimateFits ==
    ASSUME NEW r, r.index \in Nat, r.index <= LastRtpIndex, NEW s \in 0..(SEQ_MAX - 1)
    PROVE  LET e == srtp_rdbx_estimate_index(r, s)
           IN /\ e.est \in Nat /\ SeqOf(e.est) = s /\ e.est <= r.index + SEQ_MAX
              /\ e.delta \in Int /\ e.est = r.index + e.delta
<1> DEFINE roc == RocOf(r.index)
           seq == SeqOf(r.index)
           p == roc * SEQ_MAX
           e == srtp_rdbx_estimate_index(r, s)
<1>0. roc \in Nat /\ seq \in 0..(SEQ_MAX - 1) /\ r.index = p + seq
  BY Zenon, SplitIndex
<1>1. e.delta \in Int /\ e.est = r.index + e.delta
  BY Zenon, EstimateDelta
<1> SUFFICES e.est \in Nat /\ SeqOf(e.est) = s /\ e.est <= r.index + SEQ_MAX
  BY Zenon, <1>1
<1>2. /\ SEQ_MAX \in Nat /\ SEQ_MAX >= 4 /\ seq_num_median \in Nat
      /\ SEQ_MAX = 2 * seq_num_median /\ p \in Nat
  BY <1>0, ReplayAssumption DEF seq_num_median
<1>3. CASE ~ (r.index > seq_num_median)
  <2>1. e.est = s
    BY Zenon, <1>3 DEF srtp_rdbx_estimate_index
  <2>2. s \in Nat /\ SeqOf(s) = s
    BY SmallIndex, <1>2
  <2> QED
    BY <1>1, <1>2, <2>1, <2>2
<1>4. CASE r.index > seq_num_median
  <2>1. e = UnboundedGuess(r.index, s)
    BY Zenon, <1>4, GuessIsUnbounded DEF srtp_rdbx_estimate_index
  <2>2. roc = 0 => ~ (seq < seq_num_median)
    BY <1>0, <1>2, <1>4
  <2>3. \/ e.est = roc * SEQ_MAX + s
        \/ e.est = (roc + 1) * SEQ_MAX + s /\ ~ (seq < seq_num_median) /\ seq - seq_num_median > s
        \/ e.est = (roc - 1) * SEQ_MAX + s /\ seq < seq_num_median
    BY <2>1 DEF UnboundedGuess
  <2> HIDE DEF e, roc, seq
  <2>4. /\ (roc + 1) * SEQ_MAX = roc * SEQ_MAX + SEQ_MAX
        /\ (roc - 1) * SEQ_MAX = roc * SEQ_MAX - SEQ_MAX
    BY <1>0, <1>2, Distribute
  <2>5. CASE e.est = roc * SEQ_MAX + s
    <3>1. e.est \in Nat /\ SeqOf(e.est) = s
      BY Zenon, <2>5, <1>0, Compose
    <3>2. e.est <= r.index + SEQ_MAX
      BY <2>5, <1>0, <1>2
    <3> QED
      BY Zenon, <3>1, <3>2
  <2>6. CASE e.est = (roc + 1) * SEQ_MAX + s /\ ~ (seq < seq_num_median) /\ seq - seq_num_median > s
    <3>1. e.est \in Nat /\ SeqOf(e.est) = s
      BY <2>6, <1>0, Compose
    <3>2. e.est <= r.index + SEQ_MAX
      BY <2>6, <2>4, <1>0, <1>2
    <3> QED
      BY Zenon, <3>1, <3>2
  <2>7. CASE e.est = (roc - 1) * SEQ_MAX + s /\ seq < seq_num_median
    <3>1. roc - 1 \in Nat
      BY <1>0, <2>2, <2>7
    <3>2. e.est \in Nat /\ SeqOf(e.est) = s
      BY <2>7, <3>1, Compose
    <3>3. e.est <= r.index + SEQ_MAX
      BY <2>7, <2>4, <1>0, <1>2
    <3> QED
      BY Zenon, <3>2, <3>3
  <2> QED
    BY Zenon, <2>3, <2>5, <2>6, <2>7
<1> QED
  BY Zenon, <1>3, <1>4

(* srtp_estimate_index puts the rollover counter and the sequence number   *)
(* together, and tells how far from the newest index that is unless it is  *)
(* far away.                                                               *)
LEMMA PendingFits ==
    ASSUME NEW r, r.index \in Nat, NEW roc \in Nat, NEW s \in 0..(SEQ_MAX - 1)
    PROVE  LET e == srtp_estimate_index(r, roc, s)
           IN /\ e.est = roc * SEQ_MAX + s /\ e.est \in Nat /\ SeqOf(e.est) = s
              /\ e.status \in {"ok", "pkt_idx_adv", "pkt_idx_old"}
              /\ e.status = "ok" => e.delta \in Int /\ e.est = r.index + e.delta
              /\ e.status = "pkt_idx_adv" => e.est - r.index > seq_num_median /\ e.delta = 0
<1> DEFINE e == srtp_estimate_index(r, roc, s)
           x == roc * SEQ_MAX + s
<1>1. x \in Nat /\ SeqOf(x) = s
  BY Zenon, Compose
<1>2. /\ e.est = x
      /\ e.status \in {"ok", "pkt_idx_adv", "pkt_idx_old"}
      /\ e.status = "ok" => e.delta = x - r.index
      /\ e.status = "pkt_idx_adv" => x - r.index > seq_num_median /\ e.delta = 0
  BY Zenon DEF srtp_estimate_index
<1> HIDE DEF e, x
<1>3. e.status = "ok" => e.delta \in Int /\ x = r.index + e.delta
  BY <1>1, <1>2
<1> QED
  BY Zenon, <1>1, <1>2, <1>3 DEF e, x

(* srtp_rdbx_add_index: what was marked or older than the window stays so, *)
(* and the new index becomes so; srtp_rdbx_check lets no such index pass.  *)
LEMMA AddMarks ==
    ASSUME NEW r \in [index : Nat, bits : SUBSET (0..(WINDOW - 1))],
           NEW d \in Int, r.index + d \in Nat, d > 0 \/ WINDOW - 1 + d >= 0
    PROVE  LET q == srtp_rdbx_add_index(r, d)
           IN /\ q \in [index : Nat, bits : SUBSET (0..(WINDOW - 1))]
              /\ Marked(q, r.index + d)
              /\ \A i \in Nat : Marked(r, i) => Marked(q, i)
              /\ srtp_rdbx_check(r, d) = "ok" => ~ Marked(r, r.index + d)
<1> DEFINE W == WINDOW - 1
           q == srtp_rdbx_add_index(r, d)
<1>0. WINDOW \in Nat /\ WINDOW >= 1 /\ W \in Nat /\ r.index \in Nat /\ r.bits \subseteq 0..W
  BY ReplayAssumption
<1>1. CASE d > 0
  <2>1. q = [index |-> r.index + d, bits |-> LeftShift(r.bits, d) \cup {W}]
    BY Zenon, <1>1 DEF srtp_rdbx_add_index
  <2>2. LeftShift(r.bits, d) \subseteq 0..W
    BY <1>0, <1>1 DEF LeftShift
  <2>3. q \in [index : Nat, bits : SUBSET (0..W)]
    BY <2>1, <2>2, <1>0
  <2>4. Marked(q, r.index + d)
    BY <2>1, <1>0 DEF Marked
  <2>5. ASSUME NEW i \in Nat, Marked(r, i) PROVE Marked(q, i)
    <3>1. i <= r.index /\ i <= q.index
      BY <2>5, <2>1, <1>0, <1>1 DEF Marked
    <3>2. ASSUME q.index - i < WINDOW PROVE WINDOW - 1 - (q.index - i) \in q.bits
      <4>1. r.index - i < WINDOW
        BY <3>2, <2>1, <1>0, <1>1
      <4>2. W - (r.index - i) \in r.bits
        BY Zenon, <2>5, <4>1 DEF Marked
      <4>3. W - (q.index - i) = (W - (r.index - i)) - d /\ W - (r.index - i) >= d
        BY <3>2, <2>1, <1>0
      <4>4. W - (q.index - i) \in LeftShift(r.bits, d)
        BY Zenon, <4>2, <4>3 DEF LeftShift
      <4> QED
        BY <4>4, <2>1
    <3> QED
      BY Zenon, <3>1, <3>2 DEF Marked
  <2>6. ~ Marked(r, r.index + d)
    BY <1>0, <1>1 DEF Marked
  <2> QED
    BY Zenon, <2>3, <2>4, <2>5, <2>6
<1>2. CASE ~ (d > 0)
  <2>1. q = [index |-> r.index, bits |-> r.bits \cup {W + d}]
    BY ZenonT(30), <1>2 DEF srtp_rdbx_add_index
  <2>2. W + d \in 0..W
    BY <1>2, <1>0
  <2>3. q \in [index : Nat, bits : SUBSET (0..W)]
    BY <2>1, <2>2, <1>0
  <2>4. Marked(q, r.index + d)
    <3>1. W - (r.index - (r.index + d)) = W + d
      BY <1>0
    <3> QED
      BY <2>1, <3>1, <1>0, <1>2 DEF Marked
  <2>5. \A i \in Nat : Marked(r, i) => Marked(q, i)
    BY <2>1 DEF Marked
  <2>6. ASSUME srtp_rdbx_check(r, d) = "ok" PROVE ~ Marked(r, r.index + d)
    <3>1. W + d \notin r.bits
      BY Zenon, <2>6, <1>2, <2>2, <1>0 DEF srtp_rdbx_check
    <3>2. W - (r.index - (r.index + d)) = W + d /\ r.index - (r.index + d) < WINDOW
      BY <1>0, <2>2
    <3> QED
      BY Zenon, <3>1, <3>2 DEF Marked
  <2> QED
    BY Zenon, <2>3, <2>4, <2>5, <2>6
<1> QED
  BY Zenon, <1>1, <1>2

(* The same for an index far ahead.                                        *)
LEMMA AdvanceMarks ==
    ASSUME NEW r \in [index : Nat, bits : SUBSET (0..(WINDOW - 1))],
           NEW j \in Nat, j - r.index > seq_num_median
    PROVE  LET q == srtp_rdbx_add_index(srtp_rdbx_set_roc_seq(r, RocOf(j), SeqOf(j)), 0)
           IN /\ q \in [index : Nat, bits : SUBSET (0..(WINDOW - 1))]
              /\ Marked(q, j)
              /\ \A i \in Nat : Marked(r, i) => Marked(q, i)
              /\ ~ Marked(r, j)
<1> DEFINE q == srtp_rdbx_add_index(srtp_rdbx_set_roc_seq(r, RocOf(j), SeqOf(j)), 0)
<1>0. /\ WINDOW \in Nat /\ WINDOW >= 1 /\ r.index \in Nat
      /\ seq_num_median \in Nat /\ WINDOW <= seq_num_median
  BY ReplayAssumption DEF seq_num_median
<1>1. q = [index |-> j, bits |-> {WINDOW - 1}]
  BY Zenon, AdvanceMoves
<1> HIDE DEF q
<1>2. q \in [index : Nat, bits : SUBSET (0..(WINDOW - 1))]
  BY <1>0, <1>1
<1>3. Marked(q, j) /\ ~ Marked(r, j)
  BY <1>0, <1>1 DEF Marked
<1>4. \A i \in Nat : Marked(r, i) => Marked(q, i)
  BY <1>0, <1>1 DEF Marked
<1> QED
  BY Zenon, <1>2, <1>3, <1>4 DEF q

(* srtp_rdbx_add_index marks nothing but the index it is given.            *)
LEMMA AddMarksAccepted ==
    ASSUME NEW r \in [index : Nat, bits : SUBSET (0..(WINDOW - 1))],
           NEW acc \in SUBSET Nat, NEW excused, MarksAccepted(r, acc, excused),
           NEW d \in Int, r.index + d \in Nat
    PROVE  MarksAccepted(srtp_rdbx_add_index(r, d), acc \cup {r.index + d}, excused)
<1> DEFINE W == WINDOW - 1
           q == srtp_rdbx_add_index(r, d)
<1>0. W \in Nat /\ r.index \in Nat /\ r.bits \subseteq 0..W
  BY ReplayAssumption
<1>1. CASE d > 0
  <2>1. q = [index |-> r.index + d, bits |-> LeftShift(r.bits, d) \cup {W}]
    BY Zenon, <1>1 DEF srtp_rdbx_add_index
  <2>2. ASSUME NEW b \in q.bits
        PROVE  q.index - W + b \in acc \cup {r.index + d} \cup excused
    <3>1. CASE b = W
      BY <3>1, <2>1, <1>0
    <3>2. CASE b \in LeftShift(r.bits, d)
      <4>1. PICK c \in r.bits : b = c - d
        BY Zenon, <3>2 DEF LeftShift
      <4>2. q.index - W + b = r.index - W + c
        BY <4>1, <2>1, <1>0
      <4> QED
        BY Zenon, <4>2 DEF MarksAccepted
    <3> QED
      BY <3>1, <3>2, <2>1
  <2> QED
    BY <2>1, <2>2 DEF MarksAccepted
<1>2. CASE ~ (d > 0)
  <2>1. q = [index |-> r.index, bits |-> r.bits \cup {W + d}]
    BY ZenonT(30), <1>2 DEF srtp_rdbx_add_index
  <2>2. r.index - W + (W + d) = r.index + d
    BY <1>0
  <2> QED
    BY <2>1, <2>2 DEF MarksAccepted
<1> QED
  BY Zenon, <1>1, <1>2

(* Traffic goes on.  srtp_rdbx_check refuses no index of the window that   *)
(* was not accepted.                                                       *)
LEMMA CheckPasses ==
    ASSUME NEW r \in [index : Nat, bits : SUBSET (0..(WINDOW - 1))],
           NEW acc, NEW excused, MarksAccepted(r, acc, excused),
           NEW i \in Nat, i \notin acc \cup excused, r.index - i < WINDOW
    PROVE  srtp_rdbx_check(r, i - r.index) = "ok"
<1> DEFINE d == i - r.index
           w == WINDOW - 1 + d
<1>0. WINDOW \in Nat /\ r.index \in Nat /\ d \in Int /\ w \in Int /\ w >= 0
  BY ReplayAssumption
<1>1. r.index - (WINDOW - 1) + w = i
  BY <1>0
<1>2. w \notin r.bits
  <2> HIDE DEF w
  <2> QED
    BY Zenon, <1>1 DEF MarksAccepted
<1> QED
  BY <1>0, <1>2 DEF srtp_rdbx_check

(* Three ways to enter an index, and what each keeps: an index that        *)
(* srtp_rdbx_check lets pass,                                              *)
LEMMA EnterKeeps ==
    ASSUME NEW r \in [index : Nat, bits : SUBSET (0..(WINDOW - 1))],
           NEW acc \in SUBSET Nat, NEW excused,
           NEW d \in Int, NEW i \in Nat, i = r.index + d, srtp_rdbx_check(r, d) = "ok"
    PROVE  LET q == srtp_rdbx_add_index(r, d)
           IN /\ q \in [index : Nat, bits : SUBSET (0..(WINDOW - 1))]
              /\ MarksAccepted(r, acc, excused) => MarksAccepted(q, acc \cup {i}, excused)
              /\ RtpRemembers(r, acc) => i \notin acc /\ RtpRemembers(q, acc \cup {i})
<1> DEFINE q == srtp_rdbx_add_index(r, d)
<1>1. d > 0 \/ WINDOW - 1 + d >= 0
  BY ReplayAssumption DEF srtp_rdbx_check
<1>2. q \in [index : Nat, bits : SUBSET (0..(WINDOW - 1))]
  BY Zenon, <1>1, AddMarks
<1>3. MarksAccepted(r, acc, excused) => MarksAccepted(q, acc \cup {i}, excused)
  BY Zenon, AddMarksAccepted
<1>4. RtpRemembers(r, acc) => i \notin acc /\ RtpRemembers(q, acc \cup {i})
  <2>1. r.index + d \in Nat
    BY Zenon
  <2>2. RtpRemembers(r, acc) => r.index + d \notin acc /\ RtpRemembers(q, acc \cup {r.index + d})
    BY Zenon, <2>1, AddRemembers
  <2> HIDE DEF q
  <2> QED
    BY Zenon, <2>2
<1> QED
  BY Zenon, <1>2, <1>3, <1>4

(* an index far ahead under a pending rollover counter,                    *)
LEMMA AdvanceKeeps ==
    ASSUME NEW r \in [index : Nat, bits : SUBSET (0..(WINDOW - 1))],
           NEW acc \in SUBSET Nat, NEW excused, NEW i \in Nat, i - r.index > seq_num_median
    PROVE  LET q == srtp_rdbx_add_index(srtp_rdbx_set_roc_seq(r, RocOf(i), SeqOf(i)), 0)
           IN /\ q \in [index : Nat, bits : SUBSET (0..(WINDOW - 1))]
              /\ MarksAccepted(q, acc \cup {i}, excused)
              /\ RtpRemembers(r, acc) => i \notin acc /\ RtpRemembers(q, acc \cup {i})
<1> DEFINE q == srtp_rdbx_add_index(srtp_rdbx_set_roc_seq(r, RocOf(i), SeqOf(i)), 0)
<1>0. WINDOW \in Nat /\ WINDOW >= 1
  BY ReplayAssumption
<1>1. q = [index |-> i, bits |-> {WINDOW - 1}]
  BY Zenon, AdvanceMoves
<1>2. RtpRemembers(r, acc) => i \notin acc /\ RtpRemembers(q, acc \cup {i})
  BY Zenon, AdvanceRemembers
<1> HIDE DEF q
<1>3. q \in [index : Nat, bits : SUBSET (0..(WINDOW - 1))]
  BY <1>0, <1>1
<1>4. i - (WINDOW - 1) + (WINDOW - 1) = i
  BY <1>0
<1>5. MarksAccepted(q, acc \cup {i}, excused)
  BY Zenon, <1>1, <1>4 DEF MarksAccepted
<1> QED
  BY Zenon, <1>2, <1>3, <1>5 DEF q

(* and the newest index once more, in the place of another.                *)
LEMMA RemarkKeeps ==
    ASSUME NEW r \in [index : Nat, bits : SUBSET (0..(WINDOW - 1))],
           NEW acc \in SUBSET Nat, NEW excused, NEW i
    PROVE  LET q == srtp_rdbx_add_index(r, 0)
           IN /\ q \in [index : Nat, bits : SUBSET (0..(WINDOW - 1))]
              /\ MarksAccepted(r, acc, excused) /\ 0 \in excused => MarksAccepted(q, acc \cup {i}, excused)
<1> DEFINE q == srtp_rdbx_add_index(r, 0)
<1>0. WINDOW \in Nat /\ WINDOW >= 1 /\ r.index \in Nat
  BY ReplayAssumption
<1>1. q = [index |-> r.index, bits |-> r.bits \cup {WINDOW - 1}]
  <2>1. WINDOW - 1 + 0 = WINDOW - 1
    BY <1>0
  <2>2. q = [r EXCEPT !.bits = r.bits \cup {WINDOW - 1 + 0}]
    BY DEF srtp_rdbx_add_index
  <2> QED
    BY Zenon, <2>1, <2>2
<1> HIDE DEF q
<1>2. q \in [index : Nat, bits : SUBSET (0..(WINDOW - 1))]
  BY <1>0, <1>1
<1>3. r.index - (WINDOW - 1) + (WINDOW - 1) = r.index
  BY <1>0
<1>4. MarksAccepted(r, acc, excused) /\ 0 \in excused => MarksAccepted(q, acc \cup {i}, excused)
  BY Zenon, <1>1, <1>3 DEF MarksAccepted
<1> QED
  BY Zenon, <1>2, <1>4 DEF q

(* The index after the newest is found, one ahead.                         *)
LEMMA NextIsFound ==
    ASSUME NEW r, r.index \in Nat
    PROVE  LET f == srtp_rdbx_estimate_index(r, SeqOf(r.index + 1))
           IN f.delta = 1 /\ srtp_rdbx_check(r, f.delta) = "ok"
<1> DEFINE a == RocOf(r.index)
           t == SeqOf(r.index)
           s == SeqOf(r.index + 1)
           f == srtp_rdbx_estimate_index(r, s)
           h == seq_num_median
<1>1. a \in Nat /\ t \in 0..(SEQ_MAX - 1) /\ r.index = a * SEQ_MAX + t
  BY Zenon, SplitIndex
<1>2. SEQ_MAX \in Nat /\ SEQ_MAX = 2 * h /\ h \in Nat /\ h >= 2
  BY ReplayAssumption DEF seq_num_median
<1>3. t < SEQ_MAX - 1 => s = t + 1
  <2> SUFFICES ASSUME t < SEQ_MAX - 1 PROVE s = t + 1
    BY Zenon
  <2> HIDE DEF a, t
  <2>1. t + 1 \in 0..(SEQ_MAX - 1) /\ r.index + 1 = a * SEQ_MAX + (t + 1)
    BY <1>1, <1>2
  <2> QED
    BY Zenon, <1>1, <2>1, Compose
<1>4. t = SEQ_MAX - 1 => s = 0
  <2> SUFFICES ASSUME t = SEQ_MAX - 1 PROVE s = 0
    BY Zenon
  <2> HIDE DEF a, t
  <2>1. 0 \in 0..(SEQ_MAX - 1) /\ a + 1 \in Nat /\ r.index + 1 = (a + 1) * SEQ_MAX + 0
    BY <1>1, <1>2
  <2> QED
    BY Zenon, <2>1, Compose
<1>5. r.index <= h => t = r.index
  BY <1>2, SmallIndex
<1>6. f.delta = IF r.index > h
                THEN s - t + (IF t < h THEN IF s - t > h THEN -1 ELSE 0
                              ELSE IF t - h > s THEN 1 ELSE 0) * SEQ_MAX
                ELSE s - t
  BY Zenon DEF srtp_rdbx_estimate_index, srtp_index_guess
<1> HIDE DEF a, t, s, f, h
<1>7. f.delta = 1
  <2>1. CASE t < SEQ_MAX - 1
    <3>1. s = t + 1
      BY Zenon, <1>3, <2>1
    <3>2. ~ (s - t > h) /\ ~ (t - h > s) /\ s - t = 1 /\ s - t + 0 * SEQ_MAX = 1
      BY <1>1, <1>2, <3>1
    <3> QED
      BY Zenon, <1>6, <3>2
  <2>2. CASE t = SEQ_MAX - 1
    <3>1. s = 0
      BY Zenon, <1>4, <2>2
    <3>2. r.index > h /\ ~ (t < h) /\ t - h > s /\ s - t + 1 * SEQ_MAX = 1
      BY <1>1, <1>2, <1>5, <2>2, <3>1
    <3> QED
      BY Zenon, <1>6, <3>2
  <2> QED
    BY <1>1, <1>2, <2>1, <2>2
<1> QED
  BY <1>7 DEF srtp_rdbx_check, f, s

(* So is an index of the window, or less than half the sequence number     *)
(* space ahead, that was not accepted,                                     *)
LEMMA NearIsFound ==
    ASSUME NEW r \in [index : Nat, bits : SUBSET (0..(WINDOW - 1))],
           NEW acc, NEW excused, MarksAccepted(r, acc, excused), r.index <= LastRtpIndex,
           NEW j \in Nat, j \notin acc \cup excused, j - r.index < seq_num_median, r.index - j < WINDOW
    PROVE  LET f == srtp_rdbx_estimate_index(r, SeqOf(j))
           IN f.est = j /\ srtp_rdbx_check(r, f.delta) = "ok"
<1> DEFINE f == srtp_rdbx_estimate_index(r, SeqOf(j))
<1>0. WINDOW \in Nat /\ seq_num_median \in Nat /\ WINDOW <= seq_num_median /\ r.index \in Nat
  BY ReplayAssumption DEF seq_num_median
<1>1. f.est = j
  BY <1>0, EstimateIsExact
<1>2. SeqOf(j) \in 0..(SEQ_MAX - 1)
  BY Zenon, SplitIndex
<1>3. f.delta \in Int /\ f.est = r.index + f.delta
  BY Zenon, <1>0, <1>2, EstimateDelta
<1>4. srtp_rdbx_check(r, j - r.index) = "ok"
  BY Zenon, CheckPasses
<1> HIDE DEF f
<1>5. f.delta = j - r.index
  BY <1>0, <1>1, <1>3
<1> QED
  BY Zenon, <1>1, <1>4, <1>5 DEF f

(* and one of the pending rollover counter that is not behind the window.  *)
LEMMA PendingIsFound ==
    ASSUME NEW r \in [index : Nat, bits : SUBSET (0..(WINDOW - 1))],
           NEW acc, NEW excused, MarksAccepted(r, acc, excused),
           NEW j \in Nat, j \notin acc \cup excused, r.index - j < WINDOW
    PROVE  LET e == srtp_estimate_index(r, RocOf(j), SeqOf(j))
           IN /\ e.est = j /\ e.status \in {"ok", "pkt_idx_adv"}
              /\ e.status = "ok" => srtp_rdbx_check(r, e.delta) = "ok"
<1> DEFINE e == srtp_estimate_index(r, RocOf(j), SeqOf(j))
<1>0. WINDOW \in Nat /\ seq_num_median \in Nat /\ WINDOW <= seq_num_median /\ r.index \in Nat
  BY ReplayAssumption DEF seq_num_median
<1>1. srtp_rdbx_check(r, j - r.index) = "ok"
  BY Zenon, CheckPasses
<1>2. RocOf(j) * SEQ_MAX + SeqOf(j) = j /\ ~ (r.index - j > seq_num_median)
  BY <1>0, SplitIndex
<1>3. e.est = j /\ e.status \in {"ok", "pkt_idx_adv"} /\ (e.status = "ok" => e.delta = j - r.index)
  BY Zenon, <1>2 DEF srtp_estimate_index
<1> QED
  BY Zenon, <1>1, <1>3

(* A database just initialized finds every sequence number as it is.       *)
LEMMA FirstIsFound ==
    ASSUME NEW s \in 0..(SEQ_MAX - 1)
    PROVE  LET f == srtp_rdbx_estimate_index(srtp_rdbx_init, s)
           IN /\ f.est = s /\ f.delta = s /\ SeqOf(s) = s /\ srtp_rdbx_init.index = 0
              /\ srtp_rdbx_check(srtp_rdbx_init, s) = "ok"
<1>0. /\ SEQ_MAX \in Nat /\ SEQ_MAX >= 4 /\ seq_num_median \in Nat /\ SeqOf(0) = 0
      /\ WINDOW \in Nat /\ WINDOW >= 1 /\ s \in Nat /\ s < SEQ_MAX
  BY ReplayAssumption DEF seq_num_median, SeqOf
<1>1. srtp_rdbx_init.index = 0 /\ srtp_rdbx_init.bits = {}
  BY Zenon DEF srtp_rdbx_init
<1>2. srtp_rdbx_estimate_index(srtp_rdbx_init, s) = [est |-> s, delta |-> s - SeqOf(0)]
  BY <1>0, <1>1 DEF srtp_rdbx_estimate_index
<1>3. srtp_rdbx_check(srtp_rdbx_init, s) = "ok"
  BY <1>0, <1>1 DEF srtp_rdbx_check
<1>4. SeqOf(s) = s
  BY Zenon, <1>0, SmallIndex
<1> QED
  BY <1>0, <1>1, <1>2, <1>3, <1>4

----------------------------------------------------------------------------
(* The sender.  What st becomes when est is sent with sequence number seq: *)
(* est is marked from then on, and was not before unless the policy allows *)
(* repeats.                                                                *)
Tracks(st, u, est, seq) ==
    /\ u \in Streams /\ u.rdb = st.rdb
    /\ est \in 0..LastIndex /\ SeqOf(est) = seq
    /\ Marked(u.rdbx, est)
    /\ \A i \in Nat : Marked(st.rdbx, i) => Marked(u.rdbx, i)
    /\ ~ cfg.repeat => ~ Marked(st.rdbx, est)

(* Entering an estimate that srtp_rdbx_check did not find too old.         *)
LEMMA EnteredTracks ==
    ASSUME NEW st \in Streams, NEW est \in 0..LastIndex, NEW d \in Int, est = st.rdbx.index + d,
           srtp_rdbx_check(st.rdbx, d) = "ok" \/ (srtp_rdbx_check(st.rdbx, d) = "replay_fail" /\ cfg.repeat)
    PROVE  Tracks(st, Entered(st, d), est, SeqOf(est))
<1> DEFINE q == srtp_rdbx_add_index(st.rdbx, d)
<1>0. /\ WINDOW \in Nat /\ LastIndex \in Nat /\ est \in Nat
      /\ st.rdbx \in [index : Nat, bits : SUBSET (0..(WINDOW - 1))]
  BY ReplayAssumption, PacketAssumption DEF Streams
<1>1. d > 0 \/ WINDOW - 1 + d >= 0
  BY <1>0 DEF srtp_rdbx_check
<1>2. /\ q \in [index : Nat, bits : SUBSET (0..(WINDOW - 1))]
      /\ Marked(q, est)
      /\ \A i \in Nat : Marked(st.rdbx, i) => Marked(q, i)
      /\ srtp_rdbx_check(st.rdbx, d) = "ok" => ~ Marked(st.rdbx, est)
  BY Zenon, <1>0, <1>1, AddMarks
<1> HIDE DEF q
<1>3. Entered(st, d) \in Streams /\ Entered(st, d).rdb = st.rdb /\ Entered(st, d).rdbx = q
  BY Zenon, <1>2 DEF Entered, Streams, q
<1> QED
  BY Zenon, <1>2, <1>3 DEF Tracks

(* Moving to an estimate far ahead.                                        *)
LEMMA AdvancedTracks ==
    ASSUME NEW st \in Streams, NEW est \in 0..LastIndex, est - st.rdbx.index > seq_num_median
    PROVE  Tracks(st, Advanced(st, est), est, SeqOf(est))
<1> DEFINE q == srtp_rdbx_add_index(srtp_rdbx_set_roc_seq(st.rdbx, RocOf(est), SeqOf(est)), 0)
<1>0. est \in Nat /\ st.rdbx \in [index : Nat, bits : SUBSET (0..(WINDOW - 1))]
  BY PacketAssumption DEF Streams
<1>1. /\ q \in [index : Nat, bits : SUBSET (0..(WINDOW - 1))]
      /\ Marked(q, est)
      /\ \A i \in Nat : Marked(st.rdbx, i) => Marked(q, i)
      /\ ~ Marked(st.rdbx, est)
  BY Zenon, <1>0, AdvanceMarks
<1> HIDE DEF q
<1>2. Advanced(st, est) \in Streams /\ Advanced(st, est).rdb = st.rdb /\ Advanced(st, est).rdbx = q
  BY ZenonT(30), <1>1 DEF Advanced, Streams, q
<1> QED
  BY Zenon, <1>1, <1>2 DEF Tracks

(* Sender and receiver stop before an estimate could wrap.                 *)
LEMMA IndexIsBelow ==
    ASSUME NEW i \in Nat, i < MaxIndex \/ i <= LastIndex
    PROVE  i <= LastRtpIndex
<1>1. /\ MaxIndex \in Nat /\ LastIndex \in Nat /\ MaxIndex + SEQ_MAX <= LastIndex
      /\ LastIndex <= LastRtpIndex /\ SEQ_MAX \in Nat
  BY PacketAssumption, ReplayAssumption
<1>2. LastRtpIndex \in Int
  BY ReplayAssumption DEF LastRtpIndex, seq_num_median
<1> QED
  BY <1>1, <1>2

(* srtp_protect_mki's choice of the index.                                 *)
LEMMA SendIndexTracks ==
    ASSUME NEW st \in Streams, NEW seq \in 0..(SEQ_MAX - 1), st.rdbx.index < MaxIndex,
           SendIndex(st, seq).status = "ok"
    PROVE  Tracks(st, SendIndex(st, seq).st, SendIndex(st, seq).est, seq)
<1> DEFINE e == srtp_get_est_pkt_index(st, seq)
           i == SendIndex(st, seq)
<1>0. /\ st.rdbx.index \in Nat /\ st.pending_roc \in Rocs \cup {0}
      /\ MaxIndex \in Nat /\ LastIndex \in Nat /\ MaxIndex + SEQ_MAX <= LastIndex
      /\ SEQ_MAX \in Nat
  BY Zenon, PacketAssumption, ReplayAssumption DEF Streams
<1>00. st.rdbx.index <= LastRtpIndex
  BY <1>0, IndexIsBelow
<1>1. /\ e.est \in 0..LastIndex /\ SeqOf(e.est) = seq
      /\ e.status \in {"ok", "pkt_idx_adv", "pkt_idx_old"}
      /\ e.status = "ok" => e.delta \in Int /\ e.est = st.rdbx.index + e.delta
      /\ e.status = "pkt_idx_adv" => e.est - st.rdbx.index > seq_num_median
  <2>1. CASE st.pending_roc # 0
    <3> DEFINE g == srtp_estimate_index(st.rdbx, st.pending_roc, seq)
    <3>1. st.pending_roc \in Nat /\ st.pending_roc * SEQ_MAX + SEQ_MAX - 1 <= LastIndex
      BY Zenon, <1>0, <2>1, PacketAssumption
    <3>2. e = g
      BY Zenon, <2>1 DEF srtp_get_est_pkt_index
    <3>3. /\ g.est = st.pending_roc * SEQ_MAX + seq /\ g.est \in Nat /\ SeqOf(g.est) = seq
          /\ g.status \in {"ok", "pkt_idx_adv", "pkt_idx_old"}
          /\ g.status = "ok" => g.delta \in Int /\ g.est = st.rdbx.index + g.delta
          /\ g.status = "pkt_idx_adv" => g.est - st.rdbx.index > seq_num_median
      BY <1>0, <3>1, PendingFits
    <3> HIDE DEF e, g
    <3>4. g.est <= LastIndex
      <4>1. st.pending_roc * SEQ_MAX \in Nat
        BY <1>0, <3>1
      <4> QED
        BY <1>0, <3>1, <3>3, <4>1
    <3> QED
      BY <1>0, <3>2, <3>3, <3>4
  <2>2. CASE st.pending_roc = 0
    <3> DEFINE g == srtp_rdbx_estimate_index(st.rdbx, seq)
    <3>1. e = [est |-> g.est, delta |-> g.delta, status |-> "ok"]
      BY Zenon, <2>2 DEF srtp_get_est_pkt_index
    <3>2. /\ g.est \in Nat /\ SeqOf(g.est) = seq /\ g.est <= st.rdbx.index + SEQ_MAX
          /\ g.delta \in Int /\ g.est = st.rdbx.index + g.delta
      BY Zenon, <1>0, <1>00, EstimateFits
    <3> HIDE DEF e, g
    <3>3. g.est \in 0..LastIndex
      BY <1>0, <3>2
    <3> QED
      BY Zenon, <3>1, <3>2, <3>3
  <2> QED
    BY Zenon, <2>1, <2>2
<1>2. CASE e.status = "pkt_idx_adv"
  <2>1. i.st = Advanced(st, e.est) /\ i.est = e.est
    BY Zenon, <1>2 DEF SendIndex
  <2> HIDE DEF e, i
  <2> QED
    BY Zenon, <2>1, <1>1, <1>2, AdvancedTracks DEF i
<1>3. CASE e.status = "ok"
  <2>1. /\ i.st = Entered(st, e.delta) /\ i.est = e.est
        /\ \/ srtp_rdbx_check(st.rdbx, e.delta) = "ok"
           \/ srtp_rdbx_check(st.rdbx, e.delta) = "replay_fail" /\ cfg.repeat
    BY Zenon, <1>3 DEF SendIndex
  <2> HIDE DEF e, i
  <2> QED
    BY Zenon, <2>1, <1>1, <1>3, EnteredTracks DEF i
<1>4. e.status # "pkt_idx_old"
  BY Zenon DEF SendIndex
<1> QED
  BY Zenon, <1>1, <1>2, <1>3, <1>4

(* srtp_protect_aead's choice of the index.                                *)
LEMMA SendIndexAeadTracks ==
    ASSUME NEW st \in Streams, NEW seq \in 0..(SEQ_MAX - 1), st.rdbx.index < MaxIndex,
           SendIndexAead(st, seq).status = "ok"
    PROVE  Tracks(st, SendIndexAead(st, seq).st, SendIndexAead(st, seq).est, seq)
<1> DEFINE e == srtp_rdbx_estimate_index(st.rdbx, seq)
           i == SendIndexAead(st, seq)
           check == srtp_rdbx_check(st.rdbx, e.delta)
<1>0. /\ st.rdbx \in [index : Nat, bits : SUBSET (0..(WINDOW - 1))]
      /\ MaxIndex \in Nat /\ LastIndex \in Nat /\ MaxIndex + SEQ_MAX <= LastIndex
      /\ SEQ_MAX \in Nat /\ WINDOW \in Nat
  BY SMTT(30), PacketAssumption, ReplayAssumption DEF Streams
<1>00. st.rdbx.index \in Nat /\ st.rdbx.index <= LastRtpIndex
  BY <1>0, IndexIsBelow
<1>1. /\ e.est \in Nat /\ SeqOf(e.est) = seq /\ e.est <= st.rdbx.index + SEQ_MAX
      /\ e.delta \in Int /\ e.est = st.rdbx.index + e.delta
  BY Zenon, <1>00, EstimateFits
<1>2. i.est = e.est /\ (check = "ok" \/ (check = "replay_fail" /\ cfg.repeat))
      /\ i.st = IF check = "ok" THEN Entered(st, e.delta) ELSE st
  BY Zenon DEF SendIndexAead
<1> HIDE DEF e, i
<1>3. e.est \in 0..LastIndex
  BY <1>0, <1>1
<1>4. CASE check = "ok"
  BY ZenonT(30), <1>1, <1>2, <1>3, <1>4, EnteredTracks DEF i
<1>5. CASE check = "replay_fail" /\ cfg.repeat
  <2>1. ~ (e.delta > 0) /\ WINDOW - 1 + e.delta \in st.rdbx.bits
    BY Zenon, <1>0, <1>1, <1>5 DEF srtp_rdbx_check
  <2>2. WINDOW - 1 - (st.rdbx.index - e.est) = WINDOW - 1 + e.delta /\ e.est <= st.rdbx.index
    BY <1>0, <1>1, <2>1
  <2>3. Marked(st.rdbx, e.est)
    BY Zenon, <2>1, <2>2 DEF Marked
  <2>4. i.st = st
    BY Zenon, <1>2, <1>5
  <2> QED
    BY Zenon, <1>1, <1>2, <1>3, <1>5, <2>3, <2>4 DEF Tracks, i
<1> QED
  BY Zenon, <1>2, <1>4, <1>5

(* srtp_get_session_keys_with_mki_index: the first key without MKIs, the   *)
(* one asked for with them, or none.                                       *)
LEMMA KeyIsValid ==
    ASSUME cfg \in Configs, NEW k \in Nat,
           srtp_get_session_keys_with_mki_index(cfg.mki, k) # NoKey
    PROVE  LET key == srtp_get_session_keys_with_mki_index(cfg.mki, k)
           IN key \in 1..cfg.keys /\ (~ cfg.mki => key = 1)
BY PacketAssumption DEF srtp_get_session_keys_with_mki_index, NoKey

(* What srtp_protect_mki and srtp_protect_aead send is well formed.        *)
LEMMA SealedRtpWellFormed ==
    ASSUME cfg \in Configs, NEW est \in 0..LastIndex,
           NEW key \in 1..cfg.keys, ~ cfg.mki => key = 1
    PROVE  /\ ~ Aead => WellFormed(SealedRtp(SeqOf(est), est, key, cfg.mki))
           /\ Aead => WellFormed([SealedRtp(SeqOf(est), est, key, cfg.mki) EXCEPT !.behind = 0,
                                    !.added = srtp_inject_mki(cfg.mki) + cfg.rtp.tag_len])
<1> DEFINE n == srtp_inject_mki(cfg.mki)
           p == SealedRtp(SeqOf(est), est, key, cfg.mki)
           q == [p EXCEPT !.behind = 0, !.added = n + cfg.rtp.tag_len]
<1>0. /\ cfg.keys \in Nat \ {0} /\ cfg.mki \in BOOLEAN
      /\ cfg.rtp.tag_len \in Nat /\ cfg.rtcp.tag_len \in Nat /\ MKI_SIZE \in Nat
  BY Zenon, PacketAssumption
<1>1. n \in Nat
  BY Zenon, <1>0 DEF srtp_inject_mki
<1>2. stream_get_protect_trailer_length(TRUE, cfg.mki, key - 1) = n + cfg.rtp.tag_len
  BY SMTT(30), <1>0 DEF stream_get_protect_trailer_length
<1>3. /\ p.kind = "rtp" /\ p.key = key /\ p.mki = Mki(key, cfg.mki) /\ p.index = est
      /\ p.seq = SeqOf(est) /\ p.iv = srtp_calc_aead_iv(est) /\ p.behind = cfg.rtp.tag_len
      /\ p.added = n + IF "auth" \in cfg.rtp.serv THEN cfg.rtp.tag_len ELSE 0
  BY Zenon DEF SealedRtp
<1>4. /\ q.kind = "rtp" /\ q.key = key /\ q.mki = Mki(key, cfg.mki) /\ q.index = est
      /\ q.seq = SeqOf(est) /\ q.iv = srtp_calc_aead_iv(est) /\ q.behind = 0
      /\ q.added = n + cfg.rtp.tag_len
  BY Zenon DEF SealedRtp
<1> HIDE DEF n, p, q
<1>5. ~ Aead => WellFormed(p)
  <2>1. p.added <= n + cfg.rtp.tag_len
    BY <1>0, <1>1, <1>3
  <2> QED
    BY ZenonT(30), <1>2, <1>3, <2>1 DEF WellFormed
<1>6. Aead => WellFormed(q)
  <2>1. q.added <= n + cfg.rtp.tag_len
    BY <1>0, <1>1, <1>4
  <2> QED
    BY ZenonT(30), <1>2, <1>4, <2>1 DEF WellFormed
<1> QED
  BY Zenon, <1>5, <1>6 DEF n, p, q

(* The same for SRTCP.                                                     *)
LEMMA SealedRtcpWellFormed ==
    ASSUME cfg \in Configs, NEW index \in 1..RDB_LAST,
           NEW key \in 1..cfg.keys, ~ cfg.mki => key = 1
    PROVE  /\ ~ Aead => WellFormed(SealedRtcp(index, key, cfg.mki))
           /\ Aead => WellFormed([SealedRtcp(index, key, cfg.mki) EXCEPT !.behind = 0])
<1> DEFINE n == srtp_inject_mki(cfg.mki)
           p == SealedRtcp(index, key, cfg.mki)
           q == [p EXCEPT !.behind = 0]
<1>0. /\ cfg.keys \in Nat \ {0} /\ cfg.mki \in BOOLEAN
      /\ cfg.rtp.tag_len \in Nat /\ cfg.rtcp.tag_len \in Nat /\ MKI_SIZE \in Nat
  BY Zenon, PacketAssumption
<1>1. n \in Nat
  BY Zenon, <1>0 DEF srtp_inject_mki
<1>2. stream_get_protect_trailer_length(FALSE, cfg.mki, key - 1) = n + (cfg.rtcp.tag_len + 4)
  BY SMTT(30), <1>0 DEF stream_get_protect_trailer_length
<1>3. /\ p.kind = "rtcp" /\ p.key = key /\ p.mki = Mki(key, cfg.mki) /\ p.index = index
      /\ p.e = ("conf" \in cfg.rtcp.serv) /\ p.iv = <<index>> /\ p.behind = cfg.rtcp.tag_len
      /\ p.added = n + cfg.rtcp.tag_len + 4
  BY Zenon DEF SealedRtcp
<1>4. /\ q.kind = "rtcp" /\ q.key = key /\ q.mki = Mki(key, cfg.mki) /\ q.index = index
      /\ q.e = ("conf" \in cfg.rtcp.serv) /\ q.iv = <<index>> /\ q.behind = 0
      /\ q.added = n + cfg.rtcp.tag_len + 4
  BY Zenon DEF SealedRtcp
<1> HIDE DEF n, p, q
<1>5. p.added <= n + (cfg.rtcp.tag_len + 4) /\ q.added <= n + (cfg.rtcp.tag_len + 4)
  BY <1>0, <1>1, <1>3, <1>4
<1>6. ~ Aead => WellFormed(p)
  BY ZenonT(30), <1>2, <1>3, <1>5 DEF WellFormed
<1>7. Aead => WellFormed(q)
  BY ZenonT(30), <1>2, <1>4, <1>5 DEF WellFormed
<1> QED
  BY Zenon, <1>6, <1>7 DEF n, p, q

(* What srtp_protect does to a session: databases only gain marks, and     *)
(* what is sent is well formed, marked, and was not marked before.         *)
LEMMA ProtectTracks ==
    ASSUME cfg \in Configs, NEW s \in Sessions, s.stream.rdbx.index < MaxIndex,
           NEW seq \in 0..(SEQ_MAX - 1), NEW k \in Nat, NEW fault
    PROVE  LET r == srtp_protect_mki(s, seq, cfg.mki, k, fault)
           IN /\ r.s \in Sessions /\ r.s.stream.rdb = s.stream.rdb
              /\ \A i \in Nat : Marked(s.stream.rdbx, i) => Marked(r.s.stream.rdbx, i)
              /\ \A p \in r.sent : /\ p.kind = "rtp" /\ WellFormed(p)
                                   /\ Marked(r.s.stream.rdbx, p.index)
                                   /\ ~ cfg.repeat => ~ Marked(s.stream.rdbx, p.index)
<1> DEFINE r == srtp_protect_mki(s, seq, cfg.mki, k, fault)
           t == [s EXCEPT !.known = TRUE]
           key == srtp_get_session_keys_with_mki_index(cfg.mki, k)
           i == IF Aead THEN SendIndexAead(s.stream, seq) ELSE SendIndex(s.stream, seq)
           p == IF Aead THEN [SealedRtp(seq, i.est, key, cfg.mki) EXCEPT !.behind = 0,
                                 !.added = srtp_inject_mki(cfg.mki) + cfg.rtp.tag_len]
                ELSE SealedRtp(seq, i.est, key, cfg.mki)
           v == [t EXCEPT !.stream = i.st]
<1>1. s.stream \in Streams /\ t \in Sessions /\ t.stream = s.stream
  BY ZenonT(30) DEF Sessions
<1>2. \/ r.s \in {s, t} /\ r.sent = {}
      \/ r.s = v /\ i.status = "ok" /\ r.sent = {}
      \/ r.s = v /\ i.status = "ok" /\ r.sent = {p} /\ key # NoKey
  <2>1. CASE Aead
    BY Zenon, <2>1, <1>1 DEF srtp_protect_mki, srtp_protect_aead, Failed, Sent
  <2>2. CASE ~ Aead
    BY Zenon, <2>2, <1>1 DEF srtp_protect_mki, Failed, Sent
  <2> QED
    BY ZenonT(30), <2>1, <2>2
<1>3. i.status = "ok" => Tracks(s.stream, i.st, i.est, seq)
  BY Zenon, <1>1, SendIndexTracks, SendIndexAeadTracks
<1>4. i.status = "ok" /\ key # NoKey => p.kind = "rtp" /\ p.index = i.est /\ WellFormed(p)
  <2> SUFFICES ASSUME i.status = "ok", key # NoKey
               PROVE  p.kind = "rtp" /\ p.index = i.est /\ WellFormed(p)
    BY Zenon
  <2>1. key \in 1..cfg.keys /\ (~ cfg.mki => key = 1)
    BY Zenon, KeyIsValid
  <2>2. i.est \in 0..LastIndex /\ SeqOf(i.est) = seq
    BY Zenon, <1>3 DEF Tracks
  <2> HIDE DEF i, key
  <2>3. WellFormed(p)
    BY ZenonT(30), <2>1, <2>2, SealedRtpWellFormed
  <2> QED
    BY Zenon, <2>3 DEF SealedRtp
<1>5. i.status = "ok" => v \in Sessions /\ v.stream = i.st
  <2>1. i.status = "ok" => i.st \in Streams
    BY Zenon, <1>3 DEF Tracks
  <2> HIDE DEF i
  <2> QED
    BY ZenonT(30), <2>1, <1>1 DEF Sessions
<1> HIDE DEF r, t, key, i, p, v
<1>6. CASE r.s \in {s, t} /\ r.sent = {}
  BY Zenon, <1>6, <1>1 DEF r
<1>7. CASE r.s = v /\ i.status = "ok" /\ (r.sent = {} \/ (r.sent = {p} /\ key # NoKey))
  BY ZenonT(30), <1>7, <1>3, <1>4, <1>5 DEF r, Tracks
<1> QED
  BY ZenonT(30), <1>2, <1>6, <1>7

(* The same for srtp_protect_rtcp, whose index is a counter.               *)
LEMMA ProtectRtcpTracks ==
    ASSUME cfg \in Configs, NEW s \in Sessions, NEW k \in Nat, NEW fault
    PROVE  LET r == srtp_protect_rtcp_mki(s, cfg.mki, k, fault)
           IN /\ r.s \in Sessions /\ r.s.stream.rdbx = s.stream.rdbx
              /\ s.stream.rdb.window_start <= r.s.stream.rdb.window_start
              /\ \A p \in r.sent : /\ p.kind = "rtcp" /\ WellFormed(p)
                                   /\ p.index = r.s.stream.rdb.window_start
                                   /\ p.index > s.stream.rdb.window_start
<1> DEFINE r == srtp_protect_rtcp_mki(s, cfg.mki, k, fault)
           t == [s EXCEPT !.known = TRUE]
           key == srtp_get_session_keys_with_mki_index(cfg.mki, k)
           inc == srtp_rdb_increment(s.stream.rdb)
           w == s.stream.rdb.window_start + 1
           p == IF Aead THEN [SealedRtcp(inc.rdb.window_start, key, cfg.mki) EXCEPT !.behind = 0]
                ELSE SealedRtcp(inc.rdb.window_start, key, cfg.mki)
           v == [t EXCEPT !.stream.rdb = inc.rdb]
<1>1. s.stream \in Streams /\ t \in Sessions /\ t.stream = s.stream
  BY ZenonT(30) DEF Sessions
<1>2. \/ r.s \in {s, t} /\ r.sent = {}
      \/ r.s = v /\ inc.ok /\ r.sent = {}
      \/ r.s = v /\ inc.ok /\ r.sent = {p} /\ key # NoKey
  <2> HIDE DEF t, key, inc
  <2>1. CASE Aead
    BY ZenonT(30), <2>1, <1>1 DEF srtp_protect_rtcp_mki, srtp_protect_rtcp_aead, Failed, Sent, t, key, inc
  <2>2. CASE ~ Aead
    BY Zenon, <2>2, <1>1 DEF srtp_protect_rtcp_mki, Failed, Sent, t, key, inc
  <2> HIDE DEF r, p, v
  <2> QED
    BY Zenon, <2>1, <2>2
<1>3. s.stream.rdb \in [window_start : Nat, bits : SUBSET (0..(RDB_BITS - 1))] /\ RDB_LAST \in Nat
  BY Zenon, <1>1, ReplayAssumption DEF Streams
<1>4. inc.ok => inc.rdb = [s.stream.rdb EXCEPT !.window_start = w] /\ w \in 1..RDB_LAST
  BY <1>3 DEF srtp_rdb_increment
<1>5. inc.ok => /\ inc.rdb \in [window_start : Nat, bits : SUBSET (0..(RDB_BITS - 1))]
                /\ inc.rdb.window_start = w
  BY <1>3, <1>4
<1>6. inc.ok /\ key # NoKey => p.kind = "rtcp" /\ p.index = w /\ WellFormed(p)
  <2> SUFFICES ASSUME inc.ok, key # NoKey
               PROVE  p.kind = "rtcp" /\ p.index = w /\ WellFormed(p)
    BY Zenon
  <2>1. key \in 1..cfg.keys /\ (~ cfg.mki => key = 1)
    BY Zenon, KeyIsValid
  <2> HIDE DEF inc, key, w
  <2>2. WellFormed(p)
    BY Zenon, <2>1, <1>4, <1>5, SealedRtcpWellFormed
  <2> QED
    BY Zenon, <2>2, <1>5 DEF SealedRtcp
<1>7. inc.ok => v \in Sessions /\ v.stream.rdb = inc.rdb /\ v.stream.rdbx = s.stream.rdbx
  <2> HIDE DEF inc
  <2> QED
    BY ZenonT(30), <1>1, <1>5 DEF Sessions, Streams
<1> HIDE DEF r, t, key, inc, p, v
<1>8. CASE r.s \in {s, t} /\ r.sent = {}
  BY SMTT(30), <1>8, <1>1, <1>3 DEF r
<1>9. CASE r.s = v /\ inc.ok /\ (r.sent = {} \/ (r.sent = {p} /\ key # NoKey))
  <2>1. s.stream.rdb.window_start <= w /\ w > s.stream.rdb.window_start
    BY SMTT(30), <1>3
  <2> HIDE DEF w
  <2> QED
    BY ZenonT(30), <1>9, <1>5, <1>6, <1>7, <2>1 DEF r
<1> QED
  BY Zenon, <1>2, <1>8, <1>9

----------------------------------------------------------------------------
(* Under one policy a packet stays well formed.                            *)
LEMMA WellFormedStays ==
    ASSUME cfg' = cfg
    PROVE  \A p : WellFormed(p)' <=> WellFormed(p)
BY DEF Aead, IsAead, WellFormed, Mki, stream_get_protect_trailer_length, srtp_inject_mki

(* What concerns the sender is untouched by the receiver's steps.          *)
LEMMA SenderStays ==
    ASSUME PacketIInv, cfg' = cfg, net' = net, reused' = reused, tx'.stream = tx.stream
    PROVE  SenderKeepsTrack' /\ IndexNotReused'
<1>1. \A p : WellFormed(p)' <=> WellFormed(p)
  BY Zenon, WellFormedStays
<1>2. SenderKeepsTrack'
  BY Zenon, <1>1 DEF PacketIInv, SenderKeepsTrack, Marked
<1> QED
  BY Zenon, <1>2 DEF PacketIInv, IndexNotReused

(* srtp_protect                                                            *)
LEMMA ProtectIInv ==
    ASSUME PacketIInv, NEW skip \in Skips, NEW k \in Nat, NEW fault, Protect(skip, k, fault)
    PROVE  PacketTypeOK' /\ SenderKeepsTrack' /\ IndexNotReused'
<1> DEFINE seq == (tx.stream.rdbx.index + skip) % SEQ_MAX
           r == srtp_protect_mki(tx, seq, cfg.mki, k, fault)
<1>0. cfg \in Configs /\ tx \in Sessions /\ tx.stream.rdbx.index \in Nat /\ tx.stream.rdbx.index < MaxIndex
  BY Zenon DEF PacketIInv, PacketTypeOK, Sessions, Streams, Protect
<1>1. seq \in 0..(SEQ_MAX - 1)
  <2>1. SEQ_MAX \in Nat /\ SEQ_MAX > 0 /\ skip \in Nat
    BY SMTT(30), ReplayAssumption, PacketAssumption
  <2> QED
    BY <2>1, <1>0
<1>2. /\ tx' = r.s /\ net' = net \cup r.sent
      /\ reused' = (reused \/ \E p \in r.sent, q \in net :
                       p.kind = q.kind /\ p.index = q.index /\ p.key = q.key)
      /\ UNCHANGED <<cfg, rx, got, again, garbled, told>>
  BY Zenon DEF Protect, Sends
<1> HIDE DEF seq
<1>3. /\ r.s \in Sessions /\ r.s.stream.rdb = tx.stream.rdb
      /\ \A i \in Nat : Marked(tx.stream.rdbx, i) => Marked(r.s.stream.rdbx, i)
      /\ \A p \in r.sent : /\ p.kind = "rtp" /\ WellFormed(p)
                           /\ Marked(r.s.stream.rdbx, p.index)
                           /\ ~ cfg.repeat => ~ Marked(tx.stream.rdbx, p.index)
  BY Zenon, <1>0, <1>1, ProtectTracks
<1> HIDE DEF r
<1>4. \A p : WellFormed(p)' <=> WellFormed(p)
  BY ZenonT(30), <1>2, WellFormedStays
<1>5. \A p : WellFormed(p) => p.kind \in {"rtp", "rtcp"} /\ p.index \in Nat /\ p.key \in 1..cfg.keys
  BY PacketAssumption, ReplayAssumption DEF WellFormed
<1>6. PacketTypeOK'
  <2>1. reused' \in BOOLEAN
    BY Zenon, <1>2 DEF PacketIInv, PacketTypeOK
  <2> QED
    BY Zenon, <2>1, <1>2, <1>3, <1>5 DEF PacketIInv, PacketTypeOK
<1>7. SenderKeepsTrack'
  <2> SUFFICES ASSUME NEW p \in net'
               PROVE  /\ WellFormed(p)
                      /\ p.kind = "rtp" => Marked(r.s.stream.rdbx, p.index)
                      /\ p.kind = "rtcp" => p.index <= r.s.stream.rdb.window_start
    BY Zenon, <1>2, <1>4 DEF SenderKeepsTrack, Marked
  <2>1. CASE p \in net
    BY ZenonT(30), <2>1, <1>3, <1>5 DEF PacketIInv, SenderKeepsTrack
  <2>2. CASE p \in r.sent
    BY Zenon, <2>2, <1>3
  <2> QED
    BY Zenon, <2>1, <2>2, <1>2
<1>8. IndexNotReused'
  <2>1. ~ cfg.repeat => \A p \in r.sent, q \in net : ~ (p.kind = q.kind /\ p.index = q.index)
    BY Zenon, <1>3 DEF PacketIInv, SenderKeepsTrack
  <2> QED
    BY ZenonT(30), <2>1, <1>2 DEF PacketIInv, IndexNotReused
<1> QED
  BY ZenonT(30), <1>6, <1>7, <1>8

(* srtp_protect_rtcp                                                       *)
LEMMA ProtectRtcpIInv ==
    ASSUME PacketIInv, NEW k \in Nat, NEW fault, ProtectRtcp(k, fault)
    PROVE  PacketTypeOK' /\ SenderKeepsTrack' /\ IndexNotReused'
<1> DEFINE r == srtp_protect_rtcp_mki(tx, cfg.mki, k, fault)
           w == tx.stream.rdb.window_start
<1>0. cfg \in Configs /\ tx \in Sessions /\ w \in Nat
  BY Zenon DEF PacketIInv, PacketTypeOK, Sessions, Streams
<1>2. /\ tx' = r.s /\ net' = net \cup r.sent
      /\ reused' = (reused \/ \E p \in r.sent, q \in net :
                       p.kind = q.kind /\ p.index = q.index /\ p.key = q.key)
      /\ UNCHANGED <<cfg, rx, got, again, garbled, told>>
  BY Zenon DEF ProtectRtcp, Sends
<1>3. /\ r.s \in Sessions /\ r.s.stream.rdbx = tx.stream.rdbx
      /\ w <= r.s.stream.rdb.window_start
      /\ \A p \in r.sent : /\ p.kind = "rtcp" /\ WellFormed(p)
                           /\ p.index = r.s.stream.rdb.window_start
                           /\ p.index > w
  BY Zenon, <1>0, ProtectRtcpTracks
<1> HIDE DEF r
<1>4. \A p : WellFormed(p)' <=> WellFormed(p)
  BY ZenonT(30), <1>2, WellFormedStays
<1>5. \A p : WellFormed(p) => p.kind \in {"rtp", "rtcp"} /\ p.index \in Nat /\ p.key \in 1..cfg.keys
  BY PacketAssumption, ReplayAssumption DEF WellFormed
<1>6. PacketTypeOK'
  <2>1. reused' \in BOOLEAN
    BY Zenon, <1>2 DEF PacketIInv, PacketTypeOK
  <2> QED
    BY Zenon, <2>1, <1>2, <1>3, <1>5 DEF PacketIInv, PacketTypeOK
<1>7. SenderKeepsTrack'
  <2> DEFINE w2 == r.s.stream.rdb.window_start
  <2> SUFFICES ASSUME NEW p \in net'
               PROVE  /\ WellFormed(p)
                      /\ p.kind = "rtp" => Marked(tx.stream.rdbx, p.index)
                      /\ p.kind = "rtcp" => p.index <= w2
    BY Zenon, <1>2, <1>3, <1>4 DEF SenderKeepsTrack, Marked
  <2>0. w2 \in Nat
    BY ZenonT(30), <1>3 DEF Sessions, Streams
  <2>1. CASE p \in net
    <3>1. WellFormed(p) /\ (p.kind = "rtp" => Marked(tx.stream.rdbx, p.index)) /\ (p.kind = "rtcp" => p.index <= w)
      BY Zenon, <2>1 DEF PacketIInv, SenderKeepsTrack
    <3>2. p.index \in Nat
      BY ZenonT(30), <3>1, <1>5
    <3> HIDE DEF w, w2
    <3> QED
      BY SMTT(30), <3>1, <3>2, <2>0, <1>0, <1>3 DEF w2
  <2>2. CASE p \in r.sent
    BY <2>2, <2>0, <1>3
  <2> QED
    BY Zenon, <2>1, <2>2, <1>2
<1>8. IndexNotReused'
  <2>1. \A p \in r.sent, q \in net : ~ (p.kind = q.kind /\ p.index = q.index)
    <3> SUFFICES ASSUME NEW p \in r.sent, NEW q \in net, p.kind = q.kind, p.index = q.index
                 PROVE  FALSE
      BY Zenon
    <3>1. q.kind = "rtcp" /\ p.index \in Nat /\ p.index > w
      BY Zenon, <1>3, <1>5
    <3>2. q.index <= w
      BY Zenon, <3>1 DEF PacketIInv, SenderKeepsTrack
    <3> HIDE DEF w
    <3> QED
      BY <3>1, <3>2, <1>0
  <2> QED
    BY ZenonT(30), <2>1, <1>2 DEF PacketIInv, IndexNotReused
<1> QED
  BY Zenon, <1>6, <1>7, <1>8

(* srtp_set_stream_roc of the sender.                                      *)
LEMMA SetRocTxIInv ==
    ASSUME PacketIInv, NEW roc \in Rocs, SetRocTx(roc)
    PROVE  PacketTypeOK' /\ SenderKeepsTrack' /\ IndexNotReused'
<1>1. tx' = srtp_set_stream_roc(tx, roc) /\ UNCHANGED <<cfg, rx, net, got, again, reused, garbled, told>>
  BY Zenon DEF SetRocTx
<1>2. tx' \in Sessions /\ tx'.stream.rdbx = tx.stream.rdbx /\ tx'.stream.rdb = tx.stream.rdb
  BY Zenon, <1>1 DEF srtp_set_stream_roc, PacketIInv, PacketTypeOK, Sessions, Streams
<1>3. PacketTypeOK'
  BY ZenonT(30), <1>1, <1>2 DEF PacketIInv, PacketTypeOK
<1>4. SenderKeepsTrack' /\ IndexNotReused'
  <2>1. \A p : WellFormed(p)' <=> WellFormed(p)
    BY Zenon, <1>1, WellFormedStays
  <2> QED
    BY Zenon, <1>1, <1>2, <2>1 DEF PacketIInv, SenderKeepsTrack, IndexNotReused, Marked
<1> QED
  BY Zenon, <1>3, <1>4

LEMMA CountingOnIsSent ==
    ASSUME PacketIInv, tx.known, tx.stream.pending_roc = 0
    PROVE  srtp_protect_mki(tx, (tx.stream.rdbx.index + 1) % SEQ_MAX, cfg.mki, 0, "none").status = "ok"
<1> DEFINE t == [tx EXCEPT !.known = TRUE]
           r == tx.stream.rdbx
           seq == SeqOf(r.index + 1)
           f == srtp_rdbx_estimate_index(r, seq)
           key == srtp_get_session_keys_with_mki_index(cfg.mki, 0)
<1>0. r.index \in Nat /\ tx \in Sessions
  BY Zenon DEF PacketIInv, PacketTypeOK, Sessions, Streams
<1>1. t.stream = tx.stream /\ t.stream.rdbx = r
  BY Zenon, <1>0 DEF Sessions
<1>3. srtp_rdbx_check(r, f.delta) = "ok"
  <2> HIDE DEF r
  <2> QED
    BY Zenon, <1>0, NextIsFound
<1>4. key # NoKey
  BY SMTT(30), PacketAssumption DEF PacketIInv, PacketTypeOK, srtp_get_session_keys_with_mki_index, NoKey
<1> HIDE DEF key, t, f, seq, r
<1>5. SendIndex(t.stream, seq).status = "ok" /\ SendIndexAead(t.stream, seq).status = "ok"
  BY Zenon, <1>1, <1>3 DEF SendIndex, SendIndexAead, srtp_get_est_pkt_index, f
<1>6. srtp_protect_mki(tx, seq, cfg.mki, 0, "none").status = "ok"
  <2>1. CASE Aead
    BY Zenon, <2>1, <1>4, <1>5 DEF srtp_protect_mki, srtp_protect_aead, Failed, Sent, t, key
  <2>2. CASE ~ Aead
    BY Zenon, <2>2, <1>4, <1>5 DEF srtp_protect_mki, Failed, Sent, t, key
  <2> QED
    BY Zenon, <2>1, <2>2
<1> QED
  BY Zenon, <1>6 DEF seq, SeqOf, r
=============================================================================
