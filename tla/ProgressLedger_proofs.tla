------------------------ MODULE ProgressLedger_proofs ------------------------
(* What the ledger promises, for every set of events and requests. *)
EXTENDS ProgressLedger, SequenceTheorems, TLAPS

\* A history that replayed still replays when the next event continues it.
LEMMA LongerReplays ==
  ASSUME NEW h \in Seq(Events), NEW e \in Events, Replays(h),
         Follows(Contract(h), e),
         \A i \in DOMAIN h : ~SameRequest(h[i], e)
  PROVE  Replays(Append(h, e))
<1> DEFINE l == Append(h, e)
<1>1. /\ l \in Seq(Events) /\ Len(l) = Len(h) + 1 /\ l[Len(h) + 1] = e
      /\ \A i \in 1..Len(h) : l[i] = h[i]
  BY AppendProperties
<1>2. \A n \in 0..Len(h) : SubSeq(l, 1, n) = SubSeq(h, 1, n)
  BY <1>1
<1>3. SubSeq(h, 1, Len(h)) = h
  OBVIOUS
<1>4. ASSUME NEW i \in DOMAIN l
      PROVE  /\ Follows(Contract(SubSeq(l, 1, i - 1)), l[i])
             /\ \A j \in 1..(i - 1) : ~SameRequest(l[j], l[i])
  <2>1. CASE i \in 1..Len(h)
    <3>1. SubSeq(l, 1, i - 1) = SubSeq(h, 1, i - 1)
      BY <1>2, <2>1
    <3>2. \A j \in 1..(i - 1) : l[j] = h[j]
      BY <1>1, <2>1
    <3>3. i \in DOMAIN h /\ l[i] = h[i]
      BY <1>1, <2>1
    <3> QED
      BY <3>1, <3>2, <3>3 DEF Replays
  <2>2. CASE i = Len(h) + 1
    <3>1. SubSeq(l, 1, i - 1) = h
      BY <1>2, <1>3, <2>2
    <3>2. \A j \in 1..(i - 1) : l[j] = h[j] /\ j \in DOMAIN h
      BY <1>1, <2>2
    <3> QED
      BY <1>1, <2>2, <3>1, <3>2
  <2> QED
    BY <1>1, <2>1, <2>2
<1> QED
  BY <1>4 DEF Replays

\* So does any beginning of it.
LEMMA ShorterReplays ==
  ASSUME NEW h \in Seq(Events), NEW n \in 0..Len(h), Replays(h)
  PROVE  Replays(SubSeq(h, 1, n)) /\ SubSeq(h, 1, n) \in Seq(Events)
<1> DEFINE s == SubSeq(h, 1, n)
<1>1. s \in Seq(Events) /\ Len(s) = n /\ \A i \in 1..n : s[i] = h[i]
  OBVIOUS
<1>2. ASSUME NEW i \in DOMAIN s
      PROVE  /\ Follows(Contract(SubSeq(s, 1, i - 1)), s[i])
             /\ \A j \in 1..(i - 1) : ~SameRequest(s[j], s[i])
  <2>1. i \in 1..n /\ i \in DOMAIN h
    BY <1>1
  <2>2. SubSeq(s, 1, i - 1) = SubSeq(h, 1, i - 1)
    BY <1>1, <2>1
  <2>3. s[i] = h[i] /\ \A j \in 1..(i - 1) : s[j] = h[j]
    BY <1>1, <2>1
  <2> QED
    BY <2>1, <2>2, <2>3 DEF Replays
<1> QED
  BY <1>1, <1>2 DEF Replays

Inv == TypeOK /\ HistoryReplays /\ ToldIsKept

\* The store promises a history that always replays, with each request in it
\* at most once, and that never loses what a caller was told.
THEOREM LedgerKeepsItsPromise ==
  ASSUME \A h \in Starts : h \in Seq(Events) /\ Replays(h)
  PROVE  Spec => [](HistoryReplays /\ ToldIsKept)
<1>1. Init => Inv
  BY DEF Init, Inv, TypeOK, HistoryReplays, ToldIsKept, Listed
<1>2. Inv /\ [Next]_vars => Inv'
  <2> SUFFICES ASSUME Inv, [Next]_vars PROVE Inv'
    OBVIOUS
  <2> USE DEF Inv
  <2>1. ASSUME NEW e \in Events, Commit(e) PROVE Inv'
    <3>1. HistoryReplays'
      BY <2>1, LongerReplays DEF Commit, HistoryReplays, TypeOK
    <3>2. TypeOK'
      BY <2>1 DEF Commit, TypeOK
    <3>3. \A i \in DOMAIN history : i \in DOMAIN history' /\ history'[i] = history[i]
      BY <2>1, AppendProperties DEF Commit, TypeOK
    <3>4. ToldIsKept'
      BY <2>1, <3>3 DEF Commit, ToldIsKept, Listed
    <3> QED
      BY <3>1, <3>2, <3>4
  <2>2. ASSUME NEW e \in Events, Tell(e) PROVE Inv'
    BY <2>2 DEF Tell, TypeOK, HistoryReplays, ToldIsKept, Listed
  <2>3. ASSUME NEW n \in 0..Len(history), Lose(n) PROVE Inv'
    <3>1. Replays(history') /\ history' \in Seq(Events)
      BY <2>3, ShorterReplays DEF Lose, HistoryReplays, TypeOK
    <3> QED
      BY <2>3, <3>1 DEF Lose, TypeOK, HistoryReplays, ToldIsKept
  <2>4. CASE UNCHANGED vars
    BY <2>4 DEF vars, TypeOK, HistoryReplays, ToldIsKept, Listed
  <2> QED
    BY <2>1, <2>2, <2>3, <2>4 DEF Next
<1> QED
  BY <1>1, <1>2, PTL DEF Spec, Inv

=============================================================================
