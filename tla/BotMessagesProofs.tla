------------------------- MODULE BotMessagesProofs -------------------------
(* Proofs about the message monitor. *)
EXTENDS BotMessages, SequenceTheorems, TLAPS

(***************************************************************************)
(* The inductive invariant.  The buffer holds the newest messages, without *)
(* a gap; so a last_pushed_id that has left it is older than all it holds, *)
(* which is why sending the whole buffer then repeats nothing.             *)
(***************************************************************************)
Pos == Nat \ {0}

Types ==
    /\ Len(buf) <= Cap /\ pushed <= MaxMsgs
    /\ buf \in Seq(Pos) /\ pushed \in Nat
    /\ pc \in [Subs -> {"new", "sending", "waiting", "woken", "beating", "closed"}]
    /\ last \in [Subs -> Nat]
    /\ batch \in [Subs -> Seq(Pos)] /\ got \in [Subs -> Seq(Pos)]

\* b is a run of messages that ends with the newest.
Newest(b) == Len(b) <= pushed /\ \A i \in 1..Len(b) : b[i] = pushed - Len(b) + i

Increasing(r) == \A i, j \in 1..Len(r) : i < j => r[i] < r[j]

\* What a session has sent is older than last_pushed_id, or that message.
Sound(s) ==
    /\ last[s] <= pushed
    /\ pc[s] = "new" => got[s] = <<>> /\ last[s] = 0
    /\ pc[s] # "sending" => batch[s] = <<>>
    /\ Increasing(got[s] \o batch[s])
    /\ \A i \in 1..Len(got[s] \o batch[s]) : (got[s] \o batch[s])[i] <= last[s]

(* What is appended keeps the buffer a run that ends with the newest.       *)
LEMMA AppendedNewest ==
    ASSUME CapAssumption, NEW b \in Seq(Pos), NEW m \in Nat, Len(b) <= m, Len(b) <= Cap,
           \A i \in 1..Len(b) : b[i] = m - Len(b) + i,
           NEW n, n = m + 1, NEW c, c = Appended(b, n)
    PROVE  c \in Seq(Pos) /\ Len(c) <= Cap /\ Len(c) <= n /\ \A i \in 1..Len(c) : c[i] = n - Len(c) + i
<1>0. Len(b) \in Nat /\ Cap \in Nat /\ Cap > 0
  BY LenProperties DEF CapAssumption
<1>1. CASE Len(b) < Cap
  <2> DEFINE a == Append(b, n)
  <2>1. c = a
    BY <1>1 DEF Appended
  <2>2. /\ a \in Seq(Pos) /\ Len(a) = Len(b) + 1
        /\ \A i \in 1..Len(b) : a[i] = b[i]
        /\ a[Len(b) + 1] = n
    <3>1. n \in Pos
      BY DEF Pos
    <3> QED
      BY <3>1, AppendProperties
  <2> HIDE DEF a
  <2>3. ASSUME NEW i \in 1..Len(a) PROVE a[i] = n - Len(a) + i
    <3>1. CASE i = Len(b) + 1
      BY <1>0, <2>2, <3>1
    <3>2. CASE i # Len(b) + 1
      <4>1. i \in 1..Len(b)
        BY <1>0, <2>2, <3>2
      <4> QED
        BY <1>0, <2>2, <4>1
    <3> QED
      BY <3>1, <3>2
  <2>4. Len(a) <= Cap /\ Len(a) <= n
    BY <1>0, <1>1, <2>2
  <2>5. a \in Seq(Pos)
    BY <2>2
  <2> QED
    BY <2>1, <2>3, <2>4, <2>5
<1>2. CASE ~(Len(b) < Cap)
  <2> DEFINE t == Tail(b)
             a == Append(t, n)
  <2>1. c = a
    BY <1>2 DEF Appended
  <2>2. b # <<>>
    BY <1>0, <1>2
  <2>3. t \in Seq(Pos) /\ Len(t) = Len(b) - 1 /\ \A i \in 1..Len(t) : t[i] = b[i + 1]
    BY <2>2, HeadTailProperties
  <2>4. \A i \in 1..Len(t) : t[i] = m - Len(t) + i
    BY <1>0, <2>3
  <2>5. /\ a \in Seq(Pos) /\ Len(a) = Len(t) + 1
        /\ \A i \in 1..Len(t) : a[i] = t[i]
        /\ a[Len(t) + 1] = n
    <3>1. n \in Pos
      BY DEF Pos
    <3> QED
      BY <2>3, <3>1, AppendProperties
  <2> HIDE DEF t, a
  <2>6. ASSUME NEW i \in 1..Len(a) PROVE a[i] = n - Len(a) + i
    <3>1. CASE i = Len(t) + 1
      BY <1>0, <2>3, <2>5, <3>1
    <3>2. CASE i # Len(t) + 1
      <4>1. i \in 1..Len(t)
        BY <1>0, <2>3, <2>5, <3>2
      <4> QED
        BY <1>0, <2>3, <2>4, <2>5, <4>1
    <3> QED
      BY <3>1, <3>2
  <2>7. Len(a) <= Cap /\ Len(a) <= n
    BY <1>0, <2>3, <2>5
  <2>8. a \in Seq(Pos)
    BY <2>5
  <2> QED
    BY <2>1, <2>6, <2>7, <2>8
<1> QED
  BY <1>1, <1>2

(* Appending brings the new message only.                                   *)
LEMMA AppendedElems ==
    ASSUME NEW b \in Seq(Pos), NEW m \in Pos, CapAssumption
    PROVE  Elems(Appended(b, m)) \subseteq Elems(b) \cup {m}
<1>0. Len(b) \in Nat /\ DOMAIN b = 1..Len(b)
  BY LenProperties
<1>1. CASE Len(b) < Cap
  <2> DEFINE a == Append(b, m)
  <2>1. Appended(b, m) = a
    BY <1>1 DEF Appended
  <2>2. /\ a \in Seq(Pos) /\ Len(a) = Len(b) + 1 /\ a[Len(b) + 1] = m
        /\ \A i \in 1..Len(b) : a[i] = b[i]
    BY AppendProperties
  <2> HIDE DEF a
  <2>3. DOMAIN a = 1..Len(a)
    BY <2>2, LenProperties
  <2>4. ASSUME NEW i \in 1..Len(a) PROVE a[i] \in Elems(b) \cup {m}
    <3>1. i = Len(b) + 1 \/ i \in 1..Len(b)
      BY <1>0, <2>2
    <3> QED
      BY <1>0, <2>2, <3>1 DEF Elems
  <2> QED
    BY <2>1, <2>3, <2>4 DEF Elems
<1>2. CASE ~(Len(b) < Cap)
  <2> DEFINE t == Tail(b)
             a == Append(t, m)
  <2>1. Appended(b, m) = a
    BY <1>2 DEF Appended
  <2>2. b # <<>>
    BY <1>0, <1>2 DEF CapAssumption
  <2>3. t \in Seq(Pos) /\ Len(t) = Len(b) - 1 /\ \A i \in 1..Len(t) : t[i] = b[i + 1]
    BY <2>2, HeadTailProperties
  <2>4. /\ a \in Seq(Pos) /\ Len(a) = Len(t) + 1 /\ a[Len(t) + 1] = m
        /\ \A i \in 1..Len(t) : a[i] = t[i]
    BY <2>3, AppendProperties
  <2> HIDE DEF t, a
  <2>5. DOMAIN a = 1..Len(a)
    BY <2>4, LenProperties
  <2>6. ASSUME NEW i \in 1..Len(a) PROVE a[i] \in Elems(b) \cup {m}
    <3>1. i = Len(t) + 1 \/ i \in 1..Len(t)
      BY <1>0, <2>3, <2>4
    <3>2. i \in 1..Len(t) => i + 1 \in 1..Len(b)
      BY <1>0, <2>3
    <3>3. i \in 1..Len(t) => a[i] = b[i + 1]
      BY <2>3, <2>4
    <3> QED
      BY <1>0, <2>4, <3>1, <3>2, <3>3 DEF Elems
  <2> QED
    BY <2>1, <2>5, <2>6 DEF Elems
<1> QED
  BY <1>1, <1>2

(* What is new for a session is a run that ends with the newest, and newer  *)
(* than the message it pushed last.                                         *)
LEMMA NewIsNewer ==
    ASSUME NEW b \in Seq(Pos), NEW m \in Nat, NEW l \in Nat, l <= m, Len(b) <= m,
           \A i \in 1..Len(b) : b[i] = m - Len(b) + i
    PROVE  LET n == NewMsgs(b, l)
           IN  /\ n \in Seq(Pos) /\ Len(n) <= m
               /\ \A i \in 1..Len(n) : n[i] = m - Len(n) + i /\ n[i] > l
               /\ IF l \in Elems(b) THEN Len(n) = m - l ELSE n = b
<1>0. DOMAIN b = 1..Len(b)
  BY LenProperties
<1>3. Len(b) \in Nat
  BY LenProperties
<1>1. CASE l \in Elems(b)
  <2> DEFINE i == CHOOSE j \in DOMAIN b : b[j] = l
             n == SubSeq(b, i + 1, Len(b))
  <2>1. i \in 1..Len(b) /\ b[i] = l
    BY <1>0, <1>1 DEF Elems
  <2>2. NewMsgs(b, l) = n
    BY <1>1 DEF NewMsgs, AfterMsg
  <2> HIDE DEF i
  <2>3. i \in Nat /\ 1 <= i /\ i <= Len(b) /\ l = m - Len(b) + i
    <3>1. b[i] = m - Len(b) + i
      BY <2>1
    <3> QED
      BY <1>3, <2>1, <3>1
  <2>4. \A j \in i + 1 .. Len(b) : b[j] \in Pos
    BY <1>3, <2>3, ElementOfSeq
  <2>5. /\ n \in Seq(Pos) /\ Len(n) = (IF i + 1 <= Len(b) THEN Len(b) - (i + 1) + 1 ELSE 0)
        /\ \A j \in 1..Len(b) - (i + 1) + 1 : n[j] = b[i + 1 + j - 1]
    <3>1. i + 1 \in Int /\ Len(b) \in Int
      BY <1>3, <2>3
    <3> QED
      BY <2>4, <3>1, SubSeqProperties
  <2> HIDE DEF n
  <2>6. Len(n) = Len(b) - i
    <3>1. CASE i + 1 <= Len(b)
      BY <1>3, <2>3, <2>5, <3>1
    <3>2. CASE ~(i + 1 <= Len(b))
      BY <1>3, <2>3, <2>5, <3>2
    <3> QED
      BY <3>1, <3>2
  <2>7. ASSUME NEW j \in 1..Len(n) PROVE n[j] = m - Len(n) + j /\ n[j] > l
    <3>1. j \in Nat /\ 1 <= j /\ j <= Len(b) - i
      BY <1>3, <2>3, <2>6
    <3>2. j \in 1..Len(b) - (i + 1) + 1 /\ i + 1 + j - 1 = i + j /\ i + j \in 1..Len(b)
      BY <1>3, <2>3, <3>1
    <3>3. n[j] = b[i + j] /\ b[i + j] = m - Len(b) + (i + j)
      BY <2>5, <3>2
    <3> QED
      BY <1>3, <2>3, <2>6, <3>1, <3>3
  <2>8. Len(n) <= m /\ Len(n) = m - l
    BY <1>3, <2>3, <2>6
  <2> QED
    BY <1>1, <2>2, <2>5, <2>7, <2>8
<1>2. CASE l \notin Elems(b)
  <2>1. NewMsgs(b, l) = b
    BY <1>2 DEF NewMsgs
  <2>2. ASSUME NEW i \in 1..Len(b) PROVE b[i] > l
    <3>1. SUFFICES ASSUME b[i] <= l PROVE FALSE
      BY <1>3
    <3>2. l - (m - Len(b)) \in 1..Len(b) /\ b[l - (m - Len(b))] = l
      BY <1>3, <3>1
    <3> QED
      BY <1>0, <1>2, <3>2 DEF Elems
  <2> QED
    BY <1>2, <1>3, <2>1, <2>2
<1> QED
  BY <1>1, <1>2

(* All that is newer than the message a session pushed last is new for it.  *)
LEMMA NewIsAll ==
    ASSUME NEW b \in Seq(Pos), NEW m \in Nat, NEW l \in Nat, l <= m, Len(b) <= m,
           \A i \in 1..Len(b) : b[i] = m - Len(b) + i,
           NEW e \in Elems(b), e > l
    PROVE  e \in Elems(NewMsgs(b, l))
<1> DEFINE n == NewMsgs(b, l)
<1>1. /\ n \in Seq(Pos)
      /\ \A i \in 1..Len(n) : n[i] = m - Len(n) + i
      /\ IF l \in Elems(b) THEN Len(n) = m - l ELSE n = b
  BY NewIsNewer
<1> HIDE DEF n
<1>2. CASE l \in Elems(b)
  <2>1. Len(b) \in Nat /\ DOMAIN b = 1..Len(b)
    BY LenProperties
  <2>2. PICK i \in 1..Len(b) : e = b[i]
    BY <2>1 DEF Elems
  <2>3. e \in Nat /\ e <= m
    BY <2>1, <2>2
  <2> DEFINE k == e - l
  <2>7. Len(n) = m - l
    BY <1>1, <1>2
  <2>4. k \in 1..Len(n) /\ m - Len(n) + k = e
    BY <2>3, <2>7
  <2> HIDE DEF k
  <2>5. n[k] = e
    BY <1>1, <2>4
  <2>6. DOMAIN n = 1..Len(n)
    BY <1>1, LenProperties
  <2> QED
    BY <2>4, <2>5, <2>6 DEF Elems, n
<1>3. CASE l \notin Elems(b)
  BY <1>1, <1>3 DEF n
<1> QED
  BY <1>2, <1>3

(* A run of newer messages after what was sent is in order, ends with the   *)
(* newest, and keeps what there is.                                         *)
LEMMA SentOn ==
    ASSUME NEW g \in Seq(Pos), NEW n \in Seq(Pos), NEW l \in Nat, NEW m \in Nat, l <= m,
           Increasing(g), \A i \in 1..Len(g) : g[i] <= l,
           \A i \in 1..Len(n) : n[i] = m - Len(n) + i /\ n[i] > l
    PROVE  /\ Increasing(g \o n)
           /\ \A i \in 1..Len(g \o n) : (g \o n)[i] <= m
           /\ Elems(g \o n) = Elems(g) \cup Elems(n)
<1> DEFINE r == g \o n
<1>1. Len(g) \in Nat /\ Len(n) \in Nat
  BY LenProperties
<1>2. /\ r \in Seq(Pos) /\ Len(r) = Len(g) + Len(n)
      /\ \A i \in 1..Len(g) + Len(n) : r[i] = IF i <= Len(g) THEN g[i] ELSE n[i - Len(g)]
  BY ConcatProperties
<1>3. (\A i \in 1..Len(g) : g[i] \in Nat) /\ (\A i \in 1..Len(n) : n[i] \in Nat)
  BY ElementOfSeq DEF Pos
<1>4. DOMAIN g = 1..Len(g) /\ DOMAIN n = 1..Len(n)
  BY LenProperties
<1>5. DOMAIN r = 1..Len(r)
  BY <1>2, LenProperties
<1> HIDE DEF r
<1>6. ASSUME NEW i \in 1..Len(r), NEW j \in 1..Len(r), i < j PROVE r[i] < r[j]
  <2>1. CASE j <= Len(g)
    <3>1. i \in 1..Len(g) /\ j \in 1..Len(g) /\ r[i] = g[i] /\ r[j] = g[j]
      BY <1>1, <1>2, <1>6, <2>1
    <3> QED
      BY <1>6, <3>1 DEF Increasing
  <2>2. CASE i <= Len(g) /\ ~(j <= Len(g))
    <3>1. i \in 1..Len(g) /\ j - Len(g) \in 1..Len(n) /\ r[i] = g[i] /\ r[j] = n[j - Len(g)]
      BY <1>1, <1>2, <1>6, <2>2
    <3>2. g[i] <= l /\ n[j - Len(g)] > l /\ g[i] \in Nat /\ n[j - Len(g)] \in Nat
      BY <1>3, <3>1
    <3> QED
      BY <3>1, <3>2
  <2>3. CASE ~(i <= Len(g))
    <3>1. /\ i - Len(g) \in 1..Len(n) /\ j - Len(g) \in 1..Len(n)
          /\ r[i] = n[i - Len(g)] /\ r[j] = n[j - Len(g)]
      BY <1>1, <1>2, <1>6, <2>3
    <3>2. n[i - Len(g)] = m - Len(n) + (i - Len(g)) /\ n[j - Len(g)] = m - Len(n) + (j - Len(g))
      BY <3>1
    <3> QED
      BY <1>1, <1>2, <1>6, <3>1, <3>2
  <2> QED
    BY <1>1, <1>2, <1>6, <2>1, <2>2, <2>3
<1>7. ASSUME NEW i \in 1..Len(r) PROVE r[i] <= m
  <2>1. CASE i <= Len(g)
    <3>1. i \in 1..Len(g) /\ r[i] = g[i]
      BY <1>1, <1>2, <2>1
    <3>2. g[i] <= l /\ g[i] \in Nat
      BY <1>3, <3>1
    <3> QED
      BY <3>1, <3>2
  <2>2. CASE ~(i <= Len(g))
    <3>1. i - Len(g) \in 1..Len(n) /\ r[i] = n[i - Len(g)]
      BY <1>1, <1>2, <2>2
    <3>2. n[i - Len(g)] = m - Len(n) + (i - Len(g))
      BY <3>1
    <3> QED
      BY <1>1, <1>2, <3>1, <3>2
  <2> QED
    BY <2>1, <2>2
<1>8. Elems(r) \subseteq Elems(g) \cup Elems(n)
  <2> SUFFICES ASSUME NEW i \in 1..Len(r) PROVE r[i] \in Elems(g) \cup Elems(n)
    BY <1>5 DEF Elems
  <2>1. CASE i <= Len(g)
    <3>1. i \in 1..Len(g) /\ r[i] = g[i]
      BY <1>1, <1>2, <2>1
    <3> QED
      BY <1>4, <3>1 DEF Elems
  <2>2. CASE ~(i <= Len(g))
    <3>1. i - Len(g) \in 1..Len(n) /\ r[i] = n[i - Len(g)]
      BY <1>1, <1>2, <2>2
    <3> QED
      BY <1>4, <3>1 DEF Elems
  <2> QED
    BY <2>1, <2>2
<1>9. Elems(g) \subseteq Elems(r)
  <2> SUFFICES ASSUME NEW i \in 1..Len(g) PROVE g[i] \in Elems(r)
    BY <1>4 DEF Elems
  <2>1. i \in 1..Len(r) /\ r[i] = g[i]
    BY <1>1, <1>2
  <2> QED
    BY <1>5, <2>1 DEF Elems
<1>10. Elems(n) \subseteq Elems(r)
  <2> SUFFICES ASSUME NEW i \in 1..Len(n) PROVE n[i] \in Elems(r)
    BY <1>4 DEF Elems
  <2> DEFINE k == Len(g) + i
  <2>0. k \in 1..Len(g) + Len(n) /\ ~(k <= Len(g)) /\ k - Len(g) = i
    BY <1>1
  <2> HIDE DEF k
  <2>1. k \in 1..Len(r) /\ r[k] = n[i]
    BY <1>2, <2>0
  <2> QED
    BY <1>5, <2>1 DEF Elems
<1> QED
  BY <1>6, <1>7, <1>8, <1>9, <1>10 DEF Increasing, r

(* A session that a step leaves alone, or moves without sending anything,   *)
(* stays sound.                                                             *)
LEMMA SoundStays ==
    ASSUME NEW s, Sound(s), pushed \in Nat, pushed' \in Nat, pushed <= pushed', last[s] \in Nat,
           last'[s] = last[s], batch'[s] = batch[s], got'[s] = got[s],
           pc'[s] = "new" => pc[s] = "new",
           pc'[s] # "sending" => pc[s] # "sending"
    PROVE  Sound(s)'
<1> DEFINE r == got[s] \o batch[s]
<1>1. r' = r
  OBVIOUS
<1>2. Increasing(r) /\ (\A i \in 1..Len(r) : r[i] <= last[s])
  BY DEF Sound
<1> HIDE DEF r
<1>3. Increasing(r)' /\ \A i \in 1..Len(r') : r'[i] <= last'[s]
  BY <1>1, <1>2 DEF Increasing
<1>4. last'[s] <= pushed'
  BY DEF Sound
<1>5. /\ pc'[s] = "new" => got'[s] = <<>> /\ last'[s] = 0
      /\ pc'[s] # "sending" => batch'[s] = <<>>
  BY DEF Sound
<1> QED
  BY <1>3, <1>4, <1>5 DEF Sound, r

(* What is sent in a step follows on what was.                              *)
LEMMA SoundSends ==
    ASSUME Types, Types', Newest(buf), NEW s \in Subs, Sound(s),
           pc[s] # "sending", pc'[s] = "sending", pushed' = pushed, got' = got,
           NEW n \in Seq(Pos), batch'[s] = n, Len(n) <= pushed,
           \A i \in 1..Len(n) : n[i] = pushed - Len(n) + i /\ n[i] > last[s],
           last'[s] = IF n = <<>> THEN last[s] ELSE n[Len(n)]
    PROVE  Sound(s)' /\ Elems(got'[s] \o batch'[s]) = Elems(got[s] \o batch[s]) \cup Elems(n)
<1> DEFINE g == got[s]
<1>1. g \in Seq(Pos) /\ batch[s] = <<>> /\ got[s] \o batch[s] = g
  BY ConcatEmptySeq DEF Types, Sound
<1>2. Increasing(g) /\ (\A i \in 1..Len(g) : g[i] <= last[s]) /\ last[s] \in Nat /\ last[s] <= pushed
      /\ pushed \in Nat
  BY <1>1 DEF Sound, Types
<1>3. /\ Increasing(g \o n) /\ \A i \in 1..Len(g \o n) : (g \o n)[i] <= pushed
      /\ Elems(g \o n) = Elems(g) \cup Elems(n)
  BY <1>1, <1>2, SentOn
<1>4. got'[s] \o batch'[s] = g \o n
  OBVIOUS
<1>5. CASE n = <<>>
  <2>1. g \o n = g /\ last'[s] = last[s]
    BY <1>1, <1>5, ConcatEmptySeq
  <2>2. Increasing(got'[s] \o batch'[s]) /\ \A i \in 1..Len(got'[s] \o batch'[s]) : (got'[s] \o batch'[s])[i] <= last'[s]
    BY <1>2, <1>4, <2>1
  <2> QED
    BY <1>1, <1>2, <1>3, <1>4, <2>1, <2>2 DEF Sound, Increasing
<1>6. CASE n # <<>>
  <2>1. Len(n) \in Nat /\ Len(n) \in 1..Len(n)
    BY <1>6, EmptySeq
  <2>2. last'[s] = pushed
    BY <1>2, <1>6, <2>1
  <2>3. Increasing(got'[s] \o batch'[s]) /\ \A i \in 1..Len(got'[s] \o batch'[s]) : (got'[s] \o batch'[s])[i] <= last'[s]
    BY <1>3, <1>4, <2>2
  <2> QED
    BY <1>1, <1>2, <1>3, <1>4, <2>2, <2>3 DEF Sound, Increasing
<1> QED
  BY <1>5, <1>6

(* What a session may read of the buffer and has not skipped.               *)
Kept(s) ==
    \A m \in Elems(buf) : m <= last[s] /\ pc[s] # "closed" => m \in Elems(got[s] \o batch[s])

LEMMA KeptStays ==
    ASSUME NEW s, Kept(s), last'[s] = last[s], batch'[s] = batch[s], got'[s] = got[s],
           pc'[s] # "closed" => pc[s] # "closed",
           \A m \in Elems(buf') : m <= last[s] => m \in Elems(buf)
    PROVE  Kept(s)'
<1> DEFINE r == got[s] \o batch[s]
<1>1. r' = r
  OBVIOUS
<1>2. \A m \in Elems(buf) : m <= last[s] /\ pc[s] # "closed" => m \in Elems(r)
  BY DEF Kept
<1> HIDE DEF r
<1>3. Elems(r)' = Elems(r) /\ Elems(buf)' = Elems(buf')
  BY <1>1 DEF Elems
<1> SUFFICES ASSUME NEW m \in Elems(buf'), m <= last[s], pc'[s] # "closed" PROVE m \in Elems(r)
  BY <1>3 DEF Kept, r
<1> QED
  BY <1>2

Inductive == Types /\ Newest(buf) /\ \A s \in Subs : Sound(s) /\ Kept(s)

LEMMA PushKeeps ==
    ASSUME CapAssumption, Inductive, Push PROVE Inductive'
<1>1. /\ buf \in Seq(Pos) /\ pushed \in Nat /\ pushed + 1 \in Pos /\ Len(buf) <= Cap
      /\ Len(buf) <= pushed /\ \A i \in 1..Len(buf) : buf[i] = pushed - Len(buf) + i
  BY DEF Inductive, Types, Newest, Pos
<1>2. pushed' = pushed + 1 /\ buf' = Appended(buf, pushed + 1) /\ pushed' <= MaxMsgs
  BY <1>1 DEF Push, CapAssumption
<1>3. /\ buf' \in Seq(Pos) /\ Len(buf') <= Cap /\ Len(buf') <= pushed'
      /\ \A i \in 1..Len(buf') : buf'[i] = pushed' - Len(buf') + i
  <2> HIDE DEF Inductive, Push
  <2> QED
    BY <1>1, <1>2, AppendedNewest
<1>4. Elems(buf') \subseteq Elems(buf) \cup {pushed + 1}
  BY <1>1, <1>2, AppendedElems
<1>5. Types'
  BY <1>1, <1>2, <1>3 DEF Inductive, Types, Push, Woken
<1>6. Newest(buf)'
  BY <1>3 DEF Newest
<1>7. ASSUME NEW s \in Subs PROVE Sound(s)' /\ Kept(s)'
  <2>1. /\ last'[s] = last[s] /\ batch'[s] = batch[s] /\ got'[s] = got[s] /\ last[s] \in Nat
        /\ Sound(s) /\ Kept(s)
    BY DEF Push, Inductive, Types
  <2>2. /\ pc'[s] = "new" => pc[s] = "new"
        /\ pc'[s] # "sending" => pc[s] # "sending"
        /\ pc'[s] # "closed" => pc[s] # "closed"
    BY DEF Push, Woken
  <2>3. Sound(s)'
    <3>1. pushed' \in Nat /\ pushed <= pushed'
      BY <1>1, <1>2
    <3> QED
      BY <1>1, <2>1, <2>2, <3>1, SoundStays
  <2>4. ASSUME NEW m \in Elems(buf'), m <= last[s] PROVE m \in Elems(buf)
    <3>1. last[s] <= pushed
      BY <2>1 DEF Sound
    <3> QED
      BY <1>1, <1>4, <2>1, <2>4, <3>1
  <2> QED
    BY <2>1, <2>2, <2>3, <2>4, KeptStays
<1> QED
  BY <1>5, <1>6, <1>7 DEF Inductive

LEMMA CleanupKeeps ==
    ASSUME CapAssumption, Inductive, Cleanup PROVE Inductive'
<1>1. buf' = <<>> /\ Len(buf') = 0 /\ Elems(buf') = {} /\ pushed' = pushed /\ pc' = pc
      /\ last' = last /\ batch' = batch /\ got' = got
  BY DEF Cleanup, Elems
<1>2. Types'
  BY <1>1 DEF Inductive, Types, CapAssumption
<1>3. Newest(buf)'
  BY <1>1 DEF Inductive, Types, Newest
<1>4. ASSUME NEW s \in Subs PROVE Sound(s)' /\ Kept(s)'
  <2>1. pushed \in Nat /\ pushed' \in Nat /\ pushed <= pushed' /\ last[s] \in Nat /\ Sound(s) /\ Kept(s)
    BY <1>1 DEF Inductive, Types
  <2> QED
    BY <1>1, <2>1, SoundStays, KeptStays
<1> QED
  BY <1>2, <1>3, <1>4 DEF Inductive

(* A step of session s that keeps buf and pushed is settled by what it does *)
(* to s.                                                                    *)
LEMMA OthersStay ==
    ASSUME Inductive, Types', buf' = buf, pushed' = pushed, NEW s \in Subs,
           \A t \in Subs \ {s} : pc'[t] = pc[t] /\ last'[t] = last[t] /\ batch'[t] = batch[t] /\ got'[t] = got[t],
           Sound(s)', Kept(s)'
    PROVE  Inductive'
<1>1. Newest(buf)'
  BY DEF Inductive, Newest
<1>2. ASSUME NEW t \in Subs \ {s} PROVE Sound(t)' /\ Kept(t)'
  <2>1. pushed \in Nat /\ pushed' \in Nat /\ pushed <= pushed' /\ last[t] \in Nat /\ Sound(t) /\ Kept(t)
    BY DEF Inductive, Types
  <2>2. pc'[t] = pc[t] /\ last'[t] = last[t] /\ batch'[t] = batch[t] /\ got'[t] = got[t]
    OBVIOUS
  <2>3. Sound(t)'
    BY <2>1, <2>2, SoundStays
  <2>4. Kept(t)'
    BY <2>1, <2>2, KeptStays
  <2> QED
    BY <2>3, <2>4
<1>3. \A t \in Subs : (Sound(t) /\ Kept(t))'
  BY <1>2
<1> QED
  BY <1>1, <1>3 DEF Inductive

LEMMA OpenKeeps ==
    ASSUME CapAssumption, Inductive, NEW s \in Subs, Open(s) PROVE Inductive'
<1>1. /\ pc[s] = "new" /\ got[s] = <<>> /\ last[s] = 0 /\ Sound(s) /\ buf \in Seq(Pos) /\ Len(buf) \in Nat
      /\ pushed \in Nat /\ Len(buf) <= pushed /\ \A i \in 1..Len(buf) : buf[i] = pushed - Len(buf) + i
  BY LenProperties DEF Open, Inductive, Types, Sound, Newest
<1>2. /\ buf' = buf /\ pushed' = pushed /\ got' = got
      /\ pc' = [pc EXCEPT ![s] = "sending"] /\ batch' = [batch EXCEPT ![s] = buf]
      /\ last' = [last EXCEPT ![s] = IF buf = <<>> THEN 0 ELSE buf[Len(buf)]]
  BY DEF Open, SetSession
<1>3. buf # <<>> => buf[Len(buf)] \in Nat
  <2>1. buf # <<>> => Len(buf) \in 1..Len(buf)
    BY <1>1, EmptySeq
  <2> QED
    BY <1>1, <2>1, ElementOfSeq DEF Pos
<1>4. Types'
  BY <1>1, <1>2, <1>3 DEF Inductive, Types
<1>5. /\ pc'[s] = "sending" /\ batch'[s] = buf
      /\ last'[s] = IF buf = <<>> THEN last[s] ELSE buf[Len(buf)]
  BY <1>1, <1>2 DEF Inductive, Types
<1>6. \A i \in 1..Len(buf) : buf[i] = pushed - Len(buf) + i /\ buf[i] > last[s]
  <2> SUFFICES ASSUME NEW i \in 1..Len(buf) PROVE buf[i] > last[s]
    BY <1>1
  <2>1. buf[i] \in Pos
    BY <1>1, ElementOfSeq
  <2> QED
    BY <1>1, <2>1 DEF Pos
<1>7. Sound(s)' /\ Elems(got'[s] \o batch'[s]) = Elems(got[s] \o batch[s]) \cup Elems(buf)
  <2>1. Types /\ Newest(buf) /\ pc[s] # "sending"
    BY <1>1 DEF Inductive
  <2> HIDE DEF Inductive, Open
  <2> QED
    BY <1>1, <1>2, <1>4, <1>5, <1>6, <2>1, SoundSends
<1>8. Kept(s)'
  BY <1>2, <1>7 DEF Kept
<1>9. \A t \in Subs \ {s} : pc'[t] = pc[t] /\ last'[t] = last[t] /\ batch'[t] = batch[t] /\ got'[t] = got[t]
  BY <1>2 DEF Inductive, Types
<1> QED
  BY <1>2, <1>4, <1>7, <1>8, <1>9, OthersStay

LEMMA SentKeeps ==
    ASSUME CapAssumption, Inductive, NEW s \in Subs, Sent(s) PROVE Inductive'
<1> DEFINE r == got[s] \o batch[s]
<1>1. got[s] \in Seq(Pos) /\ batch[s] \in Seq(Pos) /\ r \in Seq(Pos) /\ pc[s] = "sending"
  BY ConcatProperties DEF Inductive, Types, Sent
<1>2. /\ buf' = buf /\ pushed' = pushed /\ last' = last
      /\ pc' = [pc EXCEPT ![s] = "waiting"] /\ batch' = [batch EXCEPT ![s] = <<>>]
      /\ got' = [got EXCEPT ![s] = r]
  BY DEF Sent, SetSession
<1>3. pc'[s] = "waiting" /\ batch'[s] = <<>> /\ got'[s] = r
  BY <1>2 DEF Inductive, Types
<1>4. r \o <<>> = r
  BY <1>1, ConcatEmptySeq
<1>5. got'[s] \o batch'[s] = r
  BY <1>3, <1>4
<1>6. Sound(s) /\ Kept(s)
  BY DEF Inductive
<1>7. Increasing(r) /\ (\A i \in 1..Len(r) : r[i] <= last[s]) /\ last[s] <= pushed
  BY <1>6 DEF Sound
<1>8. \A m \in Elems(buf) : m <= last[s] /\ pc[s] # "closed" => m \in Elems(r)
  BY <1>6 DEF Kept
<1>9. Types'
  BY <1>1, <1>2 DEF Inductive, Types
<1>10. \A t \in Subs \ {s} : pc'[t] = pc[t] /\ last'[t] = last[t] /\ batch'[t] = batch[t] /\ got'[t] = got[t]
  BY <1>2 DEF Inductive, Types
<1> HIDE DEF r
<1>11. Sound(s)'
  <2>1. Increasing(got'[s] \o batch'[s]) /\ \A i \in 1..Len(got'[s] \o batch'[s]) : (got'[s] \o batch'[s])[i] <= last'[s]
    BY <1>2, <1>5, <1>7
  <2> QED
    BY <1>2, <1>3, <1>7, <2>1 DEF Sound, Increasing
<1>12. Kept(s)'
  <2>1. \A m \in Elems(buf') : m <= last'[s] => m \in Elems(got'[s] \o batch'[s])
    BY <1>1, <1>2, <1>5, <1>8
  <2> QED
    BY <2>1 DEF Kept, Elems
<1> QED
  BY <1>2, <1>9, <1>10, <1>11, <1>12, OthersStay

LEMMA FailKeeps ==
    ASSUME CapAssumption, Inductive, NEW s \in Subs, SendFails(s) PROVE Inductive'
<1> DEFINE g == got[s]
           r == g \o batch[s]
<1>1. g \in Seq(Pos) /\ batch[s] \in Seq(Pos) /\ pc[s] \in {"sending", "beating"}
  BY DEF Inductive, Types, SendFails
<1>2. /\ buf' = buf /\ pushed' = pushed /\ last' = last /\ got' = got
      /\ pc' = [pc EXCEPT ![s] = "closed"] /\ batch' = [batch EXCEPT ![s] = <<>>]
  BY DEF SendFails, SetSession
<1>3. pc'[s] = "closed" /\ batch'[s] = <<>> /\ got'[s] = g
  BY <1>2 DEF Inductive, Types
<1>4. got'[s] \o batch'[s] = g
  BY <1>1, <1>3, ConcatEmptySeq
<1>5. Increasing(r) /\ (\A i \in 1..Len(r) : r[i] <= last[s]) /\ last[s] <= pushed
  BY DEF Inductive, Sound
<1>6. /\ Len(g) \in Nat /\ Len(r) \in Nat /\ Len(g) <= Len(r)
      /\ \A i \in 1..Len(g) : r[i] = g[i]
  <2>1. Len(r) = Len(g) + Len(batch[s]) /\ \A i \in 1..Len(g) + Len(batch[s]) : r[i] = IF i <= Len(g) THEN g[i] ELSE batch[s][i - Len(g)]
    BY <1>1, ConcatProperties
  <2>2. Len(g) \in Nat /\ Len(batch[s]) \in Nat
    BY <1>1, LenProperties
  <2> HIDE DEF r, g
  <2>3. \A i \in 1..Len(g) : i \in 1..Len(g) + Len(batch[s]) /\ i <= Len(g)
    BY <2>2
  <2> QED
    BY <2>1, <2>2, <2>3
<1>7. Types'
  BY <1>2 DEF Inductive, Types
<1>8. \A t \in Subs \ {s} : pc'[t] = pc[t] /\ last'[t] = last[t] /\ batch'[t] = batch[t] /\ got'[t] = got[t]
  BY <1>2 DEF Inductive, Types
<1> HIDE DEF g, r
<1>9. Increasing(g) /\ \A i \in 1..Len(g) : g[i] <= last[s]
  <2>1. 1..Len(g) \subseteq 1..Len(r)
    BY <1>6
  <2> QED
    BY <1>5, <1>6, <2>1 DEF Increasing
<1>10. Sound(s)'
  <2>1. Increasing(got'[s] \o batch'[s]) /\ \A i \in 1..Len(got'[s] \o batch'[s]) : (got'[s] \o batch'[s])[i] <= last'[s]
    BY <1>2, <1>4, <1>9
  <2> QED
    BY <1>2, <1>3, <1>5, <2>1 DEF Sound, Increasing
<1>11. Kept(s)'
  BY <1>3 DEF Kept
<1> QED
  BY <1>2, <1>7, <1>8, <1>10, <1>11, OthersStay

LEMMA FollowKeeps ==
    ASSUME CapAssumption, Inductive, NEW s \in Subs, Follow(s) PROVE Inductive'
<1> DEFINE n == NewMsgs(buf, last[s])
<1>1. /\ pc[s] = "woken" /\ Sound(s) /\ Kept(s) /\ buf \in Seq(Pos) /\ last[s] \in Nat /\ pushed \in Nat
      /\ last[s] <= pushed /\ Len(buf) <= pushed /\ \A i \in 1..Len(buf) : buf[i] = pushed - Len(buf) + i
  BY DEF Follow, Inductive, Types, Sound, Newest
<1>2. /\ n \in Seq(Pos) /\ Len(n) <= pushed
      /\ \A i \in 1..Len(n) : n[i] = pushed - Len(n) + i /\ n[i] > last[s]
  <2> HIDE DEF Inductive
  <2> QED
    BY <1>1, NewIsNewer
<1>3. \A e \in Elems(buf) : e > last[s] => e \in Elems(n)
  <2> HIDE DEF Inductive
  <2> QED
    BY <1>1, NewIsAll
<1>4. buf' = buf /\ pushed' = pushed /\ got' = got
  BY DEF Follow
<1>5. CASE n = <<>>
  <2>1. pc' = [pc EXCEPT ![s] = "waiting"] /\ last' = last /\ batch' = batch
    BY <1>5 DEF Follow, SetSession
  <2>2. Types'
    BY <1>4, <2>1 DEF Inductive, Types
  <2>3. pc'[s] = "waiting"
    BY <2>1 DEF Inductive, Types
  <2>4. Sound(s)' /\ Kept(s)'
    BY <1>1, <1>4, <2>1, <2>3, SoundStays, KeptStays
  <2>5. \A t \in Subs \ {s} : pc'[t] = pc[t] /\ last'[t] = last[t] /\ batch'[t] = batch[t] /\ got'[t] = got[t]
    BY <1>4, <2>1 DEF Inductive, Types
  <2> QED
    BY <1>4, <2>2, <2>4, <2>5, OthersStay
<1>6. CASE n # <<>>
  <2>1. /\ pc' = [pc EXCEPT ![s] = "sending"] /\ batch' = [batch EXCEPT ![s] = n]
        /\ last' = [last EXCEPT ![s] = n[Len(n)]]
    BY <1>6 DEF Follow, SetSession
  <2> HIDE DEF n
  <2>2. n[Len(n)] \in Nat
    <3>1. Len(n) \in 1..Len(n)
      BY <1>2, <1>6, EmptySeq, LenProperties
    <3> QED
      BY <1>2, <3>1, ElementOfSeq DEF Pos
  <2>3. Types'
    BY <1>2, <1>4, <2>1, <2>2 DEF Inductive, Types
  <2>4. pc'[s] = "sending" /\ batch'[s] = n /\ last'[s] = IF n = <<>> THEN last[s] ELSE n[Len(n)]
    BY <1>6, <2>1 DEF Inductive, Types
  <2>5. Sound(s)' /\ Elems(got'[s] \o batch'[s]) = Elems(got[s] \o batch[s]) \cup Elems(n)
    <3>1. Types /\ Newest(buf) /\ pc[s] # "sending"
      BY <1>1 DEF Inductive
    <3> HIDE DEF Inductive, Follow
    <3> QED
      BY <1>1, <1>2, <1>4, <2>3, <2>4, <3>1, SoundSends
  <2>6. Kept(s)'
    <3> SUFFICES ASSUME NEW m \in Elems(buf) PROVE m \in Elems(got[s] \o batch[s]) \cup Elems(n)
      BY <1>4, <2>5 DEF Kept, Elems
    <3>1. m \in Nat
      BY <1>1, LenProperties, ElementOfSeq DEF Elems, Pos
    <3>2. CASE m <= last[s]
      BY <1>1, <3>2 DEF Kept
    <3>3. CASE m > last[s]
      BY <1>3, <3>3
    <3> QED
      BY <1>1, <3>1, <3>2, <3>3
  <2>7. \A t \in Subs \ {s} : pc'[t] = pc[t] /\ last'[t] = last[t] /\ batch'[t] = batch[t] /\ got'[t] = got[t]
    BY <1>4, <2>1 DEF Inductive, Types
  <2> QED
    BY <1>4, <2>3, <2>5, <2>6, <2>7, OthersStay
<1> QED
  BY <1>5, <1>6

LEMMA BeatKeeps ==
    ASSUME CapAssumption, Inductive, NEW s \in Subs, Idle(s) \/ Beaten(s) PROVE Inductive'
<1>1. PICK to \in {"beating", "waiting"} : pc' = [pc EXCEPT ![s] = to]
  BY DEF Idle, Beaten, SetSession
<1>2. /\ pc[s] \in {"waiting", "beating"} /\ buf' = buf /\ pushed' = pushed
      /\ last' = last /\ batch' = batch /\ got' = got
  BY DEF Idle, Beaten
<1>3. Types'
  BY <1>1, <1>2 DEF Inductive, Types
<1>4. pc'[s] = to /\ pushed \in Nat /\ last[s] \in Nat /\ Sound(s) /\ Kept(s)
  BY <1>1 DEF Inductive, Types
<1>5. Sound(s)' /\ Kept(s)'
  BY <1>2, <1>4, SoundStays, KeptStays
<1>6. \A t \in Subs \ {s} : pc'[t] = pc[t] /\ last'[t] = last[t] /\ batch'[t] = batch[t] /\ got'[t] = got[t]
  BY <1>1, <1>2 DEF Inductive, Types
<1> QED
  BY <1>2, <1>3, <1>5, <1>6, OthersStay

LEMMA MonitorStep ==
    ASSUME CapAssumption, Inductive, [Next]_vars PROVE Inductive'
<1>1. CASE Push
  BY <1>1, PushKeeps
<1>2. CASE Cleanup
  BY <1>2, CleanupKeeps
<1>3. CASE \E s \in Subs : Open(s) \/ Idle(s) \/ Session(s)
  BY <1>3, OpenKeeps, SentKeeps, FailKeeps, FollowKeeps, BeatKeeps DEF Session
<1>4. CASE UNCHANGED vars
  <2>1. /\ buf' = buf /\ pushed' = pushed /\ pc' = pc /\ last' = last /\ batch' = batch /\ got' = got
    BY <1>4 DEF vars
  <2>2. Types' /\ Newest(buf)'
    BY <2>1 DEF Inductive, Types, Newest
  <2>3. ASSUME NEW s \in Subs PROVE Sound(s)' /\ Kept(s)'
    <3>1. pushed \in Nat /\ last[s] \in Nat /\ Sound(s) /\ Kept(s)
      BY DEF Inductive, Types
    <3> QED
      BY <2>1, <3>1, SoundStays, KeptStays
  <2> QED
    BY <2>2, <2>3 DEF Inductive
<1> QED
  BY <1>1, <1>2, <1>3, <1>4 DEF Next

LEMMA MonitorInit ==
    ASSUME CapAssumption, Init PROVE Inductive
<1>1. Types /\ Newest(buf)
  BY DEF Init, Types, Newest, CapAssumption
<1>2. ASSUME NEW s \in Subs PROVE Sound(s) /\ Kept(s)
  <2>1. pc[s] = "new" /\ last[s] = 0 /\ got[s] = <<>> /\ batch[s] = <<>> /\ pushed = 0 /\ Elems(buf) = {}
    BY DEF Init, Elems
  <2>2. got[s] \o batch[s] = <<>>
    BY <2>1, ConcatEmptySeq, EmptySeq
  <2> QED
    BY <2>1, <2>2 DEF Sound, Kept, Increasing
<1> QED
  BY <1>1, <1>2 DEF Inductive

LEMMA MonitorHolds ==
    ASSUME CapAssumption PROVE Spec => []Inductive
<1>1. Init => Inductive
  BY MonitorInit
<1>2. Inductive /\ [Next]_vars => Inductive'
  BY MonitorStep
<1> QED
  BY <1>1, <1>2, PTL DEF Spec

(* Every variable keeps its type, for any number of sessions, any size of   *)
(* the buffer and any number of messages (push_message, ws_bot_messages).   *)
THEOREM TypeCorrect ==
    ASSUME CapAssumption PROVE Spec => []TypeOK
<1>1. Inductive => TypeOK
  <2> SUFFICES ASSUME Inductive PROVE TypeOK
    OBVIOUS
  <2>1. ASSUME NEW q \in Seq(Pos), \A i \in 1..Len(q) : q[i] <= MaxMsgs PROVE q \in Seq(Msgs)
    <3>1. Len(q) \in Nat /\ DOMAIN q = 1..Len(q)
      BY LenProperties
    <3>2. \A i \in 1..Len(q) : q[i] \in Msgs
      BY <2>1, ElementOfSeq DEF Pos, Msgs, CapAssumption
    <3>3. q = [i \in 1..Len(q) |-> q[i]]
      <4>1. q \in [1..Len(q) -> Pos]
        BY LenProperties
      <4> QED
        BY <4>1
    <3> HIDE DEF Pos, Msgs
    <3> QED
      BY <3>1, <3>2, <3>3, IsASeq
  <2>2. buf \in Seq(Msgs)
    <3>1. /\ buf \in Seq(Pos) /\ Len(buf) \in Nat /\ pushed \in Nat /\ pushed <= MaxMsgs
          /\ \A i \in 1..Len(buf) : buf[i] = pushed - Len(buf) + i
      BY LenProperties DEF Inductive, Types, Newest
    <3>2. \A i \in 1..Len(buf) : buf[i] <= MaxMsgs
      BY <3>1 DEF CapAssumption
    <3> QED
      BY <2>1, <3>1, <3>2
  <2>3. ASSUME NEW s \in Subs
        PROVE  last[s] \in 0..MaxMsgs /\ got[s] \in Seq(Msgs) /\ batch[s] \in Seq(Msgs)
    <3> DEFINE g == got[s]
               h == batch[s]
               r == g \o h
    <3>1. /\ g \in Seq(Pos) /\ h \in Seq(Pos) /\ last[s] \in Nat /\ last[s] <= MaxMsgs
          /\ \A i \in 1..Len(r) : r[i] <= last[s]
      BY DEF Inductive, Types, Sound, CapAssumption
    <3>2. /\ r \in Seq(Pos) /\ Len(r) = Len(g) + Len(h)
          /\ \A i \in 1..Len(g) + Len(h) : r[i] = IF i <= Len(g) THEN g[i] ELSE h[i - Len(g)]
      BY <3>1, ConcatProperties
    <3>3. Len(g) \in Nat /\ Len(h) \in Nat /\ MaxMsgs \in Nat
      BY <3>1, LenProperties DEF CapAssumption
    <3> HIDE DEF g, h, r
    <3>4. \A i \in 1..Len(r) : r[i] <= MaxMsgs
      BY <3>1, <3>2, <3>3, ElementOfSeq DEF Pos
    <3>5. ASSUME NEW i \in 1..Len(g) PROVE g[i] <= MaxMsgs
      <4>1. i \in 1..Len(r) /\ r[i] = g[i]
        BY <3>2, <3>3
      <4> QED
        BY <3>4, <4>1
    <3>6. ASSUME NEW i \in 1..Len(h) PROVE h[i] <= MaxMsgs
      <4> DEFINE k == Len(g) + i
      <4>1. k \in 1..Len(g) + Len(h) /\ ~(k <= Len(g)) /\ k - Len(g) = i
        BY <3>3
      <4> HIDE DEF k
      <4>2. k \in 1..Len(r) /\ r[k] = h[i]
        BY <3>2, <4>1
      <4> QED
        BY <3>4, <4>2
    <3>7. g \in Seq(Msgs) /\ h \in Seq(Msgs)
      BY <2>1, <3>1, <3>5, <3>6
    <3> QED
      BY <3>1, <3>3, <3>7 DEF g, h
  <2> QED
    BY <2>2, <2>3 DEF TypeOK, Inductive, Types, CapAssumption
<1> QED
  BY <1>1, MonitorHolds, PTL

(* What a client of ws_bot_messages has been sent is in the order of the    *)
(* bot, none of it twice.                                                   *)
THEOREM InOrder ==
    ASSUME CapAssumption PROVE Spec => []InOrderOnce
<1>1. Inductive => InOrderOnce
  <2> SUFFICES ASSUME Inductive, NEW s \in Subs
               PROVE  LET r == got[s] \o batch[s] IN \A i, j \in DOMAIN r : i < j => r[i] < r[j]
    BY DEF InOrderOnce
  <2> DEFINE r == got[s] \o batch[s]
  <2>1. Increasing(r)
    BY DEF Inductive, Sound
  <2>2. r \in Seq(Pos)
    BY ConcatProperties DEF Inductive, Types
  <2> HIDE DEF r
  <2>3. DOMAIN r = 1..Len(r)
    BY <2>2, LenProperties
  <2>4. \A i, j \in DOMAIN r : i < j => r[i] < r[j]
    BY <2>1, <2>3 DEF Increasing
  <2> QED
    BY <2>4 DEF r
<1> QED
  BY <1>1, MonitorHolds, PTL

(* A client of ws_bot_messages is sent every message the buffer still held  *)
(* when its session last looked.                                            *)
THEOREM NothingLost ==
    ASSUME CapAssumption PROVE Spec => []NothingSkipped
<1>1. Inductive => NothingSkipped
  BY DEF Inductive, Kept, NothingSkipped
<1> QED
  BY <1>1, MonitorHolds, PTL

=============================================================================
