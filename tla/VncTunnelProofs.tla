---------------------------- MODULE VncTunnelProofs ----------------------------
(***************************************************************************)
(* What holds of VncTunnel for any number of requests and keys, and for    *)
(* any way to cut what is sent into messages: types, the filter of         *)
(* spectators, and the order in which the server is spoken to.             *)
(***************************************************************************)
EXTENDS VncTunnel, SequenceTheorems, FunctionTheorems, FiniteSetTheorems, TLAPS

-----------------------------------------------------------------------------
(* Streams of pieces *)

Streams == Seq(Piece)

\* All the pieces are of these kinds.
Of(s, K) == \A i \in 1 .. Len(s) : s[i][1] \in K

LEMMA PieceKind ==
    ASSUME NEW s \in Streams, NEW i \in 1 .. Len(s)
    PROVE  /\ s[i] \in Piece
           /\ s[i] = <<s[i][1], s[i][2]>>
           /\ s[i][1] \in Kind
           /\ s[i][2] \in {1, 2}
<1>1. s[i] \in Piece
  BY ElementOfSeq DEF Streams
<1> QED
  BY <1>1 DEF Piece

LEMMA Joined ==
    ASSUME NEW s \in Streams, NEW t \in Streams
    PROVE  /\ s \o t \in Streams
           /\ Len(s \o t) = Len(s) + Len(t)
           /\ \A i \in 1 .. Len(s) : (s \o t)[i] = s[i]
           /\ \A K : Of(s, K) /\ Of(t, K) => Of(s \o t, K)
<1>1. /\ s \o t \in Streams
      /\ Len(s \o t) = Len(s) + Len(t)
      /\ \A i \in 1 .. Len(s) + Len(t) : (s \o t)[i] = IF i <= Len(s) THEN s[i] ELSE t[i - Len(s)]
  BY ConcatProperties DEF Streams
<1>2. Len(s) \in Nat /\ Len(t) \in Nat
  BY LenProperties DEF Streams
<1>3. ASSUME NEW K, Of(s, K), Of(t, K), NEW i \in 1 .. Len(s) + Len(t)
      PROVE  (s \o t)[i][1] \in K
  <2>1. CASE i <= Len(s)
    BY <1>1, <1>2, <1>3, <2>1 DEF Of
  <2>2. CASE i > Len(s)
    <3>1. i - Len(s) \in 1 .. Len(t)
      BY <1>2, <2>2
    <3> QED
      BY <1>1, <1>2, <1>3, <2>2, <3>1 DEF Of
  <2> QED
    BY <1>2, <2>1, <2>2
<1>4. \A i \in 1 .. Len(s) : (s \o t)[i] = s[i]
  BY <1>1, <1>2
<1>5. \A K : Of(s, K) /\ Of(t, K) => Of(s \o t, K)
  BY <1>1, <1>3 DEF Of
<1> QED
  BY <1>1, <1>4, <1>5

LEMMA Cut ==
    ASSUME NEW s \in Streams, NEW m \in Nat \ {0}, NEW n \in Nat, n <= Len(s)
    PROVE  /\ SubSeq(s, m, n) \in Streams
           /\ Len(SubSeq(s, m, n)) = IF m <= n THEN n - m + 1 ELSE 0
           /\ \A i \in 1 .. n - m + 1 : SubSeq(s, m, n)[i] = s[m + i - 1]
           /\ \A K : Of(s, K) => Of(SubSeq(s, m, n), K)
<1>1. Len(s) \in Nat
  BY LenProperties DEF Streams
<1>2. \A i \in m .. n : s[i] \in Piece
  BY <1>1, ElementOfSeq DEF Streams
<1>3. /\ SubSeq(s, m, n) \in Streams
      /\ Len(SubSeq(s, m, n)) = IF m <= n THEN n - m + 1 ELSE 0
      /\ \A i \in 1 .. n - m + 1 : SubSeq(s, m, n)[i] = s[m + i - 1]
  BY <1>2, SubSeqProperties DEF Streams
<1>4. ASSUME NEW K, Of(s, K), NEW i \in 1 .. Len(SubSeq(s, m, n))
      PROVE  SubSeq(s, m, n)[i][1] \in K
  <2>1. i \in 1 .. n - m + 1 /\ m + i - 1 \in 1 .. Len(s)
    BY <1>1, <1>3
  <2> QED
    BY <1>3, <1>4, <2>1 DEF Of
<1> QED
  BY <1>3, <1>4 DEF Of

\* What is left when some pieces have been read, the end of a stream.
LEMMA RestOf ==
    ASSUME NEW s \in Streams, NEW n \in Nat
    PROVE  /\ SubSeq(s, n + 1, Len(s)) \in Streams
           /\ \A K : Of(s, K) => Of(SubSeq(s, n + 1, Len(s)), K)
<1>1. Len(s) \in Nat
  BY LenProperties DEF Streams
<1> QED
  BY <1>1, Cut

LEMMA Messages ==
    ASSUME NEW m \in Kind
    PROVE  /\ Message(m) \in Streams
           /\ m \in Short => Message(m) = <<<<m, 1>>>> /\ Len(Message(m)) = 1
           /\ m \notin Short => Message(m) = <<<<m, 1>>, <<m, 2>>>> /\ Len(Message(m)) = 2
           /\ \A K : m \in K => Of(Message(m), K)
<1>1. <<m, 1>> \in Piece /\ <<m, 2>> \in Piece
  BY DEF Piece
<1>2. CASE m \in Short
  BY <1>1, <1>2 DEF Message, Streams, Of
<1>3. CASE m \notin Short
  <2>1. Message(m) = <<<<m, 1>>, <<m, 2>>>>
    BY <1>3 DEF Message
  <2>2. <<<<m, 1>>, <<m, 2>>>> \in Streams
    BY <1>1 DEF Streams
  <2>3. ASSUME NEW K, m \in K PROVE Of(<<<<m, 1>>, <<m, 2>>>>, K)
    BY <2>3 DEF Of
  <2> QED
    BY <1>3, <2>1, <2>2, <2>3
<1> QED
  BY <1>2, <1>3

LEMMA Nothing == <<>> \in Streams /\ Len(<<>>) = 0 /\ \A K : Of(<<>>, K)
BY EmptySeq DEF Streams, Of

\* What a buffer holds whole is what it starts with.
LEMMA Wholes ==
    ASSUME NEW b \in Streams
    PROVE  /\ Complete(b) \in Streams
           /\ Len(Complete(b)) <= Len(b)
           /\ \A i \in 1 .. Len(Complete(b)) : Complete(b)[i] = b[i]
<1>1. Len(b) \in Nat
  BY LenProperties DEF Streams
<1>2. CASE b = <<>> \/ Ends(Last(b))
  BY <1>1, <1>2 DEF Complete
<1>3. CASE ~(b = <<>> \/ Ends(Last(b)))
  <2>1. Complete(b) = SubSeq(b, 1, Len(b) - 1) /\ Len(b) # 0
    <3>1. Len(b) # 0
      BY <1>3, EmptySeq DEF Streams
    <3> QED
      BY <1>3, <3>1 DEF Complete, Front
  <2>2. Len(b) - 1 \in Nat
    BY <1>1, <2>1
  <2> QED
    BY <1>1, <2>1, <2>2, Cut
<1> QED
  BY <1>2, <1>3

\* Picking finds each of the places once, and nothing else.
LEMMA Picks ==
    ASSUME NEW s \in Streams, NEW at \in SUBSET (1 .. Len(s))
    PROVE  /\ Picked(s, at) \in Streams
           /\ \A k \in 1 .. Len(Picked(s, at)) : \E i \in at : Picked(s, at)[k] = s[i]
<1> DEFINE upto(i) == {j \in at : j <= i}
           n       == Cardinality(at)
           rank    == [i \in at |-> Cardinality(upto(i))]
<1>1. Len(s) \in Nat
  BY LenProperties DEF Streams
<1>2. IsFiniteSet(at) /\ n \in Nat
  <2>1. IsFiniteSet(1 .. Len(s))
    BY <1>1, FS_Interval
  <2> QED
    BY <2>1, FS_Subset, FS_CardinalityType
<1>3. ASSUME NEW i \in at
      PROVE  IsFiniteSet(upto(i)) /\ Cardinality(upto(i)) \in 1 .. n
  <2>1. upto(i) \in SUBSET at /\ i \in upto(i)
    BY <1>1
  <2>2. IsFiniteSet(upto(i)) /\ Cardinality(upto(i)) <= n /\ Cardinality(upto(i)) \in Nat
    BY <1>2, <2>1, FS_Subset, FS_CardinalityType
  <2>3. Cardinality(upto(i)) # 0
    BY <2>1, <2>2, FS_EmptySet
  <2> QED
    BY <1>2, <2>2, <2>3
<1>4. rank \in [at -> 1 .. n]
  BY <1>3
<1>5. ASSUME NEW i \in at, NEW j \in at, i < j
      PROVE  rank[i] # rank[j]
  <2>1. upto(i) \in SUBSET upto(j) /\ j \in upto(j) /\ j \notin upto(i)
    <3>1. i \in Nat /\ j \in Nat
      BY <1>1
    <3>2. \A l \in at : l \in Nat
      BY <1>1
    <3>3. \A l \in at : l <= i => l <= j
      BY <1>5, <3>1, <3>2
    <3>4. ~(j <= i) /\ j <= j
      BY <1>5, <3>1
    <3> QED
      BY <3>3, <3>4
  <2>2. Cardinality(upto(i)) # Cardinality(upto(j))
    <3> HIDE DEF upto
    <3> QED
      BY <1>3, <2>1, FS_Subset
  <2> QED
    BY <2>2
<1>6. rank \in Injection(at, 1 .. n)
  <2>1. ASSUME NEW i \in at, NEW j \in at, rank[i] = rank[j] PROVE i = j
    <3>1. i \in Nat /\ j \in Nat
      BY <1>1
    <3> HIDE DEF rank
    <3> QED
      BY <1>5, <2>1, <3>1
  <2> HIDE DEF rank, n
  <2> QED
    BY <1>4, <2>1, Fun_IsInj
<1>7. rank \in Surjection(at, 1 .. n)
  <2>1. IsFiniteSet(1 .. n) /\ Cardinality(1 .. n) = n
    <3> HIDE DEF n
    <3> QED
      BY <1>2, FS_Interval
  <2> HIDE DEF rank
  <2> QED
    BY <1>6, <2>1, FS_Injection
<1>8. ASSUME NEW k \in 1 .. n
      PROVE  \E i \in at : Cardinality(upto(i)) = k
  <2>1. \E i \in at : rank[i] = k
    <3> HIDE DEF rank, n
    <3> QED
      BY <1>7 DEF Surjection
  <2> QED
    BY <2>1
<1> DEFINE pick(k) == CHOOSE i \in at : Cardinality({j \in at : j <= i}) = k
<1>9. ASSUME NEW k \in 1 .. n PROVE pick(k) \in at
  BY <1>8
<1> HIDE DEF pick
<1>10. Picked(s, at) = [k \in 1 .. n |-> s[pick(k)]]
  BY DEF Picked, Rank, pick
<1>11. \A k \in 1 .. n : s[pick(k)] \in Piece
  BY <1>9, ElementOfSeq DEF Streams
<1> HIDE DEF n
<1>12. Picked(s, at) \in [1 .. n -> Piece]
  BY <1>10, <1>11
<1>13. Picked(s, at) \in Streams /\ Len(Picked(s, at)) = n
  BY <1>2, <1>12 DEF Streams
<1> QED
  BY <1>9, <1>10, <1>13
-----------------------------------------------------------------------------
(* Types *)

Wires == [{"proxyFromServer", "proxyFromBrowser", "server", "browser"} -> Streams]
Buffers == [{"server", "client", "spectate"} -> Streams]
Sockets ==
    /\ bws \in {"open", "closing", "closed"}
    /\ pws \in {"none", "connecting", "open", "closing", "closed"}
    /\ missed \in BOOLEAN /\ quit \in BOOLEAN

LEMMA Sends ==
    ASSUME NEW w \in Wires, NEW m \in Streams
    PROVE  /\ ToBrowser(w, m) \in Wires
           /\ ToBrowser(w, m).browser = IF bws = "open" THEN w.browser \o m ELSE w.browser
           /\ ToBrowser(w, m).server = w.server
           /\ ToBrowser(w, m).proxyFromServer = w.proxyFromServer
           /\ ToBrowser(w, m).proxyFromBrowser = w.proxyFromBrowser
           /\ ToServer(w, m) \in Wires
           /\ ToServer(w, m).server = IF pws = "open" THEN w.server \o m ELSE w.server
           /\ ToServer(w, m).browser = w.browser
           /\ ToServer(w, m).proxyFromServer = w.proxyFromServer
           /\ ToServer(w, m).proxyFromBrowser = w.proxyFromBrowser
<1>1. w.browser \o m \in Streams /\ w.server \o m \in Streams
  BY Joined DEF Wires
<1> QED
  BY <1>1 DEF ToBrowser, ToServer, Wires

\* Some of the pieces under way have arrived.
LEMMA Arrives ==
    ASSUME NEW w \in Wires, NEW n \in Nat
    PROVE  /\ [w EXCEPT !.proxyFromServer = SubSeq(@, n + 1, Len(@))] \in Wires
           /\ [w EXCEPT !.proxyFromBrowser = SubSeq(@, n + 1, Len(@))] \in Wires
<1>1. /\ SubSeq(w.proxyFromServer, n + 1, Len(w.proxyFromServer)) \in Streams
      /\ SubSeq(w.proxyFromBrowser, n + 1, Len(w.proxyFromBrowser)) \in Streams
  BY RestOf DEF Wires
<1> QED
  BY <1>1 DEF Wires

LEMMA Raw ==
    ASSUME NEW s \in Streams, NEW n \in 1 .. Len(s)
    PROVE  n \in Nat /\ SubSeq(s, 1, n) \in Streams /\ \A K : Of(s, K) => Of(SubSeq(s, 1, n), K)
<1>1. Len(s) \in Nat
  BY LenProperties DEF Streams
<1>2. n \in Nat /\ n <= Len(s)
  BY <1>1
<1> QED
  BY <1>2, Cut

\* A stream that starts with ClientInit.
Inits(s) == Len(s) >= 1 /\ s[1] = <<"init", 1>> /\ \A i \in 2 .. Len(s) : s[i][1] \in Known

LEMMA Initiations ==
    ASSUME NEW s \in Streams, Inits(s)
    PROVE  /\ \A n \in 1 .. Len(s) : Inits(SubSeq(s, 1, n)) /\ Of(SubSeq(s, n + 1, Len(s)), Known)
           /\ \A t \in Streams : Of(t, Known) => Inits(s \o t)
<1>1. /\ Len(s) \in Nat /\ Len(s) >= 1 /\ s[1] = <<"init", 1>>
      /\ \A i \in 2 .. Len(s) : s[i][1] \in Known
  BY LenProperties DEF Inits, Streams
<1>2. ASSUME NEW n \in 1 .. Len(s)
      PROVE  Inits(SubSeq(s, 1, n)) /\ Of(SubSeq(s, n + 1, Len(s)), Known)
  <2> DEFINE raw == SubSeq(s, 1, n)
             rest == SubSeq(s, n + 1, Len(s))
  <2>1. n \in Nat /\ n >= 1 /\ n <= Len(s)
    BY <1>1
  <2>2. raw \in Streams /\ Len(raw) = n /\ \A i \in 1 .. n : raw[i] = s[1 + i - 1]
    BY <2>1, Cut
  <2>3. /\ rest \in Streams /\ Len(rest) = IF n + 1 <= Len(s) THEN Len(s) - (n + 1) + 1 ELSE 0
        /\ \A i \in 1 .. Len(s) - (n + 1) + 1 : rest[i] = s[n + 1 + i - 1]
    BY <1>1, <2>1, Cut
  <2> HIDE DEF raw, rest
  <2>4. ASSUME NEW i \in 1 .. n PROVE raw[i] = s[i]
    <3>1. 1 + i - 1 = i
      OBVIOUS
    <3> QED
      BY <2>2, <3>1
  <2>5. Inits(raw)
    BY <1>1, <2>1, <2>2, <2>4 DEF Inits
  <2>6. ASSUME NEW i \in 1 .. Len(rest) PROVE rest[i][1] \in Known
    <3>1. i \in 1 .. Len(s) - (n + 1) + 1 /\ n + 1 + i - 1 = n + i /\ n + i \in 2 .. Len(s)
      BY <1>1, <2>1, <2>3
    <3> QED
      BY <1>1, <2>3, <3>1
  <2>7. Of(rest, Known)
    BY <2>6 DEF Of
  <2> QED
    BY <2>5, <2>7 DEF raw, rest
<1>3. ASSUME NEW t \in Streams, Of(t, Known)
      PROVE  Inits(s \o t)
  <2>1. /\ Len(s \o t) = Len(s) + Len(t)
        /\ \A i \in 1 .. Len(s) + Len(t) : (s \o t)[i] = IF i <= Len(s) THEN s[i] ELSE t[i - Len(s)]
    BY ConcatProperties DEF Streams
  <2>2. Len(t) \in Nat
    BY LenProperties DEF Streams
  <2> DEFINE st == s \o t
  <2> HIDE DEF st
  <2>3. Len(st) = Len(s) + Len(t) /\ \A i \in 1 .. Len(s) + Len(t) : st[i] = IF i <= Len(s) THEN s[i] ELSE t[i - Len(s)]
    BY <2>1 DEF st
  <2>4. Len(st) >= 1 /\ st[1] = <<"init", 1>>
    BY <1>1, <2>2, <2>3
  <2>5. ASSUME NEW i \in 2 .. Len(st) PROVE st[i][1] \in Known
    <3>1. CASE i <= Len(s)
      BY <1>1, <2>2, <2>3, <3>1
    <3>2. CASE ~(i <= Len(s))
      <4>1. i - Len(s) \in 1 .. Len(t) /\ st[i] = t[i - Len(s)]
        BY <1>1, <2>2, <2>3, <3>2
      <4> QED
        BY <1>3, <4>1 DEF Of
    <3> QED
      BY <3>1, <3>2
  <2>6. Inits(st)
    BY <2>4, <2>5 DEF Inits
  <2> QED
    BY <2>6 DEF st
<1> QED
  BY <1>2, <1>3

\* What the loop of relayFiltered reads and keeps is what it has been given, and
\* in step it relays nothing that is to be dropped.
LEMMA ReadingsDrop ==
    ASSUME NEW s \in Streams, NEW r \in Readings(s)
    PROVE  /\ Picked(s, r[2]) \in Streams
           /\ SubSeq(s, r[1] + 1, Len(s)) \in Streams
           /\ \A K : Of(s, K) => Of(Picked(s, r[2]), K) /\ Of(SubSeq(s, r[1] + 1, Len(s)), K)
           /\ InStep => Of(Picked(s, r[2]), Kind \ Dropped)
<1> DEFINE relayed == Picked(s, r[2])
<1>1. Len(s) \in Nat
  BY LenProperties DEF Streams
<1>2. /\ r[1] \in Nat /\ r[2] \in SUBSET (1 .. Len(s))
      /\ InStep => \A i \in r[2] : s[i][1] \notin Dropped
  <2>1. CASE InStep
    <3> DEFINE n == Len(Complete(s))
               at == {i \in 1 .. n : s[i][1] \notin Dropped}
    <3>1. r = <<n, at>>
      BY <2>1 DEF Readings
    <3>2. n \in Nat /\ n <= Len(s)
      <4>1. Complete(s) \in Streams /\ Len(Complete(s)) <= Len(s)
        BY Wholes
      <4> QED
        BY <4>1, LenProperties DEF Streams
    <3> HIDE DEF n
    <3>3. at \in SUBSET (1 .. Len(s))
      BY <1>1, <3>2
    <3>4. \A i \in at : s[i][1] \notin Dropped
      OBVIOUS
    <3> HIDE DEF at
    <3>5. r[1] = n /\ r[2] = at
      BY <3>1
    <3> QED
      BY <3>2, <3>3, <3>4, <3>5
  <2>2. CASE ~InStep
    <3>1. PICK n \in 0 .. Len(s) : r \in {<<n, at>> : at \in SUBSET (1 .. n)}
      BY <2>2 DEF Readings
    <3>2. PICK at \in SUBSET (1 .. n) : r = <<n, at>>
      BY <3>1
    <3>3. at \in SUBSET (1 .. Len(s)) /\ n \in Nat
      BY <1>1, <3>1, <3>2
    <3> QED
      BY <2>2, <3>2, <3>3
  <2> QED
    BY <2>1, <2>2
<1>3. /\ relayed \in Streams
      /\ \A k \in 1 .. Len(relayed) : \E i \in r[2] : relayed[k] = s[i]
  BY <1>2, Picks
<1> HIDE DEF relayed
<1>4. ASSUME NEW K, Of(s, K) PROVE Of(relayed, K)
  BY <1>2, <1>3, <1>4 DEF Of
<1>5. ASSUME InStep, NEW k \in 1 .. Len(relayed) PROVE relayed[k][1] \in Kind \ Dropped
  <2>1. PICK i \in r[2] : relayed[k] = s[i]
    BY <1>3
  <2>2. i \in 1 .. Len(s) /\ s[i][1] \notin Dropped
    BY <1>2, <1>5, <2>1
  <2>3. s[i][1] \in Kind
    BY <2>2, PieceKind
  <2> QED
    BY <2>1, <2>2, <2>3
<1>6. /\ SubSeq(s, r[1] + 1, Len(s)) \in Streams
      /\ \A K : Of(s, K) => Of(SubSeq(s, r[1] + 1, Len(s)), K)
  BY <1>2, RestOf
<1> QED
  BY <1>3, <1>4, <1>5, <1>6 DEF relayed, Of

\* A buffer of the filter, what it relays of it and what it keeps: behind the
\* bytes that ClientInit makes it relay unread, nothing that is to be dropped.
Split(b, relayed, kept) ==
    /\ \A K : Of(b, K) => Of(relayed, K) /\ Of(kept, K)
    /\ Inits(b) => Inits(relayed) /\ Of(kept, Known)
    /\ InStep => \A i \in 1 .. Len(relayed) : relayed[i][1] \in Dropped =>
                    b[1][1] = "init" /\ i <= asker.format + 1

LEMMA SplitHead ==
    ASSUME NEW b \in Streams, NEW n \in Nat, n <= Len(b),
           b[1][1] = "init" => n = asker.format + 1 /\ asker.format \in Nat,
           b[1][1] # "init" => n = 0,
           NEW r \in Readings(SubSeq(b, n + 1, Len(b)))
    PROVE  LET rest    == SubSeq(b, n + 1, Len(b))
               relayed == SubSeq(b, 1, n) \o Picked(rest, r[2])
               kept    == SubSeq(rest, r[1] + 1, Len(rest))
           IN  relayed \in Streams /\ kept \in Streams /\ Split(b, relayed, kept)
<1> DEFINE rest    == SubSeq(b, n + 1, Len(b))
           head    == SubSeq(b, 1, n)
           some    == Picked(rest, r[2])
           relayed == head \o some
           kept    == SubSeq(rest, r[1] + 1, Len(rest))
<1>1. Len(b) \in Nat
  BY LenProperties DEF Streams
<1>2. rest \in Streams /\ \A K : Of(b, K) => Of(rest, K)
  BY RestOf
<1>3. /\ head \in Streams /\ Len(head) = n
      /\ \A K : Of(b, K) => Of(head, K)
  BY <1>1, Cut
<1>4. /\ some \in Streams /\ kept \in Streams
      /\ \A K : Of(rest, K) => Of(some, K) /\ Of(kept, K)
      /\ InStep => Of(some, Kind \ Dropped)
  <2> HIDE DEF rest
  <2>1. r \in Readings(rest)
    BY DEF rest
  <2> QED
    BY <1>2, <2>1, ReadingsDrop
<1>5. Inits(b) => Inits(head) /\ Of(rest, Known)
  <2> SUFFICES ASSUME Inits(b) PROVE Inits(head) /\ Of(rest, Known)
    OBVIOUS
  <2>1. b[1][1] = "init"
    BY DEF Inits
  <2>2. n \in 1 .. Len(b)
    BY <1>1, <2>1
  <2> QED
    BY <2>2, Initiations
<1> HIDE DEF rest, head, some, kept
<1>6. /\ relayed \in Streams
      /\ Len(relayed) = Len(head) + Len(some)
      /\ \A i \in 1 .. Len(head) + Len(some) :
            relayed[i] = IF i <= Len(head) THEN head[i] ELSE some[i - Len(head)]
  BY <1>3, <1>4, ConcatProperties DEF Streams
<1>7. \A K : Of(head, K) /\ Of(some, K) => Of(relayed, K)
  BY <1>3, <1>4, Joined
<1>8. Inits(b) => Inits(relayed) /\ Of(kept, Known)
  BY <1>2, <1>3, <1>4, <1>5, Initiations
<1> HIDE DEF relayed
<1>9. ASSUME InStep, NEW i \in 1 .. Len(relayed), relayed[i][1] \in Dropped
      PROVE  b[1][1] = "init" /\ i <= asker.format + 1
  <2>1. Len(some) \in Nat
    BY <1>4, LenProperties DEF Streams
  <2>2. i <= n
    <3> SUFFICES ASSUME ~(i <= n) PROVE FALSE
      OBVIOUS
    <3>1. i - n \in 1 .. Len(some) /\ relayed[i] = some[i - n]
      BY <1>3, <1>6, <2>1
    <3>2. some[i - n][1] \in Kind \ Dropped
      BY <1>4, <1>9, <3>1 DEF Of
    <3> QED
      BY <1>9, <3>1, <3>2
  <2>3. b[1][1] = "init"
    BY <1>6, <2>1, <2>2
  <2> QED
    BY <2>2, <2>3
<1>10. \A K : Of(b, K) => Of(relayed, K) /\ Of(kept, K)
  BY <1>2, <1>3, <1>4, <1>7
<1>11. Split(b, relayed, kept)
  BY <1>8, <1>9, <1>10 DEF Split
<1> QED
  BY <1>4, <1>6, <1>11 DEF rest, head, some, relayed, kept

LEMMA Closes ==
    ASSUME Sockets
    PROVE  /\ Close(bws) \in {"open", "closing", "closed"}
           /\ Close(pws) \in {"none", "connecting", "open", "closing", "closed"}
           /\ pws = "open" => Close(pws) = "closing"
           /\ Close(pws) # "open"
BY DEF Sockets, Close

\* The messages that the two ends and the proxy make.
LEMMA Made ==
    /\ Message("version") \in Streams /\ Message("none") \in Streams /\ Message("ok") \in Streams
    /\ Message("response") \in Streams /\ Message("select") \in Streams /\ Message("request") \in Streams
    /\ Message("input") \in Streams /\ Message("init") \in Streams
BY Messages DEF Kind, Short

LEMMA AnswerType ==
    ASSUME TypeOK, NEW m, NEW a \in Answer(m)
    PROVE  /\ a[1] \in {"version", "select", "response", "init", "serving", "failed"}
           /\ a[2] \in Streams
<1>1. /\ Message("types") \in Streams /\ Message("challenge") \in Streams /\ Message("result") \in Streams
      /\ Message("denied") \in Streams /\ Message("reason") \in Streams
      /\ Message("sinit") \in Streams /\ Message("frame") \in Streams
  BY Messages DEF Kind, Short
<1>2. Message("denied") \o Message("reason") \in Streams
  BY <1>1, Joined
<1>3. peer.server \in {"version", "select", "response", "init", "serving", "failed"}
  BY DEF TypeOK
<1>4. CASE m = "version"
  BY <1>1, <1>4 DEF Answer
<1>5. CASE m = "select"
  BY <1>1, <1>5 DEF Answer
<1>6. CASE m = "response"
  <2>1. Answer(m) = {<<"init", Message("result")>>, <<"failed", Message("denied") \o Message("reason")>>}
    BY <1>6 DEF Answer
  <2>2. CASE a = <<"init", Message("result")>>
    BY <1>1, <2>2
  <2>3. CASE a = <<"failed", Message("denied") \o Message("reason")>>
    BY <1>2, <2>3
  <2> QED
    BY <2>1, <2>2, <2>3
<1>7. CASE m = "init"
  BY <1>1, <1>7 DEF Answer
<1>8. CASE m = "request"
  BY <1>1, <1>8 DEF Answer
<1>9. CASE m \notin {"version", "select", "response", "init", "request"}
  BY <1>3, <1>9, Nothing DEF Answer
<1> QED
  BY <1>4, <1>5, <1>6, <1>7, <1>8, <1>9

LEMMA ReactionType ==
    ASSUME TypeOK, NEW m
    PROVE  /\ Reaction(m)[1] \in {"version", "none", "ok", "sinit", "connected"}
           /\ Reaction(m)[2] \in Streams
           /\ Reaction(m)[2] = Message("request") => sent.requests < MaxRequests
<1>1. peer.browser \in {"version", "none", "ok", "sinit", "connected"}
  BY DEF TypeOK
<1>2. /\ Message("version") # Message("request") /\ Message("select") # Message("request")
      /\ Message("init") # Message("request") /\ <<>> # Message("request")
  BY DEF Message, Short
<1>3. CASE m = "version"
  BY <1>2, <1>3, Made DEF Reaction
<1>4. CASE m = "none"
  BY <1>2, <1>4, Made DEF Reaction
<1>5. CASE m = "ok"
  BY <1>2, <1>5, Made DEF Reaction
<1>6. CASE m \in {"sinit", "frame"}
  <2>1. Reaction(m) = <<"connected", IF sent.requests < MaxRequests THEN Message("request") ELSE <<>>>>
    BY <1>6 DEF Reaction
  <2> QED
    BY <1>2, <2>1, Made, Nothing
<1>7. CASE m \notin {"version", "none", "ok", "sinit", "frame"}
  <2>1. Reaction(m) = <<peer.browser, <<>>>>
    BY <1>7 DEF Reaction
  <2> QED
    BY <1>1, <1>2, <2>1, Nothing
<1> QED
  BY <1>3, <1>4, <1>5, <1>6, <1>7

LEMMA TypeParts ==
    TypeOK <=> /\ asker \in Askers
               /\ pc \in {"lookup", "ticket", "attached", "refused"}
               /\ Sockets
               /\ phase \in Phases
               /\ buf \in Buffers /\ wire \in Wires
               /\ peer \in [server : {"version", "select", "response", "init", "serving", "failed"},
                            browser : {"version", "none", "ok", "sinit", "connected"}]
               /\ reached \in Seq(Kind)
               /\ sent \in [requests : 0 .. MaxRequests, inputs : 0 .. MaxInputs]
BY DEF TypeOK, Sockets, Buffers, Wires, Streams

\* One pass over what the server has sent.
LEMMA ServerPass ==
    ASSUME TypeOK, NEW b \in Streams, NEW w \in Wires,
           ServerVersion(b, w) \/ ServerSecTypes(b, w) \/ ServerChallenge(b, w) \/ ServerResult(b, w)
    PROVE  phase' \in Phases /\ buf' \in Buffers /\ wire' \in Wires /\ Sockets'
<1>1. buf \in Buffers /\ phase \in Phases /\ Sockets
  BY TypeParts
<1>2. SubSeq(b, 3, Len(b)) \in Streams
  BY RestOf
<1>3. Message("ok") \o SubSeq(b, 3, Len(b)) \in Streams
  BY <1>2, Made, Joined
<1>4. buf' \in Buffers
  <2>1. PICK c \in Streams : buf' = [buf EXCEPT !.server = c]
    BY <1>2, Nothing DEF ServerVersion, ServerSecTypes, ServerChallenge, ServerResult
  <2> QED
    BY <1>1, <2>1 DEF Buffers
<1>5. wire' \in Wires
  <2>1. \/ wire' = w
        \/ \E m \in Streams : wire' = ToBrowser(w, m) \/ wire' = ToServer(w, m)
    BY <1>3, Made DEF ServerVersion, ServerSecTypes, ServerChallenge, ServerResult
  <2> QED
    BY <2>1, Sends
<1>6. phase' \in Phases
  BY <1>1 DEF ServerVersion, ServerSecTypes, ServerChallenge, ServerResult, Phases
<1>7. Sockets'
  <2>1. /\ bws' \in {bws, Close(bws)} /\ pws' \in {pws, Close(pws)}
        /\ UNCHANGED <<missed, quit>>
    BY DEF ServerVersion, ServerSecTypes, ServerChallenge, ServerResult, sockets
  <2> QED
    BY <1>1, <2>1, Closes DEF Sockets
<1> QED
  BY <1>4, <1>5, <1>6, <1>7

\* The filter keeps a buffer that starts with ClientInit, until there are 20 bytes
\* of it or for good, or relays some of it.
Waits(b, w) ==
    /\ wire' = w /\ buf' = [buf EXCEPT !.spectate = b]
    /\ b[1][1] = "init" /\ (asker.format # 0 \/ pws' = Close(pws))
Relays(b, w) ==
    \E relayed, kept \in Streams :
       /\ Split(b, relayed, kept)
       /\ wire' = ToServer(w, relayed) /\ buf' = [buf EXCEPT !.spectate = kept]

LEMMA Formats == ASSUME NEW f \in {0} \cup Spans PROVE f \in Nat
<1>1. CASE f \in Spans
  <2>1. Spans \subseteq Nat \ {0}
    BY SpansAssumption
  <2>2. f \in Nat \ {0}
    BY <1>1, <2>1, Zenon
  <2> QED
    BY <2>2
<1>2. CASE f = 0
  BY <1>2
<1> QED
  BY <1>1, <1>2

LEMMA FilterPass ==
    ASSUME TypeOK, NEW b \in Streams, b # <<>>, NEW w \in Wires, Filter(b, w)
    PROVE  /\ Waits(b, w) \/ Relays(b, w)
           /\ bws' \in {bws, Close(bws)} /\ pws' \in {pws, Close(pws)}
           /\ buf' \in Buffers /\ wire' \in Wires /\ Sockets'
<1>1. buf \in Buffers /\ Sockets /\ asker.format \in Nat
  <2>1. asker.format \in {0} \cup Spans
    BY TypeParts DEF Askers
  <2> QED
    BY <2>1, Formats, TypeParts
<1>2. Len(b) \in Nat
  BY LenProperties DEF Streams
<1> DEFINE init   == b[1][1] = "init"
           format == IF init THEN asker.format + 1 ELSE 0
           rest   == SubSeq(b, format + 1, Len(b))
<1>3. /\ bws' \in {bws, Close(bws)} /\ pws' \in {pws, Close(pws)}
      /\ UNCHANGED <<missed, quit>>
  BY DEF Filter, sockets
<1>4. Waits(b, w) \/ Relays(b, w)
  <2>1. CASE /\ init /\ asker.format = 0
             /\ buf' = [buf EXCEPT !.spectate = b] /\ wire' = w /\ pws' = Close(pws)
    BY <2>1 DEF Waits
  <2>2. CASE Len(b) < format /\ buf' = [buf EXCEPT !.spectate = b] /\ wire' = w
    <3>1. init
      BY <1>2, <2>2
    <3>2. asker.format # 0 \/ pws' = Close(pws)
      <4>1. Len(b) # 0
        BY EmptySeq DEF Streams
      <4> QED
        BY <1>2, <2>2, <3>1, <4>1
    <3> QED
      BY <2>2, <3>1, <3>2 DEF Waits
  <2>3. CASE /\ Len(b) >= format
             /\ \E r \in Readings(rest) :
                   /\ wire' = ToServer(w, SubSeq(b, 1, format) \o Picked(rest, r[2]))
                   /\ buf' = [buf EXCEPT !.spectate = SubSeq(rest, r[1] + 1, Len(rest))]
    <3>1. format \in Nat /\ format <= Len(b)
      BY <1>1, <1>2, <2>3
    <3>2. PICK r \in Readings(rest) :
             /\ wire' = ToServer(w, SubSeq(b, 1, format) \o Picked(rest, r[2]))
             /\ buf' = [buf EXCEPT !.spectate = SubSeq(rest, r[1] + 1, Len(rest))]
      BY <2>3
    <3>3. /\ b[1][1] = "init" => format = asker.format + 1 /\ asker.format \in Nat
          /\ b[1][1] # "init" => format = 0
      BY <1>1
    <3> HIDE DEF format
    <3>4. LET relayed == SubSeq(b, 1, format) \o Picked(rest, r[2])
              kept    == SubSeq(rest, r[1] + 1, Len(rest))
          IN  relayed \in Streams /\ kept \in Streams /\ Split(b, relayed, kept)
      BY <3>1, <3>3, SplitHead
    <3> QED
      BY <3>2, <3>4 DEF Relays
  <2> QED
    BY <2>1, <2>2, <2>3 DEF Filter
<1>5. Sockets'
  BY <1>1, <1>3, Closes DEF Sockets
<1>6. buf' \in Buffers
  <2>1. PICK c \in Streams : buf' = [buf EXCEPT !.spectate = c]
    BY <1>4 DEF Waits, Relays
  <2> QED
    BY <1>1, <2>1 DEF Buffers
<1>7. wire' \in Wires
  <2>1. wire' = w \/ \E r \in Streams : wire' = ToServer(w, r)
    BY <1>4 DEF Waits, Relays
  <2> QED
    BY <2>1, Sends
<1> QED
  BY <1>3, <1>4, <1>5, <1>6, <1>7

\* One message of the browser, by whoever takes it.
LEMMA ClientPass ==
    ASSUME TypeOK, NEW b \in Streams, NEW w \in Wires,
           ClientVersion(b, w) \/ (ClientSecSelect(b, w) /\ b # <<>>)
    PROVE  /\ \E r \in {<<>>, Message("version"), Message("select")} : wire' = ToServer(w, r) \/ wire' = w
           /\ phase' \in Phases /\ buf' \in Buffers /\ wire' \in Wires
<1>1. buf \in Buffers /\ phase \in Phases
  BY TypeParts
<1>2. SubSeq(b, 3, Len(b)) \in Streams
  BY RestOf
<1>3. b # <<>> => Tail(b) \in Streams
  BY HeadTailProperties DEF Streams
<1>4. PICK c \in Streams : buf' = [buf EXCEPT !.client = c]
  BY <1>2, <1>3 DEF ClientVersion, ClientSecSelect
<1>5. buf' \in Buffers
  BY <1>1, <1>4 DEF Buffers
<1>6. PICK r \in {<<>>, Message("version"), Message("select")} : wire' = ToServer(w, r) \/ wire' = w
  BY DEF ClientVersion, ClientSecSelect
<1>7. wire' \in Wires
  BY <1>6, Made, Nothing, Sends
<1>8. phase' \in Phases
  BY <1>1 DEF ClientVersion, ClientSecSelect, Phases
<1> QED
  BY <1>5, <1>6, <1>7, <1>8

LEMMA Typed ==
    ASSUME TypeOK, [Next]_vars
    PROVE  TypeOK'
<1>1. /\ asker \in Askers
      /\ pc \in {"lookup", "ticket", "attached", "refused"}
      /\ Sockets
      /\ phase \in Phases
      /\ buf \in Buffers /\ wire \in Wires
      /\ peer \in [server : {"version", "select", "response", "init", "serving", "failed"},
                   browser : {"version", "none", "ok", "sinit", "connected"}]
      /\ reached \in Seq(Kind)
      /\ sent \in [requests : 0 .. MaxRequests, inputs : 0 .. MaxInputs]
  BY TypeParts
<1>c. Close(bws) \in {"open", "closing", "closed"}
  BY <1>1, Closes
<1>k. ASSUME UNCHANGED asker, UNCHANGED reached, UNCHANGED peer, UNCHANGED sent,
             pc' \in {"lookup", "ticket", "attached", "refused"},
             Sockets', phase' \in Phases, buf' \in Buffers, wire' \in Wires
      PROVE  TypeOK'
  BY <1>1, <1>k DEF TypeOK, Sockets, Buffers, Wires, Streams
<1>2. CASE Lookup \/ Attach \/ TicketFails \/ BrowserGone \/ ServerGone \/ ServerCloses \/ BrowserCloses
  <2>1. UNCHANGED <<asker, reached, peer, sent, phase, buf, wire>>
    BY <1>2 DEF Lookup, Refuse, Attach, TicketFails, BrowserGone, ServerGone, ServerCloses, BrowserCloses
  <2>2. pc' \in {"lookup", "ticket", "attached", "refused"}
    BY <1>1, <1>2 DEF Lookup, Refuse, Attach, TicketFails, BrowserGone, ServerGone, ServerCloses, BrowserCloses
  <2>3. Sockets'
    <3>1. bws' \in {"open", "closing", "closed"}
      BY <1>1, <1>2, <1>c
      DEF Lookup, Refuse, Attach, TicketFails, BrowserGone, ServerGone, ServerCloses, BrowserCloses, Sockets, sockets
    <3>2. pws' \in {"none", "connecting", "open", "closing", "closed"}
      BY <1>1, <1>2
      DEF Lookup, Refuse, Attach, TicketFails, BrowserGone, ServerGone, ServerCloses, BrowserCloses, Sockets, sockets
    <3>3. missed' \in BOOLEAN
      <4>1. CASE BrowserCloses
        <5> DEFINE early == pc \in {"lookup", "ticket"}
        <5>1. missed' = early
          BY <4>1 DEF BrowserCloses
        <5>2. early \in BOOLEAN
          OBVIOUS
        <5> HIDE DEF early
        <5> QED
          BY <5>1, <5>2
      <4>2. CASE Lookup \/ Attach \/ TicketFails \/ BrowserGone \/ ServerGone \/ ServerCloses
        <5>1. UNCHANGED missed
          BY <4>2 DEF Lookup, Refuse, Attach, TicketFails, BrowserGone, ServerGone, ServerCloses, sockets
        <5> QED
          BY <1>1, <5>1 DEF Sockets
      <4> QED
        BY <1>2, <4>1, <4>2
    <3>4. quit' \in BOOLEAN
      <4>1. CASE ServerCloses \/ BrowserCloses
        <5>1. quit' = (quit \/ pws # "closing") \/ quit' = (quit \/ bws = "open")
          BY <4>1 DEF ServerCloses, BrowserCloses
        <5> QED
          BY <5>1, Zenon
      <4>2. CASE Lookup \/ Attach \/ TicketFails \/ BrowserGone \/ ServerGone
        <5>1. UNCHANGED quit
          BY <4>2 DEF Lookup, Refuse, Attach, TicketFails, BrowserGone, ServerGone, sockets
        <5> QED
          BY <1>1, <5>1 DEF Sockets
      <4> QED
        BY <1>2, <4>1, <4>2
    <3> QED
      BY <3>1, <3>2, <3>3, <3>4 DEF Sockets
  <2> QED
    BY <1>1, <2>1, <2>2, <2>3, <1>k
<1>3. CASE ServerMessage
  <2>1. PICK n \in 1 .. Len(wire.proxyFromServer) :
          LET raw == SubSeq(wire.proxyFromServer, 1, n)
              w == [wire EXCEPT !.proxyFromServer = SubSeq(@, n + 1, Len(@))]
              b == Accumulate(raw)
          IN  IF phase = "TRANSPARENT"
              THEN wire' = ToBrowser(w, raw) /\ UNCHANGED <<phase, buf, sockets>>
              ELSE ServerVersion(b, w) \/ ServerSecTypes(b, w) \/ ServerChallenge(b, w) \/ ServerResult(b, w)
    BY <1>3 DEF ServerMessage
  <2> DEFINE raw == SubSeq(wire.proxyFromServer, 1, n)
             w   == [wire EXCEPT !.proxyFromServer = SubSeq(@, n + 1, Len(@))]
             b   == Accumulate(raw)
  <2>2. wire.proxyFromServer \in Streams /\ buf.server \in Streams
    BY <1>1 DEF Wires, Buffers
  <2>3. raw \in Streams /\ n \in Nat
    BY <2>2, Raw
  <2>4. w \in Wires
    BY <1>1, <2>3, Arrives
  <2>5. b \in Streams
    BY <2>2, <2>3, Joined DEF Accumulate
  <2>6. phase' \in Phases /\ buf' \in Buffers /\ wire' \in Wires /\ Sockets'
    <3>1. CASE phase = "TRANSPARENT"
      <4>1. wire' = ToBrowser(w, raw) /\ UNCHANGED <<phase, buf, sockets>>
        BY <2>1, <3>1
      <4> HIDE DEF w, raw
      <4>2. Sockets'
        BY <1>1, <4>1 DEF Sockets, sockets
      <4> QED
        BY <1>1, <2>3, <2>4, <4>1, <4>2, Sends
    <3>2. CASE phase # "TRANSPARENT"
      <4>1. ServerVersion(b, w) \/ ServerSecTypes(b, w) \/ ServerChallenge(b, w) \/ ServerResult(b, w)
        BY <2>1, <3>2
      <4> HIDE DEF w, b
      <4> QED
        BY <2>4, <2>5, <4>1, ServerPass
    <3> QED
      BY <3>1, <3>2
  <2>7. UNCHANGED <<asker, pc, peer, sent, reached>>
    BY <1>3 DEF ServerMessage
  <2> QED
    BY <1>1, <2>6, <2>7, <1>k
<1>4. CASE BrowserMessage
  <2>1. PICK n \in 1 .. Len(wire.proxyFromBrowser) :
          LET raw == SubSeq(wire.proxyFromBrowser, 1, n)
              w == [wire EXCEPT !.proxyFromBrowser = SubSeq(@, n + 1, Len(@))]
          IN  \/ phase = "TRANSPARENT" /\ Spectator /\ Filter(buf.spectate \o raw, w) /\ UNCHANGED phase
              \/ phase = "TRANSPARENT" /\ ~Spectator /\ wire' = ToServer(w, raw) /\ UNCHANGED <<phase, buf, sockets>>
              \/ ClientVersion(buf.client \o raw, w) /\ UNCHANGED sockets
              \/ ClientSecSelect(buf.client \o raw, w) /\ UNCHANGED sockets
              \/ /\ phase \notin {"TRANSPARENT", "CLIENT_VERSION", "CLIENT_SEC_SELECT"}
                 /\ wire' = w /\ buf' = [buf EXCEPT !.client = @ \o raw] /\ UNCHANGED <<phase, sockets>>
    BY <1>4 DEF BrowserMessage
  <2> DEFINE raw == SubSeq(wire.proxyFromBrowser, 1, n)
             w   == [wire EXCEPT !.proxyFromBrowser = SubSeq(@, n + 1, Len(@))]
  <2>2. wire.proxyFromBrowser \in Streams /\ buf.client \in Streams /\ buf.spectate \in Streams
    BY <1>1 DEF Wires, Buffers
  <2>3. raw \in Streams /\ n \in Nat
    BY <2>2, Raw
  <2>4. w \in Wires
    BY <1>1, <2>3, Arrives
  <2>5. /\ buf.client \o raw \in Streams /\ buf.client \o raw # <<>>
        /\ buf.spectate \o raw \in Streams /\ buf.spectate \o raw # <<>>
    <3>1. Len(raw) = n /\ n # 0 /\ Len(buf.client) \in Nat /\ Len(buf.spectate) \in Nat
      <4>1. Len(wire.proxyFromBrowser) \in Nat /\ Len(buf.client) \in Nat /\ Len(buf.spectate) \in Nat
        BY <2>2, LenProperties DEF Streams
      <4>2. n <= Len(wire.proxyFromBrowser) /\ 1 <= n
        BY <4>1
      <4> QED
        BY <2>2, <2>3, <4>1, <4>2, Cut
    <3>2. Len(buf.client \o raw) # 0 /\ Len(buf.spectate \o raw) # 0
      <4> HIDE DEF raw
      <4>1. /\ Len(buf.client \o raw) = Len(buf.client) + Len(raw)
            /\ Len(buf.spectate \o raw) = Len(buf.spectate) + Len(raw)
        BY <2>2, <2>3, Joined
      <4> QED
        BY <2>3, <3>1, <4>1
    <3> HIDE DEF raw
    <3> QED
      BY <2>2, <2>3, <3>2, Joined, Nothing
  <2>6. phase' \in Phases /\ buf' \in Buffers /\ wire' \in Wires /\ Sockets'
    <3>1. CASE Filter(buf.spectate \o raw, w) /\ UNCHANGED phase
      <4> HIDE DEF w, raw
      <4> QED
        BY <1>1, <2>4, <2>5, <3>1, FilterPass
    <3>2. CASE wire' = ToServer(w, raw) /\ UNCHANGED <<phase, buf, sockets>>
      <4> HIDE DEF w, raw
      <4>1. Sockets'
        BY <1>1, <3>2 DEF Sockets, sockets
      <4> QED
        BY <1>1, <2>3, <2>4, <3>2, <4>1, Sends
    <3>3. CASE (ClientVersion(buf.client \o raw, w) \/ ClientSecSelect(buf.client \o raw, w)) /\ UNCHANGED sockets
      <4> HIDE DEF w, raw
      <4>1. Sockets'
        BY <1>1, <3>3 DEF Sockets, sockets
      <4> QED
        BY <2>4, <2>5, <3>3, <4>1, ClientPass
    <3>4. CASE wire' = w /\ buf' = [buf EXCEPT !.client = @ \o raw] /\ UNCHANGED <<phase, sockets>>
      <4> HIDE DEF w, raw
      <4>1. Sockets'
        BY <1>1, <3>4 DEF Sockets, sockets
      <4>2. buf' \in Buffers
        BY <1>1, <2>5, <3>4 DEF Buffers
      <4> QED
        BY <1>1, <2>4, <3>4, <4>1, <4>2
    <3> QED
      BY <2>1, <3>1, <3>2, <3>3, <3>4
  <2>7. UNCHANGED <<asker, pc, peer, sent, reached>>
    BY <1>4 DEF BrowserMessage
  <2> QED
    BY <1>1, <2>6, <2>7, <1>k
<1>5. CASE ServerOpens
  <2>1. wire' = [wire EXCEPT !.proxyFromServer = Message("version")] /\ pws' = "open"
    BY <1>5 DEF ServerOpens
  <2>2. wire' \in Wires
    BY <1>1, <2>1, Made DEF Wires
  <2>3. UNCHANGED <<asker, pc, bws, missed, quit, phase, buf, peer, sent, reached>>
    BY <1>5 DEF ServerOpens
  <2>4. Sockets'
    BY <1>1, <2>1, <2>3 DEF Sockets
  <2> QED
    BY <1>1, <2>2, <2>3, <2>4, <1>k
<1>6. CASE ServerReads
  <2> DEFINE m == wire.server[1][1]
  <2>1. wire.server \in Streams /\ wire.proxyFromServer \in Streams
    BY <1>1 DEF Wires
  <2>2. m \in Kind
    <3>1. Len(wire.server) # 0 /\ Len(wire.server) \in Nat
      <4>1. Complete(wire.server) # <<>> /\ Complete(wire.server) \in Streams
        BY <1>6, <2>1, Wholes DEF ServerReads
      <4>2. Len(Complete(wire.server)) \in Nat \ {0}
        BY <4>1, EmptySeq DEF Streams
      <4>3. Len(wire.server) \in Nat
        BY <2>1, LenProperties DEF Streams
      <4> QED
        BY <2>1, <4>2, <4>3, Wholes
    <3>2. 1 \in 1 .. Len(wire.server)
      BY <3>1
    <3> QED
      BY <2>1, <3>2, PieceKind
  <2> HIDE DEF m
  <2>3. /\ \E a \in IF peer.server \in {m, "serving"} THEN Answer(m) ELSE {<<"failed", <<>>>>} :
             /\ peer' = [peer EXCEPT !.server = a[1]]
             /\ wire' = [wire EXCEPT !.server = SubSeq(@, Len(Message(m)) + 1, Len(@)),
                                     !.proxyFromServer = @ \o a[2]]
             /\ quit' = (quit \/ a[1] = "failed")
        /\ reached' = Append(reached, m)
        /\ UNCHANGED <<asker, pc, bws, pws, missed, phase, buf, sent>>
    BY <1>6 DEF ServerReads, m
  <2>4. PICK a \in IF peer.server \in {m, "serving"} THEN Answer(m) ELSE {<<"failed", <<>>>>} :
             /\ peer' = [peer EXCEPT !.server = a[1]]
             /\ wire' = [wire EXCEPT !.server = SubSeq(@, Len(Message(m)) + 1, Len(@)),
                                     !.proxyFromServer = @ \o a[2]]
             /\ quit' = (quit \/ a[1] = "failed")
    BY <2>3
  <2>a. /\ a[1] \in {"version", "select", "response", "init", "serving", "failed"}
        /\ a[2] \in Streams
    <3>1. CASE a \in Answer(m)
      BY <3>1, AnswerType
    <3>2. CASE a = <<"failed", <<>>>>
      BY <3>2, Nothing
    <3> QED
      BY <3>1, <3>2
  <2>5. wire' \in Wires
    <3>1. Len(Message(m)) \in Nat
      BY <2>2, Messages
    <3>2. SubSeq(wire.server, Len(Message(m)) + 1, Len(wire.server)) \in Streams
      BY <2>1, <3>1, RestOf
    <3>3. wire.proxyFromServer \o a[2] \in Streams
      BY <2>1, <2>a, Joined
    <3> QED
      BY <1>1, <2>4, <3>2, <3>3 DEF Wires
  <2>6. reached' \in Seq(Kind)
    BY <1>1, <2>2, <2>3, AppendProperties
  <2>7. peer' \in [server : {"version", "select", "response", "init", "serving", "failed"},
                   browser : {"version", "none", "ok", "sinit", "connected"}]
    BY <1>1, <2>4, <2>a
  <2>8. Sockets'
    BY <1>1, <2>3, <2>4 DEF Sockets
  <2> QED
    BY <1>1, <2>3, <2>5, <2>6, <2>7, <2>8 DEF TypeOK, Sockets, Buffers, Wires, Streams
<1>7. CASE BrowserReads
  <2> DEFINE m == wire.browser[1][1]
             r == Reaction(m)
  <2>1. /\ peer' = [peer EXCEPT !.browser = r[1]]
        /\ wire' = [wire EXCEPT !.browser = SubSeq(@, Len(Message(m)) + 1, Len(@)),
                                !.proxyFromBrowser = @ \o r[2]]
        /\ sent' = IF r[2] = Message("request") THEN [sent EXCEPT !.requests = @ + 1] ELSE sent
        /\ UNCHANGED <<asker, pc, sockets, phase, buf, reached>>
    BY <1>7 DEF BrowserReads
  <2>2. /\ r[1] \in {"version", "none", "ok", "sinit", "connected"}
        /\ r[2] \in Streams
        /\ r[2] = Message("request") => sent.requests < MaxRequests
    BY ReactionType
  <2> HIDE DEF r
  <2>3. wire.browser \in Streams /\ wire.proxyFromBrowser \in Streams
    BY <1>1 DEF Wires
  <2>4. Len(Message(m)) \in Nat
    BY DEF Message
  <2> HIDE DEF m
  <2>5. wire' \in Wires
    <3>1. SubSeq(wire.browser, Len(Message(m)) + 1, Len(wire.browser)) \in Streams
      BY <2>3, <2>4, RestOf
    <3>2. wire.proxyFromBrowser \o r[2] \in Streams
      BY <2>2, <2>3, Joined
    <3> QED
      BY <1>1, <2>1, <3>1, <3>2 DEF Wires
  <2>6. peer' \in [server : {"version", "select", "response", "init", "serving", "failed"},
                   browser : {"version", "none", "ok", "sinit", "connected"}]
    BY <1>1, <2>1, <2>2
  <2>7. sent' \in [requests : 0 .. MaxRequests, inputs : 0 .. MaxInputs]
    <3>1. MaxRequests \in Nat
      BY BoundsAssumption
    <3>2. CASE r[2] = Message("request")
      <4>1. sent' = [sent EXCEPT !.requests = @ + 1] /\ sent.requests + 1 \in 0 .. MaxRequests
        BY <1>1, <2>1, <2>2, <3>1, <3>2
      <4> QED
        BY <1>1, <4>1
    <3>3. CASE r[2] # Message("request")
      BY <1>1, <2>1, <3>3
    <3> QED
      BY <3>2, <3>3
  <2>8. Sockets'
    BY <1>1, <2>1 DEF Sockets, sockets
  <2> QED
    BY <1>1, <2>1, <2>5, <2>6, <2>7, <2>8 DEF TypeOK, Sockets, Buffers, Wires, Streams
<1>8. CASE BrowserInput
  <2>1. /\ sent' = [sent EXCEPT !.inputs = @ + 1] /\ sent.inputs < MaxInputs
        /\ wire' = [wire EXCEPT !.proxyFromBrowser = @ \o Message("input")]
        /\ UNCHANGED <<asker, pc, sockets, phase, buf, peer, reached>>
    BY <1>8 DEF BrowserInput
  <2>2. wire' \in Wires
    <3>1. wire.proxyFromBrowser \o Message("input") \in Streams
      BY <1>1, Made, Joined DEF Wires
    <3> QED
      BY <1>1, <2>1, <3>1 DEF Wires
  <2>3. sent' \in [requests : 0 .. MaxRequests, inputs : 0 .. MaxInputs]
    BY <1>1, <2>1, BoundsAssumption
  <2>4. Sockets'
    BY <1>1, <2>1 DEF Sockets, sockets
  <2> QED
    BY <1>1, <2>1, <2>2, <2>3, <2>4 DEF TypeOK, Sockets, Buffers, Wires, Streams
<1>9. CASE UNCHANGED vars
  <2>1. Sockets'
    BY <1>1, <1>9 DEF vars, sockets, Sockets
  <2> QED
    BY <1>1, <1>9, <2>1, <1>k DEF vars
<1> QED
  BY <1>2, <1>3, <1>4, <1>5, <1>6, <1>7, <1>8, <1>9 DEF Next, Handler

LEMMA TypedInit == Init => TypeOK
<1> SUFFICES ASSUME Init PROVE TypeOK
  OBVIOUS
<1>1. buf \in Buffers /\ wire \in Wires
  BY Nothing DEF Init, Buffers, Wires
<1>2. sent \in [requests : 0 .. MaxRequests, inputs : 0 .. MaxInputs]
  BY BoundsAssumption DEF Init
<1>3. reached \in Seq(Kind)
  BY EmptySeq DEF Init
<1> QED
  BY <1>1, <1>2, <1>3 DEF Init, TypeOK, Phases, Buffers, Wires, Streams

\* What is under way, kept or read is made of pieces of messages, however it is
\* cut, and the parties are in states they know.
THEOREM TypeCorrect == Spec => []TypeOK
BY TypedInit, Typed, PTL DEF Spec

-----------------------------------------------------------------------------
(* What a step does to each stream *)

LEMMA StreamTypes ==
    ASSUME TypeOK
    PROVE  /\ wire \in Wires /\ buf \in Buffers /\ Sockets
           /\ wire.server \in Streams /\ wire.browser \in Streams
           /\ wire.proxyFromServer \in Streams /\ wire.proxyFromBrowser \in Streams
           /\ buf.server \in Streams /\ buf.client \in Streams /\ buf.spectate \in Streams
           /\ reached \in Seq(Kind)
BY TypeParts DEF Wires, Buffers

\* The server hears of the proxy when its challenge is answered, if it still
\* listens, and of nothing else.
LEMMA ServerMessageSends ==
    ASSUME TypeOK, ServerMessage
    PROVE  wire'.server \in {wire.server, wire.server \o Message("response")}
<1>1. PICK n \in 1 .. Len(wire.proxyFromServer) :
        LET raw == SubSeq(wire.proxyFromServer, 1, n)
            w == [wire EXCEPT !.proxyFromServer = SubSeq(@, n + 1, Len(@))]
            b == Accumulate(raw)
        IN  IF phase = "TRANSPARENT"
            THEN wire' = ToBrowser(w, raw) /\ UNCHANGED <<phase, buf, sockets>>
            ELSE ServerVersion(b, w) \/ ServerSecTypes(b, w) \/ ServerChallenge(b, w) \/ ServerResult(b, w)
  BY DEF ServerMessage
<1> DEFINE raw == SubSeq(wire.proxyFromServer, 1, n)
           w   == [wire EXCEPT !.proxyFromServer = SubSeq(@, n + 1, Len(@))]
           b   == Accumulate(raw)
<1>2. raw \in Streams /\ n \in Nat
  BY StreamTypes, Raw
<1>3. w \in Wires /\ w.server = wire.server
  <2>1. w \in Wires
    BY <1>2, StreamTypes, Arrives
  <2> QED
    BY <2>1, StreamTypes DEF Wires
<1>4. b \in Streams /\ SubSeq(b, 3, Len(b)) \in Streams
  <2>1. b = buf.server \o raw
    BY DEF Accumulate
  <2> HIDE DEF b, raw
  <2>2. b \in Streams
    BY <1>2, <2>1, StreamTypes, Joined
  <2> QED
    BY <2>2, RestOf
<1>5. Message("ok") \o SubSeq(b, 3, Len(b)) \in Streams
  BY <1>4, Made, Joined
<1>6. \/ wire' = w
      \/ \E m \in Streams : wire' = ToBrowser(w, m)
      \/ wire' = ToServer(w, Message("response"))
  <2> HIDE DEF w, b, raw
  <2> QED
    BY <1>1, <1>2, <1>5, Made DEF ServerVersion, ServerSecTypes, ServerChallenge, ServerResult, w, b, raw
<1> HIDE DEF w
<1>7. CASE wire' = w
  BY <1>3, <1>7
<1>8. ASSUME NEW m \in Streams, wire' = ToBrowser(w, m) PROVE wire'.server = wire.server
  BY <1>3, <1>8, Sends
<1>9. CASE wire' = ToServer(w, Message("response"))
  <2>1. Message("response") \in Streams
    BY Made
  <2>2. ToServer(w, Message("response")).server
          = IF pws = "open" THEN w.server \o Message("response") ELSE w.server
    BY <1>3, <2>1, Sends
  <2> QED
    BY <1>3, <1>9, <2>2
<1> QED
  BY <1>6, <1>7, <1>8, <1>9

LEMMA ServerReadsEffect ==
    ASSUME TypeOK, ServerReads
    PROVE  LET m == wire.server[1][1] IN
           /\ pws = "open"
           /\ wire.server # <<>> /\ m \in Kind
           /\ \E a \in IF peer.server \in {m, "serving"} THEN Answer(m) ELSE {<<"failed", <<>>>>} :
                 /\ peer'.server = a[1]
                 /\ wire'.proxyFromServer = wire.proxyFromServer \o a[2]
           /\ peer'.browser = peer.browser
           /\ wire'.server = SubSeq(wire.server, Len(Message(m)) + 1, Len(wire.server))
           /\ wire'.browser = wire.browser /\ wire'.proxyFromBrowser = wire.proxyFromBrowser
           /\ reached' = Append(reached, m)
           /\ UNCHANGED <<asker, pc, bws, pws, phase, buf>>
<1> DEFINE m == wire.server[1][1]
<1>1. wire.server # <<>> /\ m \in Kind
  <2>1. Complete(wire.server) # <<>> /\ Complete(wire.server) \in Streams
    BY StreamTypes, Wholes DEF ServerReads
  <2>2. Len(Complete(wire.server)) \in Nat \ {0}
    BY <2>1, EmptySeq DEF Streams
  <2>3. Len(wire.server) \in Nat
    BY StreamTypes, LenProperties DEF Streams
  <2>4. 1 \in 1 .. Len(wire.server)
    BY StreamTypes, <2>2, <2>3, Wholes
  <2> QED
    BY StreamTypes, <2>4, PieceKind, Nothing
<1>2. \E a \in IF peer.server \in {m, "serving"} THEN Answer(m) ELSE {<<"failed", <<>>>>} :
         /\ peer' = [peer EXCEPT !.server = a[1]]
         /\ wire' = [wire EXCEPT !.server = SubSeq(@, Len(Message(m)) + 1, Len(@)),
                                 !.proxyFromServer = @ \o a[2]]
  BY DEF ServerReads
<1>3. reached' = Append(reached, m) /\ UNCHANGED <<asker, pc, bws, pws, phase, buf>> /\ pws = "open"
  BY DEF ServerReads
<1> HIDE DEF m
<1>4. PICK a \in IF peer.server \in {m, "serving"} THEN Answer(m) ELSE {<<"failed", <<>>>>} :
         /\ peer' = [peer EXCEPT !.server = a[1]]
         /\ wire' = [wire EXCEPT !.server = SubSeq(@, Len(Message(m)) + 1, Len(@)),
                                 !.proxyFromServer = @ \o a[2]]
  BY <1>2
<1>5. peer'.server = a[1] /\ peer'.browser = peer.browser
  BY <1>4 DEF TypeOK
<1>6. /\ wire'.proxyFromServer = wire.proxyFromServer \o a[2]
      /\ wire'.server = SubSeq(wire.server, Len(Message(m)) + 1, Len(wire.server))
      /\ wire'.browser = wire.browser /\ wire'.proxyFromBrowser = wire.proxyFromBrowser
  BY <1>4, StreamTypes DEF Wires
<1>7. \E c \in IF peer.server \in {m, "serving"} THEN Answer(m) ELSE {<<"failed", <<>>>>} :
         peer'.server = c[1] /\ wire'.proxyFromServer = wire.proxyFromServer \o c[2]
  BY <1>5, <1>6
<1> QED
  BY <1>1, <1>3, <1>5, <1>6, <1>7 DEF m

LEMMA BrowserReadsEffect ==
    ASSUME TypeOK, BrowserReads
    PROVE  LET m == wire.browser[1][1] IN
           /\ bws = "open"
           /\ wire.browser # <<>> /\ m \in Kind
           /\ peer'.browser = Reaction(m)[1] /\ peer'.server = peer.server
           /\ wire'.browser = SubSeq(wire.browser, Len(Message(m)) + 1, Len(wire.browser))
           /\ wire'.proxyFromBrowser = wire.proxyFromBrowser \o Reaction(m)[2]
           /\ wire'.server = wire.server /\ wire'.proxyFromServer = wire.proxyFromServer
           /\ UNCHANGED <<asker, pc, bws, pws, phase, buf, reached>>
<1> DEFINE m == wire.browser[1][1]
<1>1. wire.browser # <<>> /\ m \in Kind
  <2>1. Complete(wire.browser) # <<>> /\ Complete(wire.browser) \in Streams
    BY StreamTypes, Wholes DEF BrowserReads
  <2>2. Len(Complete(wire.browser)) \in Nat \ {0}
    BY <2>1, EmptySeq DEF Streams
  <2>3. Len(wire.browser) \in Nat
    BY StreamTypes, LenProperties DEF Streams
  <2>4. 1 \in 1 .. Len(wire.browser)
    BY StreamTypes, <2>2, <2>3, Wholes
  <2> QED
    BY StreamTypes, <2>4, PieceKind, Nothing
<1>2. /\ peer' = [peer EXCEPT !.browser = Reaction(m)[1]]
      /\ wire' = [wire EXCEPT !.browser = SubSeq(@, Len(Message(m)) + 1, Len(@)),
                              !.proxyFromBrowser = @ \o Reaction(m)[2]]
      /\ UNCHANGED <<asker, pc, sockets, phase, buf, reached>> /\ bws = "open"
  BY DEF BrowserReads
<1> HIDE DEF m
<1> DEFINE r == Reaction(m)
<1>3. /\ peer' = [peer EXCEPT !.browser = r[1]]
      /\ wire' = [wire EXCEPT !.browser = SubSeq(@, Len(Message(m)) + 1, Len(@)),
                              !.proxyFromBrowser = @ \o r[2]]
  BY <1>2
<1> HIDE DEF r
<1>4. peer'.browser = r[1] /\ peer'.server = peer.server
  BY <1>3 DEF TypeOK
<1>5. /\ wire'.proxyFromBrowser = wire.proxyFromBrowser \o r[2]
      /\ wire'.browser = SubSeq(wire.browser, Len(Message(m)) + 1, Len(wire.browser))
      /\ wire'.server = wire.server /\ wire'.proxyFromServer = wire.proxyFromServer
  BY <1>3, StreamTypes DEF Wires
<1> QED
  BY <1>1, <1>2, <1>4, <1>5 DEF m, r, sockets

LEMMA BrowserInputEffect ==
    ASSUME TypeOK, BrowserInput
    PROVE  /\ peer.browser \in {"sinit", "connected"}
           /\ wire'.proxyFromBrowser = wire.proxyFromBrowser \o Message("input")
           /\ wire'.browser = wire.browser
           /\ wire'.server = wire.server /\ wire'.proxyFromServer = wire.proxyFromServer
           /\ UNCHANGED <<asker, pc, bws, pws, phase, buf, peer, reached>>
BY StreamTypes DEF BrowserInput, Wires, sockets

-----------------------------------------------------------------------------
(* The handshake *)

\* A message of two pieces that somebody waits for: under way, or half kept.
OnWay(kept, way, m) ==
    \/ kept = <<>> /\ way = <<<<m, 1>>, <<m, 2>>>>
    \/ kept = <<<<m, 1>>>> /\ way = <<<<m, 2>>>>

ServerQuiet == buf.server = <<>> /\ wire.proxyFromServer = <<>>
BrowserQuiet == buf.client = <<>> /\ wire.proxyFromBrowser = <<>>
BrowserWaits == peer.browser = "ok" /\ wire.browser = <<>> /\ BrowserQuiet

\* The stages of the handshake, while the socket to Proxmox is open: who has
\* spoken last, and what has been said.
Greeting ==
    /\ phase = "SERVER_VERSION"
    /\ peer.server = "version" /\ wire.server = <<>> /\ reached = <<>>
    /\ OnWay(buf.server, wire.proxyFromServer, "version")
    /\ peer.browser = "version" /\ wire.browser = <<>> /\ BrowserQuiet

Replying ==
    /\ phase = "CLIENT_VERSION"
    /\ peer.server = "version" /\ wire.server = <<>> /\ reached = <<>>
    /\ ServerQuiet
    /\ \/ peer.browser = "version" /\ wire.browser \in {<<>>, Message("version")} /\ BrowserQuiet
       \/ /\ peer.browser = "none" /\ wire.browser = <<>>
          /\ OnWay(buf.client, wire.proxyFromBrowser, "version")

Offering ==
    /\ phase = "SERVER_SEC_TYPES"
    /\ \/ peer.server = "version" /\ wire.server = Message("version") /\ reached = <<>> /\ ServerQuiet
       \/ /\ peer.server = "select" /\ wire.server = <<>> /\ reached = <<"version">>
          /\ OnWay(buf.server, wire.proxyFromServer, "types")
    /\ peer.browser = "none" /\ wire.browser = <<>> /\ BrowserQuiet

Selecting ==
    /\ phase = "CLIENT_SEC_SELECT"
    /\ peer.server = "select" /\ wire.server = <<>> /\ reached = <<"version">> /\ ServerQuiet
    /\ \/ peer.browser = "none" /\ wire.browser \in {<<>>, Message("none")} /\ BrowserQuiet
       \/ /\ peer.browser = "ok" /\ wire.browser = <<>>
          /\ buf.client = <<>> /\ wire.proxyFromBrowser = Message("select")

Challenging ==
    /\ phase = "SERVER_CHALLENGE"
    /\ \/ peer.server = "select" /\ wire.server = Message("select") /\ reached = <<"version">> /\ ServerQuiet
       \/ /\ peer.server = "response" /\ wire.server = <<>> /\ reached = <<"version", "select">>
          /\ OnWay(buf.server, wire.proxyFromServer, "challenge")
    /\ BrowserWaits

\* A refusal is followed by its reason.
Deciding ==
    /\ phase = "SERVER_RESULT"
    /\ \/ /\ peer.server = "response" /\ wire.server = Message("response")
          /\ reached = <<"version", "select">> /\ ServerQuiet
       \/ /\ peer.server = "init" /\ wire.server = <<>> /\ reached = <<"version", "select", "response">>
          /\ OnWay(buf.server, wire.proxyFromServer, "result")
       \/ /\ peer.server = "failed" /\ wire.server = <<>> /\ reached = <<"version", "select", "response">>
          /\ \/ /\ buf.server = <<>>
                /\ wire.proxyFromServer = Message("denied") \o Message("reason")
             \/ /\ buf.server = <<<<"denied", 1>>>>
                /\ wire.proxyFromServer = <<<<"denied", 2>>, <<"reason", 1>>, <<"reason", 2>>>>
    /\ BrowserWaits

Pictures == {"sinit", "frame"}

\* A stream that starts with the result.
Oks(s) ==
    /\ Len(s) >= 2 /\ s[1] = <<"ok", 1>> /\ s[2] = <<"ok", 2>>
    /\ \A i \in 3 .. Len(s) : s[i][1] \in Pictures

\* The browser, which has not said more than the server has been told, has
\* initialised, or asks and types; the filter may hold back what a spectator says.
Unasked ==
    /\ peer.server = "init" /\ wire.server = <<>>
    /\ reached = <<"version", "select", "response">>
Asking ==
    \/ Unasked /\ Inits(wire.proxyFromBrowser) /\ buf.spectate = <<>>
    \/ /\ Unasked /\ Spectator
       /\ Inits(buf.spectate) /\ Of(wire.proxyFromBrowser, Known)
    \/ /\ peer.server = "init" /\ reached = <<"version", "select", "response">>
       /\ Inits(wire.server) /\ Of(wire.proxyFromBrowser, Known) /\ Of(buf.spectate, Known)
    \/ /\ peer.server = "serving" /\ Len(reached) >= 4
       /\ Of(wire.server, Known) /\ Of(wire.proxyFromBrowser, Known) /\ Of(buf.spectate, Known)

Relaying ==
    /\ phase = "TRANSPARENT"
    /\ Of(wire.proxyFromServer, Pictures)
    /\ \/ /\ peer.browser = "ok" /\ wire.proxyFromBrowser = <<>> /\ Unasked
          /\ (wire.browser = <<>> /\ bws # "open") \/ Oks(wire.browser)
       \/ /\ peer.browser \in {"sinit", "connected"} /\ Of(wire.browser, Pictures)
          /\ Asking

Stage ==
    \/ Greeting \/ Replying \/ Offering \/ Selecting \/ Challenging \/ Deciding
    \/ Relaying

\* Before the socket to Proxmox opens nobody has spoken.
Silent ==
    /\ phase = "SERVER_VERSION"
    /\ peer.server = "version" /\ wire.server = <<>> /\ reached = <<>> /\ ServerQuiet
    /\ peer.browser = "version" /\ wire.browser = <<>> /\ BrowserQuiet

\* Until the browser has initialised the filter has nothing to hold back.
Unheld == peer.browser \notin {"sinit", "connected"} => buf.spectate = <<>>

\* HandshakeInOrder, of spectators whose filter is out of step too.
StrictOrder ==
    LET turns == <<"version", "select", "response", "init">>
    IN \A i \in 1 .. Len(reached) :
          IF i <= 4 THEN reached[i] = turns[i] ELSE reached[i] \in Known

InTurn ==
    /\ StrictOrder
    /\ pc \in {"lookup", "ticket"} => pws = "none"
    /\ pws \in {"none", "connecting"} => Silent
    /\ pws = "open" => Stage
    /\ pws \in {"none", "connecting", "open"} => Unheld

\* What the proxy does with a message of the server, stream by stream.
ServerHeard(n) ==
    LET raw  == SubSeq(wire.proxyFromServer, 1, n)
        b    == buf.server \o raw
        told(m) == IF bws = "open" THEN wire.browser \o m ELSE wire.browser
        more == Len(b) < 2 /\ phase' = phase /\ buf'.server = b
                /\ wire'.server = wire.server /\ wire'.browser = wire.browser
        done == Len(b) >= 2 /\ buf'.server = SubSeq(b, 3, Len(b))
    IN  /\ pws \in {"open", "closing"}
        /\ UNCHANGED <<asker, pc, peer, reached>>
        /\ wire'.proxyFromServer = SubSeq(wire.proxyFromServer, n + 1, Len(wire.proxyFromServer))
        /\ wire'.proxyFromBrowser = wire.proxyFromBrowser
        /\ buf'.client = buf.client /\ buf'.spectate = buf.spectate
        /\ phase = "SERVER_VERSION" => /\ UNCHANGED <<bws, pws>>
                                       /\ \/ more
                                          \/ done /\ phase' = "CLIENT_VERSION" /\ wire'.server = wire.server
                                             /\ wire'.browser = told(Message("version"))
        /\ phase = "SERVER_SEC_TYPES" => /\ UNCHANGED <<bws, pws>>
                                         /\ \/ more
                                            \/ done /\ phase' = "CLIENT_SEC_SELECT" /\ wire'.server = wire.server
                                               /\ wire'.browser = told(Message("none"))
        /\ phase = "SERVER_CHALLENGE" => /\ UNCHANGED <<bws, pws>>
                                         /\ \/ more
                                            \/ /\ done /\ phase' = "SERVER_RESULT"
                                               /\ pws = "open" => wire'.server = wire.server \o Message("response")
                                               /\ wire'.browser = wire.browser
        /\ phase = "SERVER_RESULT" => \/ more /\ UNCHANGED <<bws, pws>>
                                      \/ /\ Len(b) >= 2 /\ phase' = "TRANSPARENT" /\ buf'.server = <<>>
                                         /\ wire'.server = wire.server
                                         /\ wire'.browser = told(Message("ok") \o SubSeq(b, 3, Len(b)))
                                         /\ IF b[1][1] = "result" THEN UNCHANGED <<bws, pws>>
                                            ELSE bws' = Close(bws) /\ pws' = Close(pws)
        /\ phase = "TRANSPARENT" => /\ UNCHANGED <<bws, pws, phase, buf>>
                                    /\ wire'.server = wire.server /\ wire'.browser = told(raw)
        /\ phase \notin {"CLIENT_VERSION", "CLIENT_SEC_SELECT"}

LEMMA ServerMessageEffect ==
    ASSUME TypeOK, ServerMessage
    PROVE  \E n \in 1 .. Len(wire.proxyFromServer) : ServerHeard(n)
<1>1. PICK n \in 1 .. Len(wire.proxyFromServer) :
        LET raw == SubSeq(wire.proxyFromServer, 1, n)
            w == [wire EXCEPT !.proxyFromServer = SubSeq(@, n + 1, Len(@))]
            b == Accumulate(raw)
        IN  IF phase = "TRANSPARENT"
            THEN wire' = ToBrowser(w, raw) /\ UNCHANGED <<phase, buf, sockets>>
            ELSE ServerVersion(b, w) \/ ServerSecTypes(b, w) \/ ServerChallenge(b, w) \/ ServerResult(b, w)
  BY DEF ServerMessage
<1> DEFINE raw == SubSeq(wire.proxyFromServer, 1, n)
           w   == [wire EXCEPT !.proxyFromServer = SubSeq(@, n + 1, Len(@))]
           b   == buf.server \o raw
           u   == Message("ok") \o SubSeq(b, 3, Len(b))
<1>2. raw \in Streams /\ n \in Nat
  BY StreamTypes, Raw
<1>3. /\ w \in Wires /\ w.server = wire.server /\ w.browser = wire.browser
      /\ w.proxyFromBrowser = wire.proxyFromBrowser
      /\ w.proxyFromServer = SubSeq(wire.proxyFromServer, n + 1, Len(wire.proxyFromServer))
  <2>1. w \in Wires
    BY <1>2, StreamTypes, Arrives
  <2> QED
    BY <2>1, StreamTypes DEF Wires
<1>4. b \in Streams /\ Len(b) \in Nat
  <2> HIDE DEF raw
  <2>1. b \in Streams
    BY <1>2, StreamTypes, Joined
  <2> QED
    BY <2>1, LenProperties DEF Streams
<1>5. u \in Streams
  <2> HIDE DEF b
  <2>1. 2 \in Nat /\ 2 + 1 = 3
    OBVIOUS
  <2>2. SubSeq(b, 2 + 1, Len(b)) \in Streams
    BY <1>4, <2>1, RestOf
  <2> QED
    BY <2>1, <2>2, Made, Joined
<1>6. IF phase = "TRANSPARENT"
      THEN wire' = ToBrowser(w, raw) /\ UNCHANGED <<phase, buf, sockets>>
      ELSE ServerVersion(b, w) \/ ServerSecTypes(b, w) \/ ServerChallenge(b, w) \/ ServerResult(b, w)
  BY <1>1 DEF Accumulate
<1>7. pws \in {"open", "closing"} /\ UNCHANGED <<asker, pc, peer, reached>>
  BY DEF ServerMessage
<1> DEFINE told(m) == IF bws = "open" THEN wire.browser \o m ELSE wire.browser
<1>8. ASSUME NEW m \in Streams
      PROVE  /\ ToBrowser(w, m).browser = told(m)
             /\ ToBrowser(w, m).server = wire.server
             /\ ToBrowser(w, m).proxyFromServer = w.proxyFromServer
             /\ ToBrowser(w, m).proxyFromBrowser = wire.proxyFromBrowser
             /\ pws = "open" => ToServer(w, m).server = wire.server \o m
             /\ ToServer(w, m).browser = wire.browser
             /\ ToServer(w, m).proxyFromServer = w.proxyFromServer
             /\ ToServer(w, m).proxyFromBrowser = wire.proxyFromBrowser
  <2> HIDE DEF w, told
  <2>1. w \in Wires /\ w.server = wire.server /\ w.browser = wire.browser
        /\ w.proxyFromBrowser = wire.proxyFromBrowser
    BY <1>3
  <2>2. told(m) = IF bws = "open" THEN wire.browser \o m ELSE wire.browser
    BY DEF told
  <2>3. /\ ToBrowser(w, m).browser = IF bws = "open" THEN w.browser \o m ELSE w.browser
        /\ ToBrowser(w, m).server = w.server
        /\ ToBrowser(w, m).proxyFromServer = w.proxyFromServer
        /\ ToBrowser(w, m).proxyFromBrowser = w.proxyFromBrowser
    BY <2>1, Sends
  <2>4. /\ ToServer(w, m).server = IF pws = "open" THEN w.server \o m ELSE w.server
        /\ ToServer(w, m).browser = w.browser
        /\ ToServer(w, m).proxyFromServer = w.proxyFromServer
        /\ ToServer(w, m).proxyFromBrowser = w.proxyFromBrowser
    BY <2>1, Sends
  <2> QED
    BY <2>1, <2>2, <2>3, <2>4
<1>9. \A c : /\ [buf EXCEPT !.server = c].server = c
             /\ [buf EXCEPT !.server = c].client = buf.client
             /\ [buf EXCEPT !.server = c].spectate = buf.spectate
  BY StreamTypes DEF Buffers
<1>10. Message("version") \in Streams /\ Message("none") \in Streams /\ Message("response") \in Streams
  BY Made
<1> HIDE DEF w, told
<1>11. CASE phase = "TRANSPARENT"
  <2>1. wire' = ToBrowser(w, raw) /\ UNCHANGED <<phase, buf, sockets>>
    BY <1>6, <1>11
  <2>2. ServerHeard(n)
    BY <1>2, <1>3, <1>7, <1>8, <1>11, <2>1 DEF ServerHeard, told, sockets
  <2> QED
    BY <2>2
<1>12. CASE ServerVersion(b, w)
  <2>1. phase = "SERVER_VERSION" /\ UNCHANGED <<bws, pws>>
    BY <1>12 DEF ServerVersion, sockets
  <2>2. CASE Len(b) < 2
    <3>1. phase' = phase /\ buf' = [buf EXCEPT !.server = b] /\ wire' = w
      BY <1>12, <2>2 DEF ServerVersion
    <3>2. ServerHeard(n)
      BY <1>3, <1>7, <1>9, <2>1, <2>2, <3>1 DEF ServerHeard
    <3> QED
      BY <3>2
  <2>3. CASE Len(b) >= 2
    <3>1. /\ phase' = "CLIENT_VERSION" /\ buf' = [buf EXCEPT !.server = SubSeq(b, 3, Len(b))]
          /\ wire' = ToBrowser(w, Message("version"))
      BY <1>4, <1>12, <2>3 DEF ServerVersion
    <3>2. ServerHeard(n)
      BY <1>3, <1>7, <1>8, <1>9, <1>10, <2>1, <2>3, <3>1 DEF ServerHeard, told
    <3> QED
      BY <3>2
  <2> QED
    BY <1>4, <2>2, <2>3
<1>13. CASE ServerSecTypes(b, w)
  <2>1. phase = "SERVER_SEC_TYPES" /\ UNCHANGED <<bws, pws>>
    BY <1>13 DEF ServerSecTypes, sockets
  <2>2. CASE Len(b) < 2
    <3>1. phase' = phase /\ buf' = [buf EXCEPT !.server = b] /\ wire' = w
      BY <1>13, <2>2 DEF ServerSecTypes
    <3>2. ServerHeard(n)
      BY <1>3, <1>7, <1>9, <2>1, <2>2, <3>1 DEF ServerHeard
    <3> QED
      BY <3>2
  <2>3. CASE Len(b) >= 2
    <3>1. /\ phase' = "CLIENT_SEC_SELECT" /\ buf' = [buf EXCEPT !.server = SubSeq(b, 3, Len(b))]
          /\ wire' = ToBrowser(w, Message("none"))
      BY <1>4, <1>13, <2>3 DEF ServerSecTypes
    <3>2. ServerHeard(n)
      BY <1>3, <1>7, <1>8, <1>9, <1>10, <2>1, <2>3, <3>1 DEF ServerHeard, told
    <3> QED
      BY <3>2
  <2> QED
    BY <1>4, <2>2, <2>3
<1>14. CASE ServerChallenge(b, w)
  <2>1. phase = "SERVER_CHALLENGE" /\ UNCHANGED <<bws, pws>>
    BY <1>14 DEF ServerChallenge, sockets
  <2>2. CASE Len(b) < 2
    <3>1. phase' = phase /\ buf' = [buf EXCEPT !.server = b] /\ wire' = w
      BY <1>14, <2>2 DEF ServerChallenge
    <3>2. ServerHeard(n)
      BY <1>3, <1>7, <1>9, <2>1, <2>2, <3>1 DEF ServerHeard
    <3> QED
      BY <3>2
  <2>3. CASE Len(b) >= 2
    <3>1. /\ phase' = "SERVER_RESULT" /\ buf' = [buf EXCEPT !.server = SubSeq(b, 3, Len(b))]
          /\ wire' = ToServer(w, Message("response"))
      BY <1>4, <1>14, <2>3 DEF ServerChallenge
    <3>2. ServerHeard(n)
      BY <1>3, <1>7, <1>8, <1>9, <1>10, <2>1, <2>3, <3>1 DEF ServerHeard
    <3> QED
      BY <3>2
  <2> QED
    BY <1>4, <2>2, <2>3
<1>15. CASE ServerResult(b, w)
  <2>1. phase = "SERVER_RESULT"
    BY <1>15 DEF ServerResult
  <2>2. CASE Len(b) < 2
    <3>1. phase' = phase /\ buf' = [buf EXCEPT !.server = b] /\ wire' = w /\ UNCHANGED <<bws, pws>>
      BY <1>15, <2>2 DEF ServerResult, sockets
    <3>2. ServerHeard(n)
      BY <1>3, <1>7, <1>9, <2>1, <2>2, <3>1 DEF ServerHeard
    <3> QED
      BY <3>2
  <2>3. CASE Len(b) >= 2
    <3>1. /\ phase' = "TRANSPARENT" /\ buf' = [buf EXCEPT !.server = <<>>]
          /\ wire' = ToBrowser(w, u)
          /\ IF b[1][1] = "result" THEN UNCHANGED <<bws, pws>>
             ELSE bws' = Close(bws) /\ pws' = Close(pws)
      BY <1>4, <1>15, <2>3 DEF ServerResult
    <3>2. ServerHeard(n)
      BY <1>3, <1>5, <1>7, <1>8, <1>9, <2>1, <2>3, <3>1 DEF ServerHeard, told
    <3> QED
      BY <3>2
  <2> QED
    BY <1>4, <2>2, <2>3
<1> QED
  BY <1>6, <1>11, <1>12, <1>13, <1>14, <1>15

\* And with one of the browser.
BrowserHeard(n) ==
    LET raw == SubSeq(wire.proxyFromBrowser, 1, n)
        b   == buf.client \o raw
        c   == buf.spectate \o raw
        fed(m) == IF pws = "open" THEN wire.server \o m ELSE wire.server
    IN  /\ UNCHANGED <<asker, pc, peer, reached>>
        /\ wire'.proxyFromBrowser = SubSeq(wire.proxyFromBrowser, n + 1, Len(wire.proxyFromBrowser))
        /\ wire'.proxyFromServer = wire.proxyFromServer /\ wire'.browser = wire.browser
        /\ buf'.server = buf.server
        /\ phase = "CLIENT_VERSION" =>
              /\ UNCHANGED <<bws, pws>> /\ buf'.spectate = buf.spectate
              /\ \/ Len(b) < 2 /\ phase' = phase /\ buf'.client = b /\ wire'.server = wire.server
                 \/ /\ Len(b) >= 2 /\ phase' = "SERVER_SEC_TYPES" /\ buf'.client = SubSeq(b, 3, Len(b))
                    /\ wire'.server = fed(Message("version"))
        /\ phase = "CLIENT_SEC_SELECT" =>
              /\ UNCHANGED <<bws, pws>> /\ buf'.spectate = buf.spectate
              /\ phase' = "SERVER_CHALLENGE" /\ buf'.client = Tail(b)
              /\ wire'.server = fed(Message("select"))
        /\ phase = "TRANSPARENT" /\ ~Spectator =>
              /\ UNCHANGED <<bws, pws, phase, buf>>
              /\ wire'.server = fed(raw)
        /\ phase = "TRANSPARENT" /\ Spectator =>
              /\ phase' = phase /\ buf'.client = buf.client
              /\ \/ /\ wire'.server = wire.server /\ buf'.spectate = c
                    /\ c[1][1] = "init" /\ (asker.format # 0 \/ pws' = Close(pws))
                 \/ \E relayed, kept \in Streams :
                       /\ Split(c, relayed, kept)
                       /\ wire'.server = fed(relayed) /\ buf'.spectate = kept
        /\ phase \notin {"TRANSPARENT", "CLIENT_VERSION", "CLIENT_SEC_SELECT"} => wire'.server = wire.server

LEMMA BrowserMessageEffect ==
    ASSUME TypeOK, BrowserMessage
    PROVE  \E n \in 1 .. Len(wire.proxyFromBrowser) : BrowserHeard(n)
<1>1. PICK n \in 1 .. Len(wire.proxyFromBrowser) :
        LET raw == SubSeq(wire.proxyFromBrowser, 1, n)
            w == [wire EXCEPT !.proxyFromBrowser = SubSeq(@, n + 1, Len(@))]
        IN  \/ phase = "TRANSPARENT" /\ Spectator /\ Filter(buf.spectate \o raw, w) /\ UNCHANGED phase
            \/ phase = "TRANSPARENT" /\ ~Spectator /\ wire' = ToServer(w, raw) /\ UNCHANGED <<phase, buf, sockets>>
            \/ ClientVersion(buf.client \o raw, w) /\ UNCHANGED sockets
            \/ ClientSecSelect(buf.client \o raw, w) /\ UNCHANGED sockets
            \/ /\ phase \notin {"TRANSPARENT", "CLIENT_VERSION", "CLIENT_SEC_SELECT"}
               /\ wire' = w /\ buf' = [buf EXCEPT !.client = @ \o raw] /\ UNCHANGED <<phase, sockets>>
  BY DEF BrowserMessage
<1> DEFINE raw == SubSeq(wire.proxyFromBrowser, 1, n)
           w   == [wire EXCEPT !.proxyFromBrowser = SubSeq(@, n + 1, Len(@))]
           b   == buf.client \o raw
           c   == buf.spectate \o raw
           fed(m) == IF pws = "open" THEN wire.server \o m ELSE wire.server
<1>2. raw \in Streams /\ n \in Nat /\ raw # <<>>
  <2>1. raw \in Streams /\ n \in Nat
    BY StreamTypes, Raw
  <2>2. Len(wire.proxyFromBrowser) \in Nat
    BY StreamTypes, LenProperties DEF Streams
  <2>3. n >= 1 /\ n <= Len(wire.proxyFromBrowser)
    BY <2>1, <2>2
  <2>4. Len(raw) = IF 1 <= n THEN n - 1 + 1 ELSE 0
    BY <2>1, <2>3, StreamTypes, Cut
  <2> HIDE DEF raw
  <2> QED
    BY <2>1, <2>3, <2>4, Nothing
<1>3. /\ w \in Wires /\ w.server = wire.server /\ w.browser = wire.browser
      /\ w.proxyFromServer = wire.proxyFromServer
      /\ w.proxyFromBrowser = SubSeq(wire.proxyFromBrowser, n + 1, Len(wire.proxyFromBrowser))
  <2>1. w \in Wires
    BY <1>2, StreamTypes, Arrives
  <2> QED
    BY <2>1, StreamTypes DEF Wires
<1>4. b \in Streams /\ Len(b) \in Nat
  <2> HIDE DEF raw
  <2>1. b \in Streams
    BY <1>2, StreamTypes, Joined
  <2> QED
    BY <2>1, LenProperties DEF Streams
<1>5. UNCHANGED <<asker, pc, peer, reached>>
  BY DEF BrowserMessage
<1>6. ASSUME NEW m \in Streams
      PROVE  /\ ToServer(w, m).server = fed(m)
             /\ ToServer(w, m).browser = wire.browser
             /\ ToServer(w, m).proxyFromServer = wire.proxyFromServer
             /\ ToServer(w, m).proxyFromBrowser = w.proxyFromBrowser
  <2> HIDE DEF w
  <2>1. /\ w \in Wires /\ w.server = wire.server /\ w.browser = wire.browser
        /\ w.proxyFromServer = wire.proxyFromServer
    BY <1>3
  <2>2. /\ ToServer(w, m).server = IF pws = "open" THEN w.server \o m ELSE w.server
        /\ ToServer(w, m).browser = w.browser
        /\ ToServer(w, m).proxyFromServer = w.proxyFromServer
        /\ ToServer(w, m).proxyFromBrowser = w.proxyFromBrowser
    BY <2>1, Sends
  <2> QED
    BY <2>1, <2>2
<1>7. \A k : /\ [buf EXCEPT !.client = k].client = k
             /\ [buf EXCEPT !.client = k].server = buf.server
             /\ [buf EXCEPT !.client = k].spectate = buf.spectate
             /\ [buf EXCEPT !.spectate = k].spectate = k
             /\ [buf EXCEPT !.spectate = k].server = buf.server
             /\ [buf EXCEPT !.spectate = k].client = buf.client
  BY StreamTypes DEF Buffers
<1>8. Message("version") \in Streams /\ Message("select") \in Streams
  BY Made
<1>9. \/ phase = "TRANSPARENT" /\ Spectator /\ Filter(c, w) /\ UNCHANGED phase
      \/ phase = "TRANSPARENT" /\ ~Spectator /\ wire' = ToServer(w, raw) /\ UNCHANGED <<phase, buf, sockets>>
      \/ ClientVersion(b, w) /\ UNCHANGED sockets
      \/ ClientSecSelect(b, w) /\ UNCHANGED sockets
      \/ /\ phase \notin {"TRANSPARENT", "CLIENT_VERSION", "CLIENT_SEC_SELECT"}
         /\ wire' = w /\ buf' = [buf EXCEPT !.client = b] /\ UNCHANGED <<phase, sockets>>
  BY <1>1
<1> HIDE DEF w
<1>10. CASE phase = "TRANSPARENT" /\ Spectator /\ Filter(c, w) /\ UNCHANGED phase
  <2>1. c \in Streams /\ c # <<>>
    <3> HIDE DEF raw
    <3>1. c \in Streams /\ Len(c) = Len(buf.spectate) + Len(raw)
      BY <1>2, StreamTypes, Joined
    <3>2. Len(buf.spectate) \in Nat /\ Len(raw) \in Nat /\ Len(raw) # 0
      BY <1>2, StreamTypes, LenProperties, EmptySeq DEF Streams
    <3> HIDE DEF c
    <3> QED
      BY <3>1, <3>2, Nothing
  <2> HIDE DEF c, fed
  <2>2. Waits(c, w) \/ Relays(c, w)
    BY <1>3, <1>10, <2>1, FilterPass
  <2>3. CASE Waits(c, w)
    <3>1. /\ wire'.server = wire.server /\ buf'.spectate = c
          /\ wire'.proxyFromBrowser = SubSeq(wire.proxyFromBrowser, n + 1, Len(wire.proxyFromBrowser))
          /\ wire'.proxyFromServer = wire.proxyFromServer /\ wire'.browser = wire.browser
          /\ buf'.server = buf.server /\ buf'.client = buf.client
          /\ c[1][1] = "init" /\ (asker.format # 0 \/ pws' = Close(pws))
      BY <1>3, <1>7, <2>3 DEF Waits
    <3>2. BrowserHeard(n)
      BY <1>5, <1>10, <3>1 DEF BrowserHeard, c
    <3> QED
      BY <3>2
  <2>4. CASE Relays(c, w)
    <3>1. PICK relayed \in Streams, kept \in Streams :
             /\ Split(c, relayed, kept)
             /\ wire' = ToServer(w, relayed) /\ buf' = [buf EXCEPT !.spectate = kept]
      BY <2>4 DEF Relays
    <3>2. /\ wire'.server = fed(relayed) /\ buf'.spectate = kept
          /\ wire'.proxyFromBrowser = SubSeq(wire.proxyFromBrowser, n + 1, Len(wire.proxyFromBrowser))
          /\ wire'.proxyFromServer = wire.proxyFromServer /\ wire'.browser = wire.browser
          /\ buf'.server = buf.server /\ buf'.client = buf.client
      BY <1>3, <1>6, <1>7, <3>1
    <3>3. \E r, k \in Streams : Split(c, r, k) /\ wire'.server = fed(r) /\ buf'.spectate = k
      BY <3>1, <3>2
    <3>4. BrowserHeard(n)
      BY <1>5, <1>10, <3>2, <3>3 DEF BrowserHeard, c, fed
    <3> QED
      BY <3>4
  <2> QED
    BY <2>2, <2>3, <2>4
<1>11. CASE phase = "TRANSPARENT" /\ ~Spectator /\ wire' = ToServer(w, raw) /\ UNCHANGED <<phase, buf, sockets>>
  <2>1. BrowserHeard(n)
    BY <1>2, <1>3, <1>5, <1>6, <1>11 DEF BrowserHeard, sockets
  <2> QED
    BY <2>1
<1>12. CASE ClientVersion(b, w) /\ UNCHANGED sockets
  <2>1. phase = "CLIENT_VERSION" /\ UNCHANGED <<bws, pws>>
    BY <1>12 DEF ClientVersion, sockets
  <2>2. CASE Len(b) < 2
    <3>1. phase' = phase /\ buf' = [buf EXCEPT !.client = b] /\ wire' = w
      BY <1>12, <2>2 DEF ClientVersion
    <3>2. BrowserHeard(n)
      BY <1>3, <1>5, <1>7, <2>1, <2>2, <3>1 DEF BrowserHeard
    <3> QED
      BY <3>2
  <2>3. CASE Len(b) >= 2
    <3>1. /\ phase' = "SERVER_SEC_TYPES" /\ buf' = [buf EXCEPT !.client = SubSeq(b, 3, Len(b))]
          /\ wire' = ToServer(w, Message("version"))
      BY <1>4, <1>12, <2>3 DEF ClientVersion
    <3>2. BrowserHeard(n)
      BY <1>3, <1>5, <1>6, <1>7, <1>8, <2>1, <2>3, <3>1 DEF BrowserHeard
    <3> QED
      BY <3>2
  <2> QED
    BY <1>4, <2>2, <2>3
<1>13. CASE ClientSecSelect(b, w) /\ UNCHANGED sockets
  <2>1. /\ phase = "CLIENT_SEC_SELECT" /\ UNCHANGED <<bws, pws>>
        /\ phase' = "SERVER_CHALLENGE" /\ buf' = [buf EXCEPT !.client = Tail(b)]
        /\ wire' = ToServer(w, Message("select"))
    BY <1>13 DEF ClientSecSelect, sockets
  <2>2. BrowserHeard(n)
    BY <1>3, <1>5, <1>6, <1>7, <1>8, <2>1 DEF BrowserHeard
  <2> QED
    BY <2>2
<1>14. CASE /\ phase \notin {"TRANSPARENT", "CLIENT_VERSION", "CLIENT_SEC_SELECT"}
            /\ wire' = w /\ buf' = [buf EXCEPT !.client = b] /\ UNCHANGED <<phase, sockets>>
  <2>1. BrowserHeard(n)
    BY <1>3, <1>5, <1>7, <1>14 DEF BrowserHeard
  <2> QED
    BY <2>1
<1> QED
  BY <1>9, <1>10, <1>11, <1>12, <1>13, <1>14
\* A short stream is the tuple of its pieces.
LEMMA Exactly ==
    ASSUME NEW s \in Streams
    PROVE  /\ Len(s) = 0 => s = <<>>
           /\ Len(s) = 1 => s = <<s[1]>>
           /\ Len(s) = 2 => s = <<s[1], s[2]>>
           /\ Len(s) = 3 => s = <<s[1], s[2], s[3]>>
BY DEF Streams

LEMMA OnePiece ==
    ASSUME NEW s \in Streams, NEW m \in Nat \ {0}, m <= Len(s)
    PROVE  SubSeq(s, m, m) = <<s[m]>>
<1> DEFINE t == SubSeq(s, m, m)
<1>1. t \in Streams /\ Len(t) = m - m + 1 /\ \A i \in 1 .. m - m + 1 : t[i] = s[m + i - 1]
  BY Cut
<1> HIDE DEF t
<1>2. Len(t) = 1 /\ t[1] = s[m]
  <2>1. m - m + 1 = 1 /\ m + 1 - 1 = m
    OBVIOUS
  <2>2. 1 \in 1 .. m - m + 1
    BY <2>1
  <2>3. t[1] = s[m + 1 - 1]
    BY <1>1, <2>2
  <2> QED
    BY <1>1, <2>1, <2>3
<1> QED
  BY <1>1, <1>2, Exactly DEF t

LEMMA NoPiece ==
    ASSUME NEW s \in Streams, NEW m \in Nat \ {0}, NEW n \in Nat, n <= Len(s), n < m
    PROVE  SubSeq(s, m, n) = <<>>
<1> DEFINE t == SubSeq(s, m, n)
<1>1. t \in Streams /\ Len(t) = IF m <= n THEN n - m + 1 ELSE 0
  BY Cut
<1> HIDE DEF t
<1>2. Len(t) = 0
  BY <1>1
<1> QED
  BY <1>1, <1>2, Exactly DEF t

LEMMA AllPieces ==
    ASSUME NEW s \in Streams
    PROVE  SubSeq(s, 1, Len(s)) = s
<1> DEFINE t == SubSeq(s, 1, Len(s))
<1>1. Len(s) \in Nat
  BY LenProperties DEF Streams
<1>2. /\ t \in Streams /\ Len(t) = IF 1 <= Len(s) THEN Len(s) - 1 + 1 ELSE 0
      /\ \A i \in 1 .. Len(s) - 1 + 1 : t[i] = s[1 + i - 1]
  BY <1>1, Cut
<1> HIDE DEF t
<1>3. Len(t) = Len(s)
  BY <1>1, <1>2
<1>4. ASSUME NEW i \in 1 .. Len(t) PROVE t[i] = s[i]
  <2>1. i \in 1 .. Len(s) - 1 + 1 /\ 1 + i - 1 = i
    BY <1>1, <1>3
  <2> QED
    BY <1>2, <2>1
<1>5. t = s
  BY <1>2, <1>3, <1>4, SeqEqual DEF Streams
<1> QED
  BY <1>5 DEF t

\* Two pieces, cut in any way.
LEMMA Pairs ==
    ASSUME NEW p \in Piece, NEW q \in Piece
    PROVE  /\ SubSeq(<<p, q>>, 1, 1) = <<p>> /\ SubSeq(<<p, q>>, 2, 2) = <<q>>
           /\ SubSeq(<<p, q>>, 1, 2) = <<p, q>> /\ SubSeq(<<p, q>>, 3, 2) = <<>>
           /\ SubSeq(<<q>>, 1, 1) = <<q>> /\ SubSeq(<<q>>, 2, 1) = <<>>
           /\ <<p>> \o <<q>> = <<p, q>> /\ <<>> \o <<p, q>> = <<p, q>> /\ <<>> \o <<p>> = <<p>>
<1> DEFINE two == <<p, q>>
           one == <<q>>
           first == <<p>>
           join == first \o one
<1>1. two \in Streams /\ Len(two) = 2 /\ two[1] = p /\ two[2] = q
  BY DEF Streams
<1>2. one \in Streams /\ Len(one) = 1 /\ one[1] = q
  BY DEF Streams
<1>3. first \in Streams /\ Len(first) = 1 /\ first[1] = p
  BY DEF Streams
<1>4. <<>> \o <<p, q>> = <<p, q>>
  OBVIOUS
<1>5. <<>> \o <<p>> = <<p>>
  OBVIOUS
<1> HIDE DEF two, one, first
<1>6. join = <<p, q>>
  <2>1. /\ Len(join) = Len(first) + Len(one)
        /\ \A i \in 1 .. Len(first) + Len(one) : join[i] = IF i <= Len(first) THEN first[i] ELSE one[i - Len(first)]
    BY <1>2, <1>3, ConcatProperties DEF Streams
  <2>2. join \in Streams
    BY <1>2, <1>3, Joined
  <2> HIDE DEF join
  <2>3. Len(join) = 2 /\ 1 \in 1 .. Len(first) + Len(one) /\ 2 \in 1 .. Len(first) + Len(one)
    BY <1>2, <1>3, <2>1
  <2>4. join[1] = first[1]
    BY <1>3, <2>1, <2>3
  <2>5. join[2] = one[2 - 1]
    BY <1>3, <2>1, <2>3
  <2> QED
    BY <1>2, <1>3, <2>2, <2>3, <2>4, <2>5, Exactly
<1> DEFINE i1 == 1
           i2 == 2
           i3 == 3
<1>7. i1 \in Nat \ {0} /\ i2 \in Nat \ {0} /\ i3 \in Nat \ {0} /\ i1 < i2 /\ i2 < i3
  OBVIOUS
<1>8. i1 <= Len(two) /\ i2 = Len(two) /\ i2 <= Len(two) /\ i1 = Len(one) /\ i1 <= Len(one)
  BY <1>1, <1>2
<1>9. two[i1] = p /\ two[i2] = q /\ one[i1] = q
  BY <1>1, <1>2
<1> HIDE DEF i1, i2, i3
<1>10. SubSeq(two, i1, i1) = <<p>>
  BY <1>1, <1>7, <1>8, <1>9, OnePiece
<1>11. SubSeq(two, i2, i2) = <<q>>
  BY <1>1, <1>7, <1>8, <1>9, OnePiece
<1>12. SubSeq(one, i1, i1) = <<q>>
  BY <1>2, <1>7, <1>8, <1>9, OnePiece
<1>13. SubSeq(two, i3, i2) = <<>>
  BY <1>1, <1>7, <1>8, NoPiece
<1>14. SubSeq(one, i2, i1) = <<>>
  BY <1>2, <1>7, <1>8, NoPiece
<1>15. SubSeq(two, 1, i2) = two
  BY <1>1, <1>8, AllPieces
<1>16. /\ SubSeq(two, 1, 1) = <<p>> /\ SubSeq(two, 2, 2) = <<q>> /\ SubSeq(two, 1, 2) = two
       /\ SubSeq(two, 3, 2) = <<>> /\ SubSeq(one, 1, 1) = <<q>> /\ SubSeq(one, 2, 1) = <<>>
  BY <1>10, <1>11, <1>12, <1>13, <1>14, <1>15 DEF i1, i2, i3
<1> QED
  BY <1>4, <1>5, <1>6, <1>16 DEF two, one, first, join

\* Of a message that somebody waits for, what has arrived is kept until the
\* second piece is there; then nothing is left.
LEMMA Cuts ==
    ASSUME NEW m \in Kind, NEW kept, NEW way, OnWay(kept, way, m), NEW n \in 1 .. Len(way)
    PROVE  LET b    == kept \o SubSeq(way, 1, n)
               rest == SubSeq(way, n + 1, Len(way))
           IN  \/ Len(b) < 2 /\ ~(Len(b) >= 2) /\ OnWay(b, rest, m)
               \/ /\ Len(b) >= 2 /\ ~(Len(b) < 2)
                  /\ b = <<<<m, 1>>, <<m, 2>>>> /\ SubSeq(b, 3, Len(b)) = <<>> /\ rest = <<>>
<1> DEFINE p == <<m, 1>>
           q == <<m, 2>>
           b == kept \o SubSeq(way, 1, n)
           rest == SubSeq(way, n + 1, Len(way))
<1>1. \/ kept = <<>> /\ way = <<p, q>>
      \/ kept = <<p>> /\ way = <<q>>
  BY DEF OnWay
<1>2. p \in Piece /\ q \in Piece
  BY DEF Piece
<1>3. /\ SubSeq(<<p, q>>, 1, 1) = <<p>> /\ SubSeq(<<p, q>>, 2, 2) = <<q>>
      /\ SubSeq(<<p, q>>, 1, 2) = <<p, q>> /\ SubSeq(<<p, q>>, 3, 2) = <<>>
      /\ SubSeq(<<q>>, 1, 1) = <<q>> /\ SubSeq(<<q>>, 2, 1) = <<>>
      /\ <<p>> \o <<q>> = <<p, q>> /\ <<>> \o <<p, q>> = <<p, q>> /\ <<>> \o <<p>> = <<p>>
  <2> HIDE DEF p, q
  <2> QED
    BY <1>2, Pairs
<1>4. CASE kept = <<>> /\ way = <<p, q>>
  <2> HIDE DEF p, q
  <2>1. Len(way) = 2 /\ (n = 1 \/ n = 2)
    BY <1>4
  <2>2. CASE n = 1
    <3>1. SubSeq(way, 1, n) = <<p>> /\ rest = <<q>>
      BY <1>4, <2>1, <2>2, <1>3
    <3>2. b = <<p>>
      BY <1>4, <3>1, <1>3
    <3>3. Len(b) = 1
      BY <3>2
    <3> QED
      BY <3>1, <3>2, <3>3 DEF OnWay, p, q
  <2>3. CASE n = 2
    <3>1. SubSeq(way, 1, n) = <<p, q>> /\ rest = <<>>
      BY <1>4, <2>1, <2>3, <1>3
    <3>2. b = <<p, q>>
      BY <1>4, <3>1, <1>3
    <3>3. Len(b) = 2 /\ SubSeq(b, 3, 2) = <<>>
      BY <3>2, <1>3
    <3> QED
      BY <3>1, <3>2, <3>3 DEF p, q
  <2> QED
    BY <2>1, <2>2, <2>3
<1>5. CASE kept = <<p>> /\ way = <<q>>
  <2> HIDE DEF p, q
  <2>1. Len(way) = 1 /\ n = 1
    BY <1>5
  <2>2. SubSeq(way, 1, n) = <<q>> /\ rest = <<>>
    BY <1>5, <2>1, <1>3
  <2>3. b = <<p, q>>
    BY <1>5, <2>2, <1>3
  <2>4. Len(b) = 2 /\ SubSeq(b, 3, 2) = <<>>
    BY <2>3, <1>3
  <2> QED
    BY <2>2, <2>3, <2>4 DEF p, q
<1> QED
  BY <1>1, <1>4, <1>5

\* What follows a refusal.
LEMMA Refused ==
    LET s == Message("denied") \o Message("reason")
    IN  /\ s \in Streams /\ Len(s) = 4
        /\ s[1] = <<"denied", 1>> /\ s[2] = <<"denied", 2>>
        /\ s[3] = <<"reason", 1>> /\ s[4] = <<"reason", 2>>
<1> DEFINE d == Message("denied")
           r == Message("reason")
           s == d \o r
<1>1. d \in Streams /\ Len(d) = 2 /\ d[1] = <<"denied", 1>> /\ d[2] = <<"denied", 2>>
  <2>1. d = <<<<"denied", 1>>, <<"denied", 2>>>>
    BY DEF Message, Short
  <2> QED
    BY <2>1, Messages DEF Kind
<1>2. r \in Streams /\ Len(r) = 2 /\ r[1] = <<"reason", 1>> /\ r[2] = <<"reason", 2>>
  <2>1. r = <<<<"reason", 1>>, <<"reason", 2>>>>
    BY DEF Message, Short
  <2> QED
    BY <2>1, Messages DEF Kind
<1> HIDE DEF d, r
<1>3. /\ Len(s) = Len(d) + Len(r)
      /\ \A i \in 1 .. Len(d) + Len(r) : s[i] = IF i <= Len(d) THEN d[i] ELSE r[i - Len(d)]
  BY <1>1, <1>2, ConcatProperties DEF Streams
<1>4. s \in Streams
  BY <1>1, <1>2, Joined
<1> HIDE DEF s
<1>5. \A i \in {1, 2, 3, 4} : s[i] = IF i <= 2 THEN d[i] ELSE r[i - 2]
  BY <1>1, <1>2, <1>3
<1>6. s[1] = d[1] /\ s[2] = d[2] /\ s[3] = r[3 - 2] /\ s[4] = r[4 - 2]
  BY <1>5
<1> QED
  BY <1>1, <1>2, <1>3, <1>4, <1>6 DEF s, d, r

\* A refusal is either half kept or seen for what it is.
LEMMA Refusals ==
    ASSUME TypeOK, NEW n \in 1 .. Len(wire.proxyFromServer),
           \/ buf.server = <<>> /\ wire.proxyFromServer = Message("denied") \o Message("reason")
           \/ /\ buf.server = <<<<"denied", 1>>>>
              /\ wire.proxyFromServer = <<<<"denied", 2>>, <<"reason", 1>>, <<"reason", 2>>>>
    PROVE  LET b    == buf.server \o SubSeq(wire.proxyFromServer, 1, n)
               rest == SubSeq(wire.proxyFromServer, n + 1, Len(wire.proxyFromServer))
           IN  \/ /\ Len(b) < 2 /\ ~(Len(b) >= 2) /\ b = <<<<"denied", 1>>>>
                  /\ rest = <<<<"denied", 2>>, <<"reason", 1>>, <<"reason", 2>>>>
               \/ Len(b) >= 2 /\ ~(Len(b) < 2) /\ b[1][1] = "denied"
<1> DEFINE s    == wire.proxyFromServer
           raw  == SubSeq(s, 1, n)
           b    == buf.server \o raw
           rest == SubSeq(s, n + 1, Len(s))
<1>1. s \in Streams /\ Len(s) \in Nat /\ n \in Nat /\ n >= 1 /\ n <= Len(s)
  <2>1. s \in Streams /\ Len(s) \in Nat
    BY StreamTypes, LenProperties DEF Streams
  <2> HIDE DEF s
  <2>2. n \in 1 .. Len(s)
    BY DEF s
  <2> QED
    BY <2>1, <2>2
<1>2. raw \in Streams /\ Len(raw) = n /\ \A i \in 1 .. n : raw[i] = s[1 + i - 1]
  <2> HIDE DEF s
  <2> QED
    BY <1>1, Cut
<1>3. 1 \in 1 .. n /\ raw[1] = s[1]
  <2> HIDE DEF raw
  <2>1. 1 \in 1 .. n /\ 1 + 1 - 1 = 1
    BY <1>1
  <2>2. raw[1] = s[1 + 1 - 1]
    BY <1>2, <2>1
  <2> QED
    BY <2>1, <2>2
<1>4. CASE buf.server = <<>> /\ s = Message("denied") \o Message("reason")
  <2>1. /\ Len(s) = 4 /\ s[1] = <<"denied", 1>> /\ s[2] = <<"denied", 2>>
        /\ s[3] = <<"reason", 1>> /\ s[4] = <<"reason", 2>>
    BY <1>4, Refused
  <2>2. b = raw
    <3> HIDE DEF raw
    <3> QED
      BY <1>2, <1>4, ConcatEmptySeq DEF Streams
  <2>3. b[1][1] = "denied" /\ b[1] = <<"denied", 1>> /\ Len(b) = n
    BY <1>2, <1>3, <2>1, <2>2
  <2>4. CASE n = 1
    <3>1. b = <<<<"denied", 1>>>>
      <4> HIDE DEF raw, b
      <4> QED
        BY <1>2, <2>2, <2>3, <2>4, Exactly
    <3>2. rest = <<<<"denied", 2>>, <<"reason", 1>>, <<"reason", 2>>>>
      <4> HIDE DEF s
      <4> DEFINE from == 2
                 to   == 4
                 r    == SubSeq(s, from, to)
      <4>1. from \in Nat \ {0} /\ to \in Nat /\ to <= Len(s) /\ from <= to
        BY <2>1
      <4> HIDE DEF from, to
      <4>2. /\ r \in Streams /\ Len(r) = IF from <= to THEN to - from + 1 ELSE 0
            /\ \A i \in 1 .. to - from + 1 : r[i] = s[from + i - 1]
        BY <1>1, <4>1, Cut
      <4>3. /\ r \in Streams /\ Len(r) = 3
            /\ \A i \in 1 .. 3 : r[i] = s[2 + i - 1]
        <5> HIDE DEF r
        <5> QED
          BY <4>2 DEF from, to
      <4>4. r = SubSeq(s, 2, 4)
        BY DEF from, to
      <4>5. rest = r
        BY <2>4, <2>1, <4>4
      <4> HIDE DEF r, rest
      <4>6. Len(r) = 3 /\ r[1] = s[2 + 1 - 1] /\ r[2] = s[2 + 2 - 1] /\ r[3] = s[2 + 3 - 1]
        BY <4>3
      <4>7. 2 + 1 - 1 = 2 /\ 2 + 2 - 1 = 3 /\ 2 + 3 - 1 = 4
        OBVIOUS
      <4>8. r[1] = <<"denied", 2>> /\ r[2] = <<"reason", 1>> /\ r[3] = <<"reason", 2>>
        BY <2>1, <4>6, <4>7
      <4>9. r = <<r[1], r[2], r[3]>>
        BY <4>3, Exactly
      <4> QED
        BY <4>5, <4>8, <4>9
    <3> HIDE DEF b, rest
    <3> QED
      BY <2>3, <2>4, <3>1, <3>2 DEF b, rest
  <2> HIDE DEF b
  <2>5. CASE n # 1
    BY <1>1, <2>3, <2>5 DEF b
  <2> QED
    BY <2>4, <2>5
<1>5. CASE buf.server = <<<<"denied", 1>>>>
  <2>1. buf.server \in Streams /\ Len(buf.server) = 1
    BY <1>5, StreamTypes
  <2>2. Len(b) = 1 + n /\ b[1] = buf.server[1]
    <3> HIDE DEF raw
    <3>1. Len(b) = Len(buf.server) + Len(raw) /\ \A i \in 1 .. Len(buf.server) : b[i] = buf.server[i]
      BY <1>2, <2>1, Joined
    <3> HIDE DEF b
    <3> QED
      BY <1>1, <1>2, <2>1, <3>1
  <2>3. b[1][1] = "denied"
    BY <1>5, <2>2
  <2> HIDE DEF b
  <2> QED
    BY <1>1, <2>2, <2>3 DEF b
<1> QED
  BY <1>4, <1>5

\* Streams that start with the result.
LEMMA Results ==
    ASSUME NEW s \in Streams, Oks(s)
    PROVE  /\ Of(SubSeq(s, 3, Len(s)), Pictures)
           /\ \A t \in Streams : Of(t, Pictures) => Oks(s \o t)
<1>1. /\ Len(s) \in Nat /\ Len(s) >= 2 /\ s[1] = <<"ok", 1>> /\ s[2] = <<"ok", 2>>
      /\ \A i \in 3 .. Len(s) : s[i][1] \in Pictures
  BY LenProperties DEF Oks, Streams
<1>2. Of(SubSeq(s, 3, Len(s)), Pictures)
  <2> DEFINE rest == SubSeq(s, 3, Len(s))
  <2>1. /\ Len(rest) = IF 3 <= Len(s) THEN Len(s) - 3 + 1 ELSE 0
        /\ \A i \in 1 .. Len(s) - 3 + 1 : rest[i] = s[3 + i - 1]
    BY <1>1, Cut
  <2> HIDE DEF rest
  <2>2. ASSUME NEW i \in 1 .. Len(rest) PROVE rest[i][1] \in Pictures
    <3>1. i \in 1 .. Len(s) - 3 + 1 /\ 3 + i - 1 = 2 + i /\ 2 + i \in 3 .. Len(s)
      BY <1>1, <2>1
    <3> QED
      BY <1>1, <2>1, <3>1
  <2> QED
    BY <2>2 DEF Of, rest
<1>3. ASSUME NEW t \in Streams, Of(t, Pictures)
      PROVE  Oks(s \o t)
  <2>1. /\ Len(s \o t) = Len(s) + Len(t)
        /\ \A i \in 1 .. Len(s) + Len(t) : (s \o t)[i] = IF i <= Len(s) THEN s[i] ELSE t[i - Len(s)]
    BY ConcatProperties DEF Streams
  <2>2. Len(t) \in Nat
    BY LenProperties DEF Streams
  <2> DEFINE st == s \o t
  <2> HIDE DEF st
  <2>3. Len(st) = Len(s) + Len(t) /\ \A i \in 1 .. Len(s) + Len(t) : st[i] = IF i <= Len(s) THEN s[i] ELSE t[i - Len(s)]
    BY <2>1 DEF st
  <2>4. Len(st) >= 2 /\ st[1] = <<"ok", 1>> /\ st[2] = <<"ok", 2>>
    BY <1>1, <2>2, <2>3
  <2>5. ASSUME NEW i \in 3 .. Len(st) PROVE st[i][1] \in Pictures
    <3>1. CASE i <= Len(s)
      BY <1>1, <2>2, <2>3, <3>1
    <3>2. CASE ~(i <= Len(s))
      <4>1. i - Len(s) \in 1 .. Len(t) /\ st[i] = t[i - Len(s)]
        BY <1>1, <2>2, <2>3, <3>2
      <4> QED
        BY <1>3, <4>1 DEF Of
    <3> QED
      BY <3>1, <3>2
  <2>6. Oks(st)
    BY <2>4, <2>5 DEF Oks
  <2> QED
    BY <2>6 DEF st
<1> QED
  BY <1>2, <1>3

\* The streams that the handshake is made of.
LEMMA Sequels ==
    /\ Message("version") = <<<<"version", 1>>, <<"version", 2>>>>
    /\ Message("types") = <<<<"types", 1>>, <<"types", 2>>>>
    /\ Message("challenge") = <<<<"challenge", 1>>, <<"challenge", 2>>>>
    /\ Message("response") = <<<<"response", 1>>, <<"response", 2>>>>
    /\ Message("result") = <<<<"result", 1>>, <<"result", 2>>>>
    /\ Message("none") = <<<<"none", 1>>, <<"none", 2>>>>
    /\ Message("ok") = <<<<"ok", 1>>, <<"ok", 2>>>>
    /\ Message("select") = <<<<"select", 1>>>> /\ Message("init") = <<<<"init", 1>>>>
    /\ Inits(Message("init")) /\ Oks(Message("ok"))
    /\ Of(Message("sinit"), Pictures) /\ Of(Message("frame"), Pictures)
    /\ Message("sinit") \in Streams /\ Message("frame") \in Streams
    /\ Of(Message("request"), Known) /\ Of(Message("input"), Known)
    /\ Message("request") \in Streams /\ Message("input") \in Streams
<1>1. /\ Message("select") = <<<<"select", 1>>>> /\ Message("init") = <<<<"init", 1>>>>
      /\ Message("ok") = <<<<"ok", 1>>, <<"ok", 2>>>>
  BY DEF Message, Short
<1>2. Inits(Message("init"))
  BY <1>1 DEF Inits
<1>3. Oks(Message("ok"))
  BY <1>1 DEF Oks
<1>4. /\ Of(Message("sinit"), Pictures) /\ Of(Message("frame"), Pictures)
      /\ Message("sinit") \in Streams /\ Message("frame") \in Streams
      /\ Of(Message("request"), Known) /\ Of(Message("input"), Known)
      /\ Message("request") \in Streams /\ Message("input") \in Streams
  BY Messages DEF Kind, Short, Known, Dropped, Pictures
<1>5. /\ Message("version") = <<<<"version", 1>>, <<"version", 2>>>>
      /\ Message("types") = <<<<"types", 1>>, <<"types", 2>>>>
      /\ Message("challenge") = <<<<"challenge", 1>>, <<"challenge", 2>>>>
      /\ Message("response") = <<<<"response", 1>>, <<"response", 2>>>>
      /\ Message("result") = <<<<"result", 1>>, <<"result", 2>>>>
      /\ Message("none") = <<<<"none", 1>>, <<"none", 2>>>>
  BY DEF Message, Short
<1> QED
  BY <1>1, <1>2, <1>3, <1>4, <1>5

\* The server's message takes the handshake on, or waits for the rest of it.
LEMMA ServerMessageInTurn ==
    ASSUME TypeOK, InTurn, ServerMessage, pws' = "open"
    PROVE  Stage' /\ Unheld'
<1>1. PICK n \in 1 .. Len(wire.proxyFromServer) : ServerHeard(n)
  BY ServerMessageEffect
<1> DEFINE raw  == SubSeq(wire.proxyFromServer, 1, n)
           b    == buf.server \o raw
           rest == SubSeq(wire.proxyFromServer, n + 1, Len(wire.proxyFromServer))
           told(m) == IF bws = "open" THEN wire.browser \o m ELSE wire.browser
           more == Len(b) < 2 /\ phase' = phase /\ buf'.server = b
                   /\ wire'.server = wire.server /\ wire'.browser = wire.browser
           done == Len(b) >= 2 /\ buf'.server = SubSeq(b, 3, Len(b))
<1>2. /\ phase = "SERVER_VERSION" => /\ UNCHANGED <<bws, pws>>
                                     /\ \/ more
                                        \/ done /\ phase' = "CLIENT_VERSION" /\ wire'.server = wire.server
                                           /\ wire'.browser = told(Message("version"))
      /\ phase = "SERVER_SEC_TYPES" => /\ UNCHANGED <<bws, pws>>
                                       /\ \/ more
                                          \/ done /\ phase' = "CLIENT_SEC_SELECT" /\ wire'.server = wire.server
                                             /\ wire'.browser = told(Message("none"))
      /\ phase = "SERVER_CHALLENGE" => /\ UNCHANGED <<bws, pws>>
                                       /\ \/ more
                                          \/ /\ done /\ phase' = "SERVER_RESULT"
                                             /\ pws = "open" => wire'.server = wire.server \o Message("response")
                                             /\ wire'.browser = wire.browser
      /\ phase = "SERVER_RESULT" => \/ more /\ UNCHANGED <<bws, pws>>
                                    \/ /\ Len(b) >= 2 /\ phase' = "TRANSPARENT" /\ buf'.server = <<>>
                                       /\ wire'.server = wire.server
                                       /\ wire'.browser = told(Message("ok") \o SubSeq(b, 3, Len(b)))
                                       /\ IF b[1][1] = "result" THEN UNCHANGED <<bws, pws>>
                                          ELSE bws' = Close(bws) /\ pws' = Close(pws)
      /\ phase = "TRANSPARENT" => /\ UNCHANGED <<bws, pws, phase, buf>>
                                  /\ wire'.server = wire.server /\ wire'.browser = told(raw)
      /\ phase \notin {"CLIENT_VERSION", "CLIENT_SEC_SELECT"}
  BY <1>1 DEF ServerHeard
<1>3. /\ UNCHANGED <<asker, pc, peer, reached>> /\ wire'.proxyFromServer = rest
      /\ wire'.proxyFromBrowser = wire.proxyFromBrowser
      /\ buf'.client = buf.client /\ buf'.spectate = buf.spectate
  BY <1>1 DEF ServerHeard
<1>4. /\ wire.proxyFromServer # <<>> /\ wire.proxyFromServer \in Streams
      /\ wire.browser \in Streams /\ wire.server \in Streams
  <2>1. Len(wire.proxyFromServer) # 0
    BY StreamTypes, LenProperties DEF Streams
  <2> QED
    BY <2>1, StreamTypes
<1>5. pws = "open" /\ Sockets /\ Close(pws) # "open"
  <2>1. Sockets /\ Close(pws) # "open"
    BY StreamTypes, Closes
  <2>2. phase \in Phases
    BY TypeParts
  <2>3. pws' = pws \/ pws' = Close(pws)
    BY <1>2, <2>2 DEF Phases
  <2> QED
    BY <2>1, <2>3
<1>6. Stage /\ Unheld
  BY <1>5 DEF InTurn
<1>7. Unheld'
  BY <1>3, <1>6 DEF Unheld
<1>8. /\ UNCHANGED <<asker, pc, peer, reached>> /\ wire'.proxyFromServer = rest
      /\ wire'.proxyFromBrowser = wire.proxyFromBrowser
      /\ buf'.client = buf.client /\ buf'.spectate = buf.spectate
      /\ peer'.server = peer.server /\ peer'.browser = peer.browser
      /\ pws = "open"
  BY <1>3, <1>5
<1>9. /\ <<>> \o Message("version") = Message("version") /\ <<>> \o Message("none") = Message("none")
      /\ <<>> \o Message("response") = Message("response")
  BY Made, ConcatEmptySeq DEF Streams
<1>10. CASE Greeting
  <2>1. /\ phase = "SERVER_VERSION" /\ OnWay(buf.server, wire.proxyFromServer, "version")
        /\ peer.server = "version" /\ wire.server = <<>> /\ reached = <<>>
        /\ peer.browser = "version" /\ wire.browser = <<>> /\ BrowserQuiet
    BY <1>4, <1>10 DEF Greeting, ServerQuiet
  <2>2. \/ Len(b) < 2 /\ ~(Len(b) >= 2) /\ OnWay(b, rest, "version")
        \/ /\ Len(b) >= 2 /\ ~(Len(b) < 2)
           /\ b = <<<<"version", 1>>, <<"version", 2>>>> /\ SubSeq(b, 3, Len(b)) = <<>> /\ rest = <<>>
    BY <2>1, Cuts DEF Kind
  <2> HIDE DEF b, rest
  <2>3. \/ /\ Len(b) < 2 /\ phase' = phase /\ buf'.server = b
           /\ wire'.server = wire.server /\ wire'.browser = wire.browser
        \/ /\ Len(b) >= 2 /\ phase' = "CLIENT_VERSION" /\ buf'.server = SubSeq(b, 3, Len(b))
           /\ wire'.server = wire.server
           /\ wire'.browser = IF bws = "open" THEN wire.browser \o Message("version") ELSE wire.browser
    BY <1>2, <1>8, <2>1
  <2>4. CASE Len(b) < 2
    <3>1. /\ OnWay(b, rest, "version") /\ phase' = phase /\ buf'.server = b
          /\ wire'.server = wire.server /\ wire'.browser = wire.browser
      BY <2>2, <2>3, <2>4
    <3>2. Greeting'
      BY <1>8, <2>1, <3>1 DEF Greeting, BrowserQuiet, BrowserWaits
    <3> QED
      BY <1>7, <3>2 DEF Stage
  <2>5. CASE Len(b) >= 2
    <3>1. /\ rest = <<>> /\ phase' = "CLIENT_VERSION" /\ buf'.server = <<>>
           /\ wire'.server = wire.server
           /\ wire'.browser = IF bws = "open" THEN wire.browser \o Message("version") ELSE wire.browser
      BY <2>2, <2>3, <2>5
    <3>2. Replying'
      <4>1. wire'.browser \in {<<>>, Message("version")}
        BY <2>1, <3>1, <1>9
      <4> QED
        BY <1>8, <2>1, <3>1, <4>1 DEF Replying, BrowserQuiet, ServerQuiet
    <3> QED
      BY <1>7, <3>2 DEF Stage
  <2> QED
    BY <2>2, <2>4, <2>5
<1>11. CASE Offering
  <2>1. /\ phase = "SERVER_SEC_TYPES" /\ OnWay(buf.server, wire.proxyFromServer, "types")
        /\ peer.server = "select" /\ wire.server = <<>> /\ reached = <<"version">>
        /\ peer.browser = "none" /\ wire.browser = <<>> /\ BrowserQuiet
    BY <1>4, <1>11 DEF Offering, ServerQuiet
  <2>2. \/ Len(b) < 2 /\ ~(Len(b) >= 2) /\ OnWay(b, rest, "types")
        \/ /\ Len(b) >= 2 /\ ~(Len(b) < 2)
           /\ b = <<<<"types", 1>>, <<"types", 2>>>> /\ SubSeq(b, 3, Len(b)) = <<>> /\ rest = <<>>
    BY <2>1, Cuts DEF Kind
  <2> HIDE DEF b, rest
  <2>3. \/ /\ Len(b) < 2 /\ phase' = phase /\ buf'.server = b
           /\ wire'.server = wire.server /\ wire'.browser = wire.browser
        \/ /\ Len(b) >= 2 /\ phase' = "CLIENT_SEC_SELECT" /\ buf'.server = SubSeq(b, 3, Len(b))
           /\ wire'.server = wire.server
           /\ wire'.browser = IF bws = "open" THEN wire.browser \o Message("none") ELSE wire.browser
    BY <1>2, <1>8, <2>1
  <2>4. CASE Len(b) < 2
    <3>1. /\ OnWay(b, rest, "types") /\ phase' = phase /\ buf'.server = b
          /\ wire'.server = wire.server /\ wire'.browser = wire.browser
      BY <2>2, <2>3, <2>4
    <3>2. Offering'
      BY <1>8, <2>1, <3>1 DEF Offering, BrowserQuiet, BrowserWaits
    <3> QED
      BY <1>7, <3>2 DEF Stage
  <2>5. CASE Len(b) >= 2
    <3>1. /\ rest = <<>> /\ phase' = "CLIENT_SEC_SELECT" /\ buf'.server = <<>>
           /\ wire'.server = wire.server
           /\ wire'.browser = IF bws = "open" THEN wire.browser \o Message("none") ELSE wire.browser
      BY <2>2, <2>3, <2>5
    <3>2. Selecting'
      <4>1. wire'.browser \in {<<>>, Message("none")}
        BY <2>1, <3>1, <1>9
      <4> QED
        BY <1>8, <2>1, <3>1, <4>1 DEF Selecting, BrowserQuiet, ServerQuiet
    <3> QED
      BY <1>7, <3>2 DEF Stage
  <2> QED
    BY <2>2, <2>4, <2>5
<1>12. CASE Challenging
  <2>1. /\ phase = "SERVER_CHALLENGE" /\ OnWay(buf.server, wire.proxyFromServer, "challenge")
        /\ peer.server = "response" /\ wire.server = <<>> /\ reached = <<"version", "select">>
        /\ BrowserWaits
    BY <1>4, <1>12 DEF Challenging, ServerQuiet
  <2>2. \/ Len(b) < 2 /\ ~(Len(b) >= 2) /\ OnWay(b, rest, "challenge")
        \/ /\ Len(b) >= 2 /\ ~(Len(b) < 2)
           /\ b = <<<<"challenge", 1>>, <<"challenge", 2>>>> /\ SubSeq(b, 3, Len(b)) = <<>> /\ rest = <<>>
    BY <2>1, Cuts DEF Kind
  <2> HIDE DEF b, rest
  <2>3. \/ /\ Len(b) < 2 /\ phase' = phase /\ buf'.server = b
           /\ wire'.server = wire.server /\ wire'.browser = wire.browser
        \/ /\ Len(b) >= 2 /\ phase' = "SERVER_RESULT" /\ buf'.server = SubSeq(b, 3, Len(b))
           /\ wire'.server = wire.server \o Message("response") /\ wire'.browser = wire.browser
    BY <1>2, <1>8, <2>1
  <2>4. CASE Len(b) < 2
    <3>1. /\ OnWay(b, rest, "challenge") /\ phase' = phase /\ buf'.server = b
          /\ wire'.server = wire.server /\ wire'.browser = wire.browser
      BY <2>2, <2>3, <2>4
    <3>2. Challenging'
      BY <1>8, <2>1, <3>1 DEF Challenging, BrowserQuiet, BrowserWaits
    <3> QED
      BY <1>7, <3>2 DEF Stage
  <2>5. CASE Len(b) >= 2
    <3>1. /\ rest = <<>> /\ phase' = "SERVER_RESULT" /\ buf'.server = <<>>
           /\ wire'.server = wire.server \o Message("response") /\ wire'.browser = wire.browser
      BY <2>2, <2>3, <2>5
    <3>2. Deciding'
      <4>1. wire'.server = Message("response")
        BY <2>1, <3>1, <1>9
      <4> QED
        BY <1>8, <2>1, <3>1, <4>1 DEF Deciding, BrowserWaits, BrowserQuiet, ServerQuiet
    <3> QED
      BY <1>7, <3>2 DEF Stage
  <2> QED
    BY <2>2, <2>4, <2>5
<1>13. CASE Deciding
  <2>1. /\ phase = "SERVER_RESULT" /\ wire.server = <<>> /\ reached = <<"version", "select", "response">>
        /\ BrowserWaits
        /\ \/ peer.server = "init" /\ OnWay(buf.server, wire.proxyFromServer, "result")
           \/ /\ peer.server = "failed"
              /\ \/ /\ buf.server = <<>>
                    /\ wire.proxyFromServer = Message("denied") \o Message("reason")
                 \/ /\ buf.server = <<<<"denied", 1>>>>
                    /\ wire.proxyFromServer = <<<<"denied", 2>>, <<"reason", 1>>, <<"reason", 2>>>>
    BY <1>4, <1>13 DEF Deciding, ServerQuiet
  <2>2. \/ more
        \/ /\ Len(b) >= 2 /\ phase' = "TRANSPARENT" /\ buf'.server = <<>>
           /\ wire'.server = wire.server
           /\ wire'.browser = told(Message("ok") \o SubSeq(b, 3, Len(b)))
           /\ b[1][1] = "result" /\ UNCHANGED <<bws, pws>>
    BY <1>2, <1>5, <2>1
  <2>3. CASE peer.server = "init" /\ OnWay(buf.server, wire.proxyFromServer, "result")
    <3>1. \/ Len(b) < 2 /\ ~(Len(b) >= 2) /\ OnWay(b, rest, "result")
          \/ /\ Len(b) >= 2 /\ ~(Len(b) < 2)
             /\ b = <<<<"result", 1>>, <<"result", 2>>>> /\ SubSeq(b, 3, Len(b)) = <<>> /\ rest = <<>>
      BY <2>3, Cuts DEF Kind
    <3> HIDE DEF b, rest
    <3>2. CASE Len(b) < 2
      <4>1. /\ OnWay(b, rest, "result") /\ phase' = phase /\ buf'.server = b
            /\ wire'.server = wire.server /\ wire'.browser = wire.browser
        BY <2>2, <3>1, <3>2
      <4>2. Deciding'
        BY <1>8, <2>1, <2>3, <4>1 DEF Deciding, BrowserQuiet, BrowserWaits
      <4> QED
        BY <1>7, <4>2 DEF Stage
    <3>3. CASE Len(b) >= 2
      <4>1. /\ rest = <<>> /\ phase' = "TRANSPARENT" /\ wire'.server = wire.server
            /\ wire'.browser = told(Message("ok") \o <<>>) /\ bws' = bws
        BY <2>2, <3>1, <3>3
      <4>2. Message("ok") \o <<>> = Message("ok") /\ <<>> \o Message("ok") = Message("ok")
        BY Made, ConcatEmptySeq DEF Streams
      <4>3. (wire'.browser = <<>> /\ bws' # "open") \/ Oks(wire'.browser)
        BY <2>1, <4>1, <4>2, Sequels DEF BrowserWaits
      <4>4. Of(wire'.proxyFromServer, Pictures)
        BY <1>8, <4>1, Nothing
      <4>5. Relaying'
        BY <1>8, <2>1, <2>3, <4>1, <4>3, <4>4 DEF Relaying, BrowserWaits, BrowserQuiet, Unasked
      <4> QED
        BY <1>7, <4>5 DEF Stage
    <3> QED
      BY <3>1, <3>2, <3>3
  <2>4. CASE /\ peer.server = "failed"
             /\ \/ /\ buf.server = <<>>
                   /\ wire.proxyFromServer = Message("denied") \o Message("reason")
                \/ /\ buf.server = <<<<"denied", 1>>>>
                   /\ wire.proxyFromServer = <<<<"denied", 2>>, <<"reason", 1>>, <<"reason", 2>>>>
    <3>1. \/ /\ Len(b) < 2 /\ ~(Len(b) >= 2) /\ b = <<<<"denied", 1>>>>
             /\ rest = <<<<"denied", 2>>, <<"reason", 1>>, <<"reason", 2>>>>
          \/ Len(b) >= 2 /\ ~(Len(b) < 2) /\ b[1][1] = "denied"
      BY <2>4, Refusals
    <3> HIDE DEF b, rest
    <3>2. /\ phase' = phase /\ buf'.server = b /\ b = <<<<"denied", 1>>>>
          /\ rest = <<<<"denied", 2>>, <<"reason", 1>>, <<"reason", 2>>>>
          /\ wire'.server = wire.server /\ wire'.browser = wire.browser
      BY <2>2, <3>1
    <3>3. Deciding'
      BY <1>8, <2>1, <2>4, <3>2 DEF Deciding, BrowserQuiet, BrowserWaits
    <3> QED
      BY <1>7, <3>3 DEF Stage
  <2> QED
    BY <2>1, <2>3, <2>4
<1>14. CASE Relaying
  <2>1. /\ UNCHANGED <<bws, pws, phase, buf>> /\ phase = "TRANSPARENT"
        /\ wire'.server = wire.server /\ wire'.browser = told(raw)
        /\ Of(wire.proxyFromServer, Pictures)
    BY <1>2, <1>14 DEF Relaying
  <2>2. raw \in Streams /\ Of(raw, Pictures) /\ n \in Nat
    BY <1>4, <2>1, Raw
  <2>3. Of(rest, Pictures)
    BY <1>4, <2>1, <2>2, RestOf
  <2> HIDE DEF raw, rest
  <2>4. CASE /\ peer.browser = "ok" /\ wire.proxyFromBrowser = <<>> /\ Unasked
             /\ (wire.browser = <<>> /\ bws # "open") \/ Oks(wire.browser)
    <3>1. (wire'.browser = <<>> /\ bws' # "open") \/ Oks(wire'.browser)
      <4>1. CASE bws = "open"
        BY <1>4, <2>1, <2>2, <2>4, <4>1, Results
      <4>2. CASE bws # "open"
        BY <2>1, <2>4, <4>2
      <4> QED
        BY <4>1, <4>2
    <3>2. Relaying'
      BY <1>8, <2>1, <2>3, <2>4, <3>1 DEF Relaying, Unasked
    <3> QED
      BY <1>7, <3>2 DEF Stage
  <2>5. CASE peer.browser \in {"sinit", "connected"} /\ Of(wire.browser, Pictures) /\ Asking
    <3>1. Of(wire'.browser, Pictures)
      <4>1. CASE bws = "open"
        BY <1>4, <2>1, <2>2, <2>5, <4>1, Joined
      <4>2. CASE bws # "open"
        BY <2>1, <2>5, <4>2
      <4> QED
        BY <4>1, <4>2
    <3>2. Asking'
      BY <1>8, <2>1, <2>5 DEF Asking, Unasked, Spectator, IsOwner
    <3>3. Relaying'
      BY <1>8, <2>1, <2>3, <2>5, <3>1, <3>2 DEF Relaying
    <3> QED
      BY <1>7, <3>3 DEF Stage
  <2> QED
    BY <1>14, <2>4, <2>5 DEF Relaying
<1>15. ~Replying /\ ~Selecting
  BY <1>2 DEF Replying, Selecting
<1>16. Stage'
  BY <1>6, <1>10, <1>11, <1>12, <1>13, <1>14, <1>15 DEF Stage
<1> QED
  BY <1>16, <1>7

LEMMA HeardSome ==
    ASSUME NEW s \in Streams, NEW n \in 1 .. Len(s)
    PROVE  Len(SubSeq(s, 1, n)) >= 1
<1>1. Len(s) \in Nat
  BY LenProperties DEF Streams
<1>2. n \in Nat /\ n <= Len(s) /\ n >= 1
  BY <1>1
<1>3. Len(SubSeq(s, 1, n)) = IF 1 <= n THEN n - 1 + 1 ELSE 0
  BY <1>2, Cut
<1> QED
  BY <1>2, <1>3

\* So does the browser's, whatever the filter makes of a spectator's.
LEMMA BrowserMessageInTurn ==
    ASSUME TypeOK, InTurn, BrowserMessage, pws' = "open"
    PROVE  Stage' /\ Unheld'
<1>1. PICK n \in 1 .. Len(wire.proxyFromBrowser) : BrowserHeard(n)
  BY BrowserMessageEffect
<1> DEFINE raw  == SubSeq(wire.proxyFromBrowser, 1, n)
           b    == buf.client \o raw
           c    == buf.spectate \o raw
           rest == SubSeq(wire.proxyFromBrowser, n + 1, Len(wire.proxyFromBrowser))
           fed(m) == IF pws = "open" THEN wire.server \o m ELSE wire.server
<1>2. /\ UNCHANGED <<asker, pc, peer, reached>> /\ wire'.proxyFromBrowser = rest
      /\ wire'.proxyFromServer = wire.proxyFromServer /\ wire'.browser = wire.browser
      /\ buf'.server = buf.server
      /\ peer'.server = peer.server /\ peer'.browser = peer.browser
  BY <1>1 DEF BrowserHeard
<1>3. /\ phase = "CLIENT_VERSION" =>
            /\ UNCHANGED <<bws, pws>> /\ buf'.spectate = buf.spectate
            /\ \/ Len(b) < 2 /\ phase' = phase /\ buf'.client = b /\ wire'.server = wire.server
               \/ /\ Len(b) >= 2 /\ phase' = "SERVER_SEC_TYPES" /\ buf'.client = SubSeq(b, 3, Len(b))
                  /\ wire'.server = fed(Message("version"))
      /\ phase = "CLIENT_SEC_SELECT" =>
            /\ UNCHANGED <<bws, pws>> /\ buf'.spectate = buf.spectate
            /\ phase' = "SERVER_CHALLENGE" /\ buf'.client = Tail(b)
            /\ wire'.server = fed(Message("select"))
      /\ phase = "TRANSPARENT" /\ ~Spectator =>
            /\ UNCHANGED <<bws, pws, phase, buf>>
            /\ wire'.server = fed(raw)
      /\ phase = "TRANSPARENT" /\ Spectator =>
            /\ phase' = phase /\ buf'.client = buf.client
            /\ \/ /\ wire'.server = wire.server /\ buf'.spectate = c
                  /\ c[1][1] = "init" /\ (asker.format # 0 \/ pws' = Close(pws))
               \/ \E relayed, kept \in Streams :
                     /\ Split(c, relayed, kept)
                     /\ wire'.server = fed(relayed) /\ buf'.spectate = kept
  BY <1>1 DEF BrowserHeard
<1>4. /\ wire.proxyFromBrowser # <<>> /\ wire.proxyFromBrowser \in Streams
      /\ wire.browser \in Streams /\ wire.server \in Streams
  <2>1. Len(wire.proxyFromBrowser) # 0
    BY StreamTypes, LenProperties DEF Streams
  <2> QED
    BY <2>1, StreamTypes
<1>5. Close(pws) # "open"
  BY StreamTypes, Closes
<1>6. pws = "open"
  <2>1. pws \in {"none", "connecting", "open", "closing", "closed"}
    BY StreamTypes DEF Sockets
  <2>2. pws \in {"none", "connecting"} => wire.proxyFromBrowser = <<>>
    BY DEF InTurn, Silent, BrowserQuiet
  <2>3. pws \in {"open", "closing", "closed"}
    BY <1>4, <2>1, <2>2
  <2>4. BrowserMessage => pws' \in {pws, Close(pws)}
    BY DEF BrowserMessage, Filter, ClientVersion, ClientSecSelect, sockets
  <2> QED
    BY <1>5, <2>3, <2>4
<1>7. Stage /\ Unheld
  BY <1>6 DEF InTurn
<1>8. <<>> \o Message("version") = Message("version") /\ <<>> \o Message("select") = Message("select")
  BY Made, ConcatEmptySeq DEF Streams
<1>9. CASE Replying
  <2>1. /\ phase = "CLIENT_VERSION" /\ peer.server = "version" /\ wire.server = <<>> /\ reached = <<>>
        /\ ServerQuiet /\ peer.browser = "none" /\ wire.browser = <<>>
        /\ OnWay(buf.client, wire.proxyFromBrowser, "version")
    BY <1>4, <1>9 DEF Replying, BrowserQuiet
  <2>2. \/ Len(b) < 2 /\ ~(Len(b) >= 2) /\ OnWay(b, rest, "version")
        \/ /\ Len(b) >= 2 /\ ~(Len(b) < 2)
           /\ b = <<<<"version", 1>>, <<"version", 2>>>> /\ SubSeq(b, 3, Len(b)) = <<>> /\ rest = <<>>
    BY <2>1, Cuts DEF Kind
  <2> HIDE DEF b, rest
  <2>3. /\ Unheld'
        /\ \/ Len(b) < 2 /\ phase' = phase /\ buf'.client = b /\ wire'.server = wire.server
           \/ /\ Len(b) >= 2 /\ phase' = "SERVER_SEC_TYPES" /\ buf'.client = SubSeq(b, 3, Len(b))
              /\ wire'.server = wire.server \o Message("version")
    BY <1>2, <1>3, <1>6, <1>7, <2>1 DEF Unheld
  <2>4. CASE Len(b) < 2
    <3>1. OnWay(b, rest, "version") /\ phase' = phase /\ buf'.client = b /\ wire'.server = wire.server
      BY <2>2, <2>3, <2>4
    <3>2. Replying'
      BY <1>2, <2>1, <3>1 DEF Replying, ServerQuiet
    <3> QED
      BY <2>3, <3>2 DEF Stage
  <2>5. CASE Len(b) >= 2
    <3>1. /\ rest = <<>> /\ phase' = "SERVER_SEC_TYPES" /\ buf'.client = <<>>
          /\ wire'.server = Message("version")
      BY <1>8, <2>1, <2>2, <2>3, <2>5
    <3>2. Offering'
      BY <1>2, <2>1, <3>1 DEF Offering, ServerQuiet, BrowserQuiet
    <3> QED
      BY <2>3, <3>2 DEF Stage
  <2> QED
    BY <2>2, <2>4, <2>5
<1>10. CASE Selecting
  <2>1. /\ phase = "CLIENT_SEC_SELECT" /\ peer.server = "select" /\ wire.server = <<>>
        /\ reached = <<"version">> /\ ServerQuiet /\ peer.browser = "ok" /\ wire.browser = <<>>
        /\ buf.client = <<>> /\ wire.proxyFromBrowser = <<<<"select", 1>>>>
    BY <1>4, <1>10, Sequels DEF Selecting, BrowserQuiet
  <2>2. Tail(b) = <<>> /\ rest = <<>>
    <3> DEFINE one == <<<<"select", 1>>>>
    <3>1. one \in Streams /\ Len(one) = 1 /\ Tail(one) = <<>>
      BY Sequels, Made
    <3>2. n = 1 /\ raw = SubSeq(one, 1, Len(one)) /\ rest = SubSeq(one, 2, Len(one))
      BY <2>1, <3>1
    <3> HIDE DEF one
    <3>3. SubSeq(one, 1, Len(one)) = one
      BY <3>1, AllPieces
    <3>4. 2 \in Nat \ {0} /\ Len(one) \in Nat /\ Len(one) <= Len(one) /\ Len(one) < 2
      BY <3>1
    <3>5. SubSeq(one, 2, Len(one)) = <<>>
      BY <3>1, <3>4, NoPiece
    <3>6. <<>> \o one = one
      BY <3>1, ConcatEmptySeq DEF Streams
    <3> QED
      BY <2>1, <3>1, <3>2, <3>3, <3>5, <3>6
  <2> HIDE DEF b, rest
  <2>3. /\ Unheld' /\ phase' = "SERVER_CHALLENGE" /\ buf'.client = <<>>
        /\ wire'.server = Message("select")
    BY <1>2, <1>3, <1>6, <1>7, <1>8, <2>1, <2>2 DEF Unheld
  <2>4. Challenging'
    BY <1>2, <2>1, <2>2, <2>3 DEF Challenging, BrowserWaits, BrowserQuiet, ServerQuiet
  <2> QED
    BY <2>3, <2>4 DEF Stage
<1>11. CASE Relaying
  <2>1. /\ phase = "TRANSPARENT" /\ Of(wire.proxyFromServer, Pictures)
        /\ peer.browser \in {"sinit", "connected"} /\ Of(wire.browser, Pictures) /\ Asking
    BY <1>4, <1>11 DEF Relaying
  <2>2. Unheld'
    BY <1>2, <2>1 DEF Unheld
  <2>3. /\ raw \in Streams /\ \A K : Of(wire.proxyFromBrowser, K) => Of(raw, K)
        /\ \A K : Of(wire.proxyFromBrowser, K) => Of(rest, K)
        /\ Inits(wire.proxyFromBrowser) => Inits(raw) /\ Of(rest, Known)
    <3>1. n \in Nat /\ raw \in Streams /\ \A K : Of(wire.proxyFromBrowser, K) => Of(raw, K)
      BY <1>4, Raw
    <3>2. \A K : Of(wire.proxyFromBrowser, K) => Of(rest, K)
      BY <1>4, <3>1, RestOf
    <3>3. Inits(wire.proxyFromBrowser) => Inits(raw) /\ Of(rest, Known)
      BY <1>4, Initiations
    <3> QED
      BY <3>1, <3>2, <3>3
  <2>4. buf.spectate \in Streams
    BY StreamTypes
  <2> HIDE DEF raw, rest
  <2>5. <<>> \o raw = raw
    BY <2>3, ConcatEmptySeq DEF Streams
  <2>6. Spectator' = Spectator
    BY <1>2 DEF Spectator, IsOwner
  <2>7. Asking'
    <3>1. CASE ~Spectator
      <4>1. wire'.server = wire.server \o raw /\ buf' = buf
        BY <1>3, <1>6, <2>1, <3>1
      <4>2. CASE Unasked /\ Inits(wire.proxyFromBrowser) /\ buf.spectate = <<>>
        <5>1. Inits(wire'.server) /\ Of(rest, Known)
          BY <2>3, <2>5, <4>1, <4>2 DEF Unasked
        <5> QED
          BY <1>2, <4>1, <4>2, <5>1, Nothing DEF Asking, Unasked
      <4>3. CASE /\ peer.server = "init" /\ reached = <<"version", "select", "response">>
                 /\ Inits(wire.server) /\ Of(wire.proxyFromBrowser, Known) /\ Of(buf.spectate, Known)
        <5>1. Inits(wire'.server)
          BY <1>4, <2>3, <4>1, <4>3, Initiations
        <5> QED
          BY <1>2, <2>3, <4>1, <4>3, <5>1 DEF Asking
      <4>4. CASE /\ peer.server = "serving" /\ Len(reached) >= 4
                 /\ Of(wire.server, Known) /\ Of(wire.proxyFromBrowser, Known) /\ Of(buf.spectate, Known)
        <5>1. Of(wire'.server, Known)
          BY <1>4, <2>3, <4>1, <4>4, Joined
        <5> QED
          BY <1>2, <2>3, <4>1, <4>4, <5>1 DEF Asking
      <4> QED
        BY <2>1, <3>1, <4>2, <4>3, <4>4 DEF Asking
    <3>2. CASE Spectator
      <4>1. Of(rest, Known)
        BY <2>1, <2>3 DEF Asking
      <4>4. c \in Streams /\ 1 \in 1 .. Len(c)
        <5>1. c \in Streams /\ Len(c) = Len(buf.spectate) + Len(raw)
          BY <2>3, <2>4, Joined
        <5>2. Len(raw) >= 1 /\ Len(raw) \in Nat /\ Len(buf.spectate) \in Nat
          BY <2>3, <2>4, <1>1, HeardSome, LenProperties DEF Streams, raw
        <5> HIDE DEF c
        <5> QED
          BY <5>1, <5>2
      <4>5. Of(c, Known) => c[1][1] # "init"
        <5> HIDE DEF c
        <5> QED
          BY <4>4 DEF Of, Known, Dropped
      <4>6. \/ Unasked /\ Inits(c)
            \/ /\ peer.server = "init" /\ reached = <<"version", "select", "response">>
               /\ Inits(wire.server) /\ Of(c, Known)
            \/ /\ peer.server = "serving" /\ Len(reached) >= 4
               /\ Of(wire.server, Known) /\ Of(c, Known)
        BY <2>1, <2>3, <2>4, <2>5, Initiations, Joined DEF Asking
      <4> HIDE DEF c
      <4>7. CASE wire'.server = wire.server /\ buf'.spectate = c /\ c[1][1] = "init"
        BY <1>2, <2>6, <3>2, <4>1, <4>5, <4>6, <4>7 DEF Asking, Unasked
      <4>8. ASSUME NEW relayed \in Streams, NEW kept \in Streams, Split(c, relayed, kept),
                   wire'.server = fed(relayed), buf'.spectate = kept
            PROVE  Asking'
        <5>1. wire'.server = wire.server \o relayed
          BY <1>6, <4>8
        <5>2. CASE Unasked /\ Inits(c)
          <6>1. Inits(relayed) /\ Of(kept, Known)
            BY <4>8, <5>2 DEF Split
          <6>2. wire'.server = relayed
            BY <4>8, <5>1, <5>2, ConcatEmptySeq DEF Unasked, Streams
          <6> QED
            BY <1>2, <4>1, <4>8, <5>2, <6>1, <6>2 DEF Asking, Unasked
        <5>3. CASE /\ peer.server = "init" /\ reached = <<"version", "select", "response">>
                   /\ Inits(wire.server) /\ Of(c, Known)
          <6>1. Of(relayed, Known) /\ Of(kept, Known)
            BY <4>8, <5>3 DEF Split
          <6>2. Inits(wire'.server)
            BY <1>4, <4>8, <5>1, <5>3, <6>1, Initiations
          <6> QED
            BY <1>2, <4>1, <4>8, <5>3, <6>1, <6>2 DEF Asking
        <5>4. CASE /\ peer.server = "serving" /\ Len(reached) >= 4
                   /\ Of(wire.server, Known) /\ Of(c, Known)
          <6>1. Of(relayed, Known) /\ Of(kept, Known)
            BY <4>8, <5>4 DEF Split
          <6>2. Of(wire'.server, Known)
            BY <1>4, <4>8, <5>1, <5>4, <6>1, Joined
          <6> QED
            BY <1>2, <4>1, <4>8, <5>4, <6>1, <6>2 DEF Asking
        <5> QED
          BY <4>6, <5>2, <5>3, <5>4
      <4> QED
        BY <1>3, <2>1, <3>2, <4>7, <4>8
    <3> QED
      BY <3>1, <3>2
  <2>8. phase' = "TRANSPARENT"
    BY <1>3, <2>1
  <2>9. Relaying'
    BY <1>2, <2>1, <2>7, <2>8 DEF Relaying
  <2> QED
    BY <2>2, <2>9 DEF Stage
<1>12. Replying \/ Selecting \/ Relaying
  BY <1>4, <1>7 DEF Stage, Greeting, Offering, Challenging, Deciding, BrowserQuiet, BrowserWaits
<1> QED
  BY <1>9, <1>10, <1>11, <1>12

LEMMA Tuples ==
    ASSUME NEW S, NEW s \in Seq(S)
    PROVE  /\ Len(s) = 2 => s = <<s[1], s[2]>>
           /\ Len(s) = 3 => s = <<s[1], s[2], s[3]>>
           /\ Len(s) = 4 => s = <<s[1], s[2], s[3], s[4]>>
OBVIOUS

LEMMA Appended ==
    ASSUME NEW S, NEW a \in S, NEW b \in S, NEW c \in S, NEW d \in S
    PROVE  /\ Append(<<a>>, b) = <<a, b>> /\ Append(<<a, b>>, c) = <<a, b, c>>
           /\ Append(<<a, b, c>>, d) = <<a, b, c, d>>
<1>1. Append(<<a>>, b) = <<a, b>>
  <2> DEFINE s == <<a>>
             t == Append(s, b)
  <2>1. s \in Seq(S) /\ Len(s) = 1 /\ s[1] = a
    OBVIOUS
  <2> HIDE DEF s
  <2>2. s \in Seq(S)
    BY <2>1
  <2>3. /\ t \in Seq(S) /\ Len(t) = Len(s) + 1 /\ t[Len(s) + 1] = b
        /\ \A i \in 1 .. Len(s) : t[i] = s[i]
    BY <2>2, AppendProperties
  <2> HIDE DEF t
  <2>4. 1 \in 1 .. Len(s)
    BY <2>1
  <2>5. t[1] = s[1] /\ t[2] = b
    BY <2>1, <2>3, <2>4
  <2>6. Len(t) = 2
    BY <2>1, <2>3
  <2>7. t = <<t[1], t[2]>>
    BY <2>3, <2>6, Tuples
  <2> QED
    BY <2>1, <2>5, <2>7 DEF t, s
<1>2. Append(<<a, b>>, c) = <<a, b, c>>
  <2> DEFINE s == <<a, b>>
             t == Append(s, c)
  <2>1. s \in Seq(S) /\ Len(s) = 2 /\ s[1] = a /\ s[2] = b
    OBVIOUS
  <2> HIDE DEF s
  <2>2. s \in Seq(S)
    BY <2>1
  <2>3. /\ t \in Seq(S) /\ Len(t) = Len(s) + 1 /\ t[Len(s) + 1] = c
        /\ \A i \in 1 .. Len(s) : t[i] = s[i]
    BY <2>2, AppendProperties
  <2> HIDE DEF t
  <2>4. 1 \in 1 .. Len(s) /\ 2 \in 1 .. Len(s)
    BY <2>1
  <2>5. t[1] = s[1] /\ t[2] = s[2] /\ t[3] = c
    BY <2>1, <2>3, <2>4
  <2>6. Len(t) = 3
    BY <2>1, <2>3
  <2>7. t = <<t[1], t[2], t[3]>>
    BY <2>3, <2>6, Tuples
  <2> QED
    BY <2>1, <2>5, <2>7 DEF t, s
<1>3. Append(<<a, b, c>>, d) = <<a, b, c, d>>
  <2> DEFINE s == <<a, b, c>>
             t == Append(s, d)
  <2>1. s \in Seq(S) /\ Len(s) = 3 /\ s[1] = a /\ s[2] = b /\ s[3] = c
    OBVIOUS
  <2> HIDE DEF s
  <2>2. s \in Seq(S)
    BY <2>1
  <2>3. /\ t \in Seq(S) /\ Len(t) = Len(s) + 1 /\ t[Len(s) + 1] = d
        /\ \A i \in 1 .. Len(s) : t[i] = s[i]
    BY <2>2, AppendProperties
  <2> HIDE DEF t
  <2>4. 1 \in 1 .. Len(s) /\ 2 \in 1 .. Len(s) /\ 3 \in 1 .. Len(s)
    BY <2>1
  <2>5. t[1] = s[1] /\ t[2] = s[2] /\ t[3] = s[3] /\ t[4] = d
    BY <2>1, <2>3, <2>4
  <2>6. Len(t) = 4
    BY <2>1, <2>3
  <2>7. t = <<t[1], t[2], t[3], t[4]>>
    BY <2>3, <2>6, Tuples
  <2> QED
    BY <2>1, <2>5, <2>7 DEF t, s
<1> QED
  BY <1>1, <1>2, <1>3

\* What the server reads is what it waits for, and its answer is what the proxy
\* waits for.
LEMMA ServerReadsInTurn ==
    ASSUME TypeOK, InTurn, ServerReads
    PROVE  Stage' /\ StrictOrder'
<1> DEFINE m == wire.server[1][1]
<1>1. /\ pws = "open"
      /\ wire.server # <<>> /\ m \in Kind
      /\ \E a \in IF peer.server \in {m, "serving"} THEN Answer(m) ELSE {<<"failed", <<>>>>} :
            /\ peer'.server = a[1]
            /\ wire'.proxyFromServer = wire.proxyFromServer \o a[2]
      /\ peer'.browser = peer.browser
      /\ wire'.server = SubSeq(wire.server, Len(Message(m)) + 1, Len(wire.server))
      /\ wire'.browser = wire.browser /\ wire'.proxyFromBrowser = wire.proxyFromBrowser
      /\ reached' = Append(reached, m)
      /\ UNCHANGED <<asker, pc, bws, pws, phase, buf>>
  BY ServerReadsEffect
<1>2. PICK a \in IF peer.server \in {m, "serving"} THEN Answer(m) ELSE {<<"failed", <<>>>>} :
        /\ peer'.server = a[1]
        /\ wire'.proxyFromServer = wire.proxyFromServer \o a[2]
  BY <1>1
<1>3. /\ wire.server \in Streams /\ wire.proxyFromServer \in Streams /\ wire.proxyFromBrowser \in Streams
      /\ reached \in Seq(Kind)
  BY StreamTypes
<1>4. Stage
  BY <1>1 DEF InTurn
<1>5. /\ buf'.server = buf.server /\ buf'.client = buf.client /\ phase' = phase
      /\ asker' = asker /\ bws' = bws
  BY <1>1
<1>6. ASSUME NEW k \in Kind, wire.server = Message(k)
      PROVE  m = k /\ wire'.server = <<>>
  <2>1. wire.server[1] = <<k, 1>>
    BY <1>6, Messages
  <2>2. m = k
    BY <2>1
  <2>3. Message(k) \in Streams /\ Len(Message(k)) \in Nat /\ Len(Message(k)) + 1 \in Nat \ {0}
    BY Messages, LenProperties DEF Streams
  <2>4. SubSeq(Message(k), Len(Message(k)) + 1, Len(Message(k))) = <<>>
    BY <2>3, NoPiece
  <2> QED
    BY <1>1, <1>6, <2>2, <2>4
<1>7. /\ Append(<<"version">>, "select") = <<"version", "select">>
      /\ Append(<<"version", "select">>, "response") = <<"version", "select", "response">>
      /\ Append(<<"version", "select", "response">>, "init") = <<"version", "select", "response", "init">>
  <2>1. "version" \in Kind /\ "select" \in Kind /\ "response" \in Kind /\ "init" \in Kind
    BY DEF Kind, Short
  <2> QED
    BY <2>1, Appended
<1>8. CASE Offering
  <2>1. /\ phase = "SERVER_SEC_TYPES" /\ peer.server = "version" /\ wire.server = Message("version")
        /\ reached = <<>> /\ ServerQuiet /\ peer.browser = "none" /\ wire.browser = <<>> /\ BrowserQuiet
    BY <1>1, <1>8 DEF Offering
  <2>2. m = "version" /\ wire'.server = <<>>
    BY <1>6, <2>1 DEF Kind
  <2>3. a = <<"select", Message("types")>>
    BY <1>2, <2>1, <2>2 DEF Answer
  <2>4. peer'.server = "select" /\ wire'.proxyFromServer = Message("types") /\ reached' = <<"version">>
    <3>1. <<>> \o Message("types") = Message("types")
      BY Messages, ConcatEmptySeq DEF Kind, Streams
    <3> QED
      BY <1>1, <1>2, <2>1, <2>2, <2>3, <3>1 DEF ServerQuiet
  <2>5. OnWay(buf'.server, wire'.proxyFromServer, "types")
    BY <1>5, <2>1, <2>4, Sequels DEF OnWay, ServerQuiet
  <2>6. Offering'
    BY <1>1, <1>5, <2>1, <2>2, <2>4, <2>5 DEF Offering, BrowserQuiet
  <2>7. StrictOrder'
    BY <2>4 DEF StrictOrder
  <2> QED
    BY <2>6, <2>7 DEF Stage
<1>9. CASE Challenging
  <2>1. /\ phase = "SERVER_CHALLENGE" /\ peer.server = "select" /\ wire.server = Message("select")
        /\ reached = <<"version">> /\ ServerQuiet /\ BrowserWaits
    BY <1>1, <1>9 DEF Challenging
  <2>2. m = "select" /\ wire'.server = <<>>
    BY <1>6, <2>1 DEF Kind, Short
  <2>3. a = <<"response", Message("challenge")>>
    BY <1>2, <2>1, <2>2 DEF Answer
  <2>4. peer'.server = "response" /\ wire'.proxyFromServer = Message("challenge") /\ reached' = <<"version", "select">>
    <3>1. <<>> \o Message("challenge") = Message("challenge")
      BY Messages, ConcatEmptySeq DEF Kind, Streams
    <3> QED
      BY <1>1, <1>2, <1>7, <2>1, <2>2, <2>3, <3>1 DEF ServerQuiet
  <2>5. OnWay(buf'.server, wire'.proxyFromServer, "challenge")
    BY <1>5, <2>1, <2>4, Sequels DEF OnWay, ServerQuiet
  <2>6. Challenging'
    BY <1>1, <1>5, <2>1, <2>2, <2>4, <2>5 DEF Challenging, BrowserWaits, BrowserQuiet
  <2>7. StrictOrder'
    BY <2>4 DEF StrictOrder
  <2> QED
    BY <2>6, <2>7 DEF Stage
<1>10. CASE Deciding
  <2>1. /\ phase = "SERVER_RESULT" /\ peer.server = "response" /\ wire.server = Message("response")
        /\ reached = <<"version", "select">> /\ ServerQuiet /\ BrowserWaits
    BY <1>1, <1>10 DEF Deciding
  <2>2. m = "response" /\ wire'.server = <<>>
    BY <1>6, <2>1 DEF Kind
  <2>3. a \in {<<"init", Message("result")>>, <<"failed", Message("denied") \o Message("reason")>>}
    BY <1>2, <2>1, <2>2 DEF Answer
  <2>4. reached' = <<"version", "select", "response">>
    BY <1>1, <1>7, <2>1, <2>2
  <2>5. ASSUME a = <<"init", Message("result")>> PROVE Deciding'
    <3>1. <<>> \o Message("result") = Message("result")
      BY Messages, ConcatEmptySeq DEF Kind, Streams
    <3>2. peer'.server = "init" /\ wire'.proxyFromServer = Message("result")
      BY <1>2, <2>1, <2>5, <3>1 DEF ServerQuiet
    <3>3. OnWay(buf'.server, wire'.proxyFromServer, "result")
      BY <1>5, <2>1, <3>2, Sequels DEF OnWay, ServerQuiet
    <3> QED
      BY <1>1, <1>5, <2>1, <2>2, <2>4, <3>2, <3>3 DEF Deciding, BrowserWaits, BrowserQuiet
  <2>6. ASSUME a = <<"failed", Message("denied") \o Message("reason")>> PROVE Deciding'
    <3> DEFINE no == Message("denied") \o Message("reason")
    <3>1. no \in Streams
      BY Refused
    <3>2. a[1] = "failed" /\ a[2] = no
      BY <2>6
    <3> HIDE DEF no
    <3>3. <<>> \o no = no
      BY <3>1, ConcatEmptySeq DEF Streams
    <3>4. peer'.server = "failed" /\ wire'.proxyFromServer = no
      BY <1>2, <2>1, <3>2, <3>3 DEF ServerQuiet
    <3>5. wire'.proxyFromServer = Message("denied") \o Message("reason")
      BY <3>4 DEF no
    <3> QED
      BY <1>1, <1>5, <2>1, <2>2, <2>4, <3>4, <3>5 DEF Deciding, BrowserWaits, BrowserQuiet, ServerQuiet
  <2>7. Deciding'
    BY <2>3, <2>5, <2>6
  <2>8. StrictOrder'
    BY <2>4 DEF StrictOrder
  <2> QED
    BY <2>7, <2>8 DEF Stage
<1>11. CASE Relaying
  <2>1. /\ phase = "TRANSPARENT" /\ Of(wire.proxyFromServer, Pictures)
        /\ peer.browser \in {"sinit", "connected"} /\ Of(wire.browser, Pictures)
        /\ Of(wire.proxyFromBrowser, Known) /\ Of(buf.spectate, Known)
        /\ \/ /\ peer.server = "init" /\ reached = <<"version", "select", "response">>
              /\ Inits(wire.server)
           \/ peer.server = "serving" /\ Len(reached) >= 4 /\ Of(wire.server, Known)
    BY <1>1, <1>11 DEF Relaying, Asking, Unasked
  <2>2. CASE /\ peer.server = "init" /\ reached = <<"version", "select", "response">>
             /\ Inits(wire.server)
    <3>1. m = "init" /\ Len(wire.server) >= 1
      BY <2>2 DEF Inits
    <3>2. Len(Message(m)) = 1
      BY <3>1, Messages DEF Kind, Short
    <3>3. Of(wire'.server, Known)
      <4>1. 1 \in 1 .. Len(wire.server)
        BY <1>3, <3>1, LenProperties DEF Streams
      <4>2. Of(SubSeq(wire.server, 1 + 1, Len(wire.server)), Known)
        BY <1>3, <2>2, <4>1, Initiations
      <4> QED
        BY <1>1, <3>2, <4>2
    <3>4. a = <<"serving", Message("sinit")>>
      BY <1>2, <2>2, <3>1 DEF Answer
    <3>5. peer'.server = "serving" /\ Of(wire'.proxyFromServer, Pictures)
      BY <1>2, <1>3, <2>1, <3>4, Sequels, Joined
    <3>6. reached' = <<"version", "select", "response", "init">>
      BY <1>1, <1>7, <2>2, <3>1
    <3>7. Asking'
      BY <1>1, <1>5, <2>1, <3>3, <3>5, <3>6 DEF Asking, Spectator, IsOwner
    <3>8. Relaying'
      BY <1>1, <1>5, <2>1, <3>5, <3>7 DEF Relaying
    <3>9. StrictOrder'
      BY <3>6 DEF StrictOrder
    <3> QED
      BY <3>8, <3>9 DEF Stage
  <2>3. CASE peer.server = "serving" /\ Len(reached) >= 4 /\ Of(wire.server, Known)
    <3>1. m \in Known
      <4>1. Len(wire.server) \in Nat /\ Len(wire.server) # 0
        BY <1>1, <1>3, LenProperties, EmptySeq DEF Streams
      <4>2. 1 \in 1 .. Len(wire.server)
        BY <4>1
      <4> QED
        BY <2>3, <4>2 DEF Of
    <3>2. Of(wire'.server, Known)
      <4>1. Len(Message(m)) \in Nat
        BY <1>1, Messages
      <4> QED
        BY <1>1, <1>3, <2>3, <4>1, RestOf
    <3>3. a \in {<<"serving", Message("frame")>>, <<"serving", <<>>>>}
      BY <1>2, <2>3, <3>1 DEF Answer, Known, Dropped
    <3>4. peer'.server = "serving" /\ a[2] \in Streams /\ Of(a[2], Pictures)
      <4>1. CASE a = <<"serving", Message("frame")>>
        BY <1>2, <4>1, Sequels
      <4>2. CASE a = <<"serving", <<>>>>
        BY <1>2, <4>2, Nothing
      <4> QED
        BY <3>3, <4>1, <4>2
    <3>5. Of(wire'.proxyFromServer, Pictures)
      BY <1>2, <1>3, <2>1, <3>4, Joined
    <3>6. /\ Len(reached') = Len(reached) + 1 /\ reached'[Len(reached) + 1] = m
          /\ \A i \in 1 .. Len(reached) : reached'[i] = reached[i]
          /\ Len(reached) \in Nat
      BY <1>1, <1>3, AppendProperties, LenProperties
    <3>7. Len(reached') >= 4
      BY <2>3, <3>6
    <3>8. Asking'
      BY <1>1, <1>5, <2>1, <3>2, <3>4, <3>7 DEF Asking, Spectator, IsOwner
    <3>9. Relaying'
      BY <1>1, <1>5, <2>1, <3>5, <3>8 DEF Relaying
    <3>10. StrictOrder'
      <4> DEFINE turns == <<"version", "select", "response", "init">>
      <4>1. SUFFICES ASSUME NEW i \in 1 .. Len(reached')
                     PROVE  IF i <= 4 THEN reached'[i] = turns[i] ELSE reached'[i] \in Known
        BY DEF StrictOrder
      <4>2. \A j \in 1 .. Len(reached) : IF j <= 4 THEN reached[j] = turns[j] ELSE reached[j] \in Known
        BY DEF InTurn, StrictOrder
      <4> HIDE DEF turns
      <4>3. CASE i \in 1 .. Len(reached)
        BY <3>6, <4>2, <4>3
      <4>4. CASE i = Len(reached) + 1
        BY <2>3, <3>1, <3>6, <4>4
      <4> QED
        BY <3>6, <4>3, <4>4
    <3> QED
      BY <3>9, <3>10 DEF Stage
  <2> QED
    BY <2>1, <2>2, <2>3
<1>12. ~Greeting /\ ~Replying /\ ~Selecting
  BY <1>1 DEF Greeting, Replying, Selecting
<1> QED
  BY <1>4, <1>8, <1>9, <1>10, <1>11, <1>12 DEF Stage

\* The browser reads what the proxy has made up, and reacts in turn.
LEMMA BrowserReadsInTurn ==
    ASSUME TypeOK, InTurn, BrowserReads, pws = "open"
    PROVE  Stage' /\ Unheld'
<1> DEFINE m == wire.browser[1][1]
<1>1. /\ wire.browser # <<>> /\ m \in Kind
      /\ peer'.browser = Reaction(m)[1] /\ peer'.server = peer.server
      /\ wire'.browser = SubSeq(wire.browser, Len(Message(m)) + 1, Len(wire.browser))
      /\ wire'.proxyFromBrowser = wire.proxyFromBrowser \o Reaction(m)[2]
      /\ wire'.server = wire.server /\ wire'.proxyFromServer = wire.proxyFromServer
      /\ UNCHANGED <<asker, pc, bws, pws, phase, buf, reached>>
  BY BrowserReadsEffect
<1>2. /\ wire.browser \in Streams /\ wire.proxyFromBrowser \in Streams
  BY StreamTypes
<1>3. Stage /\ Unheld
  BY DEF InTurn
<1>4. /\ buf'.server = buf.server /\ buf'.client = buf.client /\ buf'.spectate = buf.spectate
      /\ phase' = phase /\ reached' = reached
  BY <1>1
<1>5. ASSUME NEW k \in Kind, wire.browser = Message(k)
      PROVE  m = k /\ wire'.browser = <<>>
  <2>1. wire.browser[1] = <<k, 1>>
    BY <1>5, Messages
  <2>2. m = k
    BY <2>1
  <2>3. Message(k) \in Streams /\ Len(Message(k)) \in Nat /\ Len(Message(k)) + 1 \in Nat \ {0}
    BY Messages, LenProperties DEF Streams
  <2>4. SubSeq(Message(k), Len(Message(k)) + 1, Len(Message(k))) = <<>>
    BY <2>3, NoPiece
  <2> QED
    BY <1>1, <1>5, <2>2, <2>4
<1>6. CASE Replying
  <2>1. /\ phase = "CLIENT_VERSION" /\ peer.server = "version" /\ wire.server = <<>> /\ reached = <<>>
        /\ ServerQuiet /\ peer.browser = "version" /\ wire.browser = Message("version") /\ BrowserQuiet
    BY <1>1, <1>6 DEF Replying
  <2>2. m = "version" /\ wire'.browser = <<>>
    BY <1>5, <2>1 DEF Kind
  <2>3. Reaction(m)[1] = "none" /\ Reaction(m)[2] = Message("version")
    BY <2>2 DEF Reaction
  <2>4. <<>> \o Message("version") = Message("version")
    BY Made, ConcatEmptySeq DEF Streams
  <2>5. peer'.browser = "none" /\ wire'.proxyFromBrowser = Message("version")
    BY <1>1, <2>1, <2>3, <2>4 DEF BrowserQuiet
  <2>6. OnWay(buf'.client, wire'.proxyFromBrowser, "version")
    BY <1>4, <2>1, <2>5, Sequels DEF OnWay, BrowserQuiet
  <2>7. Replying'
    BY <1>1, <1>4, <2>1, <2>2, <2>5, <2>6 DEF Replying, ServerQuiet
  <2> QED
    BY <1>3, <1>4, <2>1, <2>7 DEF Stage, Unheld
<1>7. CASE Selecting
  <2>1. /\ phase = "CLIENT_SEC_SELECT" /\ peer.server = "select" /\ wire.server = <<>>
        /\ reached = <<"version">> /\ ServerQuiet
        /\ peer.browser = "none" /\ wire.browser = Message("none") /\ BrowserQuiet
    BY <1>1, <1>7 DEF Selecting
  <2>2. m = "none" /\ wire'.browser = <<>>
    BY <1>5, <2>1 DEF Kind
  <2>3. Reaction(m)[1] = "ok" /\ Reaction(m)[2] = Message("select")
    BY <2>2 DEF Reaction
  <2>4. <<>> \o Message("select") = Message("select")
    BY Made, ConcatEmptySeq DEF Streams
  <2>5. peer'.browser = "ok" /\ wire'.proxyFromBrowser = Message("select")
    BY <1>1, <2>1, <2>3, <2>4 DEF BrowserQuiet
  <2>6. Selecting'
    BY <1>1, <1>4, <2>1, <2>2, <2>5 DEF Selecting, ServerQuiet, BrowserQuiet
  <2> QED
    BY <1>3, <1>4, <2>1, <2>6 DEF Stage, Unheld
<1>8. CASE Relaying
  <2>1. /\ phase = "TRANSPARENT" /\ Of(wire.proxyFromServer, Pictures)
        /\ \/ /\ peer.browser = "ok" /\ wire.proxyFromBrowser = <<>> /\ Unasked
              /\ Oks(wire.browser)
           \/ /\ peer.browser \in {"sinit", "connected"} /\ Of(wire.browser, Pictures)
              /\ Asking
    BY <1>1, <1>8 DEF Relaying
  <2>2. CASE peer.browser = "ok" /\ wire.proxyFromBrowser = <<>> /\ Unasked /\ Oks(wire.browser)
    <3>1. m = "ok"
      BY <2>2 DEF Oks
    <3>2. Len(Message(m)) = 2
      BY <3>1, Messages DEF Kind, Short
    <3>3. Of(wire'.browser, Pictures)
      <4>1. Of(SubSeq(wire.browser, 3, Len(wire.browser)), Pictures)
        BY <1>2, <2>2, Results
      <4>2. Len(Message(m)) + 1 = 3
        BY <3>2
      <4> QED
        BY <1>1, <4>1, <4>2
    <3>4. Reaction(m)[1] = "sinit" /\ Reaction(m)[2] = Message("init")
      BY <3>1 DEF Reaction
    <3>5. <<>> \o Message("init") = Message("init")
      BY Made, ConcatEmptySeq DEF Streams
    <3>6. peer'.browser = "sinit" /\ wire'.proxyFromBrowser = Message("init")
      BY <1>1, <2>2, <3>4, <3>5
    <3>7. Asking'
      BY <1>1, <1>3, <1>4, <2>2, <3>6, Sequels DEF Asking, Unasked, Unheld
    <3>8. Relaying'
      BY <1>1, <1>4, <2>1, <3>3, <3>6, <3>7 DEF Relaying
    <3> QED
      BY <3>6, <3>8 DEF Stage, Unheld
  <2>3. CASE peer.browser \in {"sinit", "connected"} /\ Of(wire.browser, Pictures) /\ Asking
    <3>1. m \in Pictures
      <4>1. Len(wire.browser) \in Nat /\ Len(wire.browser) # 0
        BY <1>1, <1>2, LenProperties, EmptySeq DEF Streams
      <4>2. 1 \in 1 .. Len(wire.browser)
        BY <4>1
      <4> QED
        BY <2>3, <4>2 DEF Of
    <3>2. Of(wire'.browser, Pictures)
      <4>1. Len(Message(m)) \in Nat
        BY <1>1, Messages
      <4> QED
        BY <1>1, <1>2, <2>3, <4>1, RestOf
    <3>3. Reaction(m)[1] = "connected" /\ Reaction(m)[2] \in {Message("request"), <<>>}
      BY <3>1 DEF Reaction, Pictures
    <3>4. Reaction(m)[2] \in Streams /\ Of(Reaction(m)[2], Known)
      <4>1. CASE Reaction(m)[2] = Message("request")
        BY <4>1, Sequels
      <4>2. CASE Reaction(m)[2] = <<>>
        BY <4>2, Nothing
      <4> QED
        BY <3>3, <4>1, <4>2
    <3>5. /\ Inits(wire.proxyFromBrowser) => Inits(wire'.proxyFromBrowser)
          /\ Of(wire.proxyFromBrowser, Known) => Of(wire'.proxyFromBrowser, Known)
      BY <1>1, <1>2, <3>4, Initiations, Joined
    <3>6. Asking'
      BY <1>1, <1>4, <2>3, <3>5 DEF Asking, Unasked, Spectator, IsOwner
    <3>7. peer'.browser = "connected"
      BY <1>1, <3>3
    <3>8. Relaying'
      BY <1>1, <1>4, <2>1, <3>2, <3>6, <3>7 DEF Relaying
    <3> QED
      BY <3>7, <3>8 DEF Stage, Unheld
  <2> QED
    BY <2>1, <2>2, <2>3
<1>9. Replying \/ Selecting \/ Relaying
  BY <1>1, <1>3 DEF Stage, Greeting, Offering, Challenging, Deciding, BrowserWaits
<1> QED
  BY <1>6, <1>7, <1>8, <1>9

\* Keys follow ClientInit, which has been sent, read or passed on before.
LEMMA BrowserInputInTurn ==
    ASSUME TypeOK, InTurn, BrowserInput, pws = "open"
    PROVE  Stage'
<1>1. /\ peer.browser \in {"sinit", "connected"}
      /\ wire'.proxyFromBrowser = wire.proxyFromBrowser \o Message("input")
      /\ wire'.browser = wire.browser
      /\ wire'.server = wire.server /\ wire'.proxyFromServer = wire.proxyFromServer
      /\ UNCHANGED <<asker, pc, bws, pws, phase, buf, peer, reached>>
  BY BrowserInputEffect
<1>2. wire.proxyFromBrowser \in Streams
  BY StreamTypes
<1>3. /\ phase = "TRANSPARENT" /\ Of(wire.proxyFromServer, Pictures)
      /\ Of(wire.browser, Pictures) /\ Asking
  BY <1>1 DEF InTurn, Stage, Greeting, Replying, Offering, Selecting, Challenging, Deciding,
              BrowserWaits, Relaying
<1>4. /\ Inits(wire.proxyFromBrowser) => Inits(wire'.proxyFromBrowser)
      /\ Of(wire.proxyFromBrowser, Known) => Of(wire'.proxyFromBrowser, Known)
  BY <1>1, <1>2, Sequels, Initiations, Joined
<1>5. Asking'
  BY <1>1, <1>3, <1>4 DEF Asking, Unasked, Spectator, IsOwner
<1>6. Relaying'
  BY <1>1, <1>3, <1>5 DEF Relaying
<1> QED
  BY <1>6 DEF Stage

\* What happens to the sockets alone leaves the conversation where it is.
LEMMA StageStays ==
    ASSUME Stage, UNCHANGED <<asker, phase, buf, wire, peer, reached>>,
           bws' = "open" => bws = "open"
    PROVE  Stage'
<1>1. Greeting => Greeting'
  BY DEF Greeting, OnWay, BrowserQuiet
<1>2. Replying => Replying'
  BY DEF Replying, OnWay, ServerQuiet, BrowserQuiet
<1>3. Offering => Offering'
  BY DEF Offering, OnWay, ServerQuiet, BrowserQuiet
<1>4. Selecting => Selecting'
  BY DEF Selecting, ServerQuiet, BrowserQuiet
<1>5. Challenging => Challenging'
  BY DEF Challenging, OnWay, ServerQuiet, BrowserWaits, BrowserQuiet
<1>6. Deciding => Deciding'
  BY DEF Deciding, OnWay, ServerQuiet, BrowserWaits, BrowserQuiet
<1>7. CASE Relaying
  <2>1. Asking => Asking'
    BY DEF Asking, Unasked, Spectator, IsOwner, Inits, Of
  <2>2. Relaying'
    BY <1>7, <2>1 DEF Relaying, Unasked, Oks, Of
  <2> QED
    BY <2>2 DEF Stage
<1> QED
  BY <1>7, <1>1, <1>2, <1>3, <1>4, <1>5, <1>6 DEF Stage

\* Until the socket to Proxmox opens nobody speaks.
LEMMA SilenceStays ==
    ASSUME TypeOK, InTurn, [Next]_vars, pws' \in {"none", "connecting"}
    PROVE  Silent' /\ Unheld'
<1>1. pws \in {"none", "connecting"}
  <2>1. pws \in {"none", "connecting", "open", "closing", "closed"}
    BY StreamTypes DEF Sockets
  <2>2. Close(pws) \in {"none", "connecting"} => pws \in {"none", "connecting"}
    BY <2>1 DEF Close
  <2>3. ServerMessage => pws' \in {pws, Close(pws)}
    BY DEF ServerMessage, ServerVersion, ServerSecTypes, ServerChallenge, ServerResult, sockets
  <2>4. BrowserMessage => pws' \in {pws, Close(pws)}
    BY DEF BrowserMessage, Filter, ClientVersion, ClientSecSelect, sockets
  <2>5. ~ServerMessage /\ ~BrowserMessage => pws' = pws \/ pws \in {"none", "connecting"} \/ pws' \in {"closing", "closed"}
                                                       \/ Attach
    BY DEF Next, Handler, Lookup, Refuse, TicketFails, BrowserGone, ServerGone, ServerOpens, ServerCloses,
       BrowserCloses, ServerReads, BrowserReads, BrowserInput, sockets, vars
  <2>6. Attach => pws = "none"
    BY DEF Attach, InTurn
  <2> QED
    BY <2>2, <2>3, <2>4, <2>5, <2>6
<1>2. Silent /\ Unheld
  BY <1>1 DEF InTurn
<1>3. UNCHANGED <<phase, buf, wire, peer, reached>>
  <2>1. ~ServerMessage /\ ~ServerReads /\ ~ServerOpens
    BY <1>1 DEF ServerMessage, ServerReads, ServerOpens
  <2>2. ~BrowserMessage
    <3>1. SUFFICES ASSUME BrowserMessage PROVE FALSE
      OBVIOUS
    <3>2. wire.proxyFromBrowser = <<>>
      BY <1>2 DEF Silent, BrowserQuiet
    <3>3. 1 .. Len(wire.proxyFromBrowser) = {}
      BY <3>2
    <3> QED
      BY <3>1, <3>3 DEF BrowserMessage
  <2>3. ~BrowserReads
    BY <1>2, BrowserReadsEffect DEF Silent
  <2>4. ~BrowserInput
    BY <1>2 DEF Silent, BrowserInput
  <2> QED
    BY <2>1, <2>2, <2>3, <2>4 DEF Next, Handler, Lookup, Refuse, Attach, TicketFails, BrowserGone, ServerGone,
       ServerCloses, BrowserCloses, vars
<1> QED
  BY <1>2, <1>3 DEF Silent, ServerQuiet, BrowserQuiet, Unheld

LEMMA StaysInTurn ==
    ASSUME TypeOK, InTurn, [Next]_vars
    PROVE  InTurn'
<1>1. StrictOrder'
  <2>1. CASE ServerReads
    BY <2>1, ServerReadsInTurn
  <2>2. CASE ~ServerReads
    <3>1. reached' = reached
      BY <2>2 DEF Next, Handler, Lookup, Refuse, Attach, TicketFails, ServerMessage, BrowserMessage, BrowserGone,
         ServerGone, ServerOpens, ServerCloses, BrowserCloses, BrowserReads, BrowserInput, vars
    <3> QED
      BY <3>1 DEF InTurn, StrictOrder
  <2> QED
    BY <2>1, <2>2
<1>2. pc' \in {"lookup", "ticket"} => pws' = "none"
  <2>1. pc \in {"lookup", "ticket"} => pws = "none"
    BY DEF InTurn
  <2> QED
    BY <2>1 DEF Next, Handler, Lookup, Refuse, Attach, TicketFails, ServerMessage, BrowserMessage, BrowserGone,
       ServerGone, ServerOpens, ServerCloses, BrowserCloses, ServerReads, BrowserReads, BrowserInput, sockets, vars
<1>3. pws' \in {"none", "connecting"} => Silent' /\ Unheld'
  BY SilenceStays
<1>4. pws' = "open" => Stage' /\ Unheld'
  <2> SUFFICES ASSUME pws' = "open" PROVE Stage' /\ Unheld'
    OBVIOUS
  <2>1. CASE ServerMessage
    BY <2>1, ServerMessageInTurn
  <2>2. CASE BrowserMessage
    BY <2>2, BrowserMessageInTurn
  <2>3. CASE ServerOpens
    <3>1. /\ pws = "connecting" /\ wire' = [wire EXCEPT !.proxyFromServer = Message("version")]
          /\ UNCHANGED <<asker, pc, bws, phase, buf, peer, reached>>
      BY <2>3 DEF ServerOpens
    <3>2. Silent /\ Unheld
      BY <3>1 DEF InTurn
    <3>3. /\ wire'.proxyFromServer = Message("version") /\ wire'.server = wire.server
          /\ wire'.browser = wire.browser /\ wire'.proxyFromBrowser = wire.proxyFromBrowser
      BY <3>1, StreamTypes DEF Wires
    <3>4. OnWay(buf'.server, wire'.proxyFromServer, "version")
      BY <3>1, <3>2, <3>3, Sequels DEF OnWay, Silent, ServerQuiet
    <3>5. Greeting'
      BY <3>1, <3>2, <3>3, <3>4 DEF Greeting, Silent, ServerQuiet, BrowserQuiet
    <3> QED
      BY <3>1, <3>2, <3>5 DEF Stage, Unheld
  <2>4. CASE ServerReads
    <3>1. pws = "open" /\ buf' = buf
      BY <2>4, ServerReadsEffect
    <3>2. peer'.browser = peer.browser
      BY <2>4, ServerReadsEffect
    <3> QED
      BY <2>4, <3>1, <3>2, ServerReadsInTurn DEF InTurn, Unheld
  <2>5. CASE BrowserReads
    <3>1. pws = "open" /\ buf' = buf
      BY <2>5, BrowserReadsEffect
    <3> QED
      BY <2>5, <3>1, BrowserReadsInTurn DEF InTurn
  <2>6. CASE BrowserInput
    <3>1. pws = "open" /\ buf' = buf
      BY <2>6, BrowserInputEffect
    <3>2. peer' = peer
      BY <2>6, BrowserInputEffect
    <3> QED
      BY <2>6, <3>1, <3>2, BrowserInputInTurn DEF InTurn, Unheld
  <2>7. CASE \/ Lookup \/ Attach \/ TicketFails \/ BrowserGone \/ ServerGone
             \/ ServerCloses \/ BrowserCloses \/ UNCHANGED vars
    <3>1. /\ UNCHANGED <<asker, phase, buf, wire, peer, reached>>
          /\ bws' = "open" => bws = "open"
          /\ pws = "open"
      BY <2>7 DEF Lookup, Refuse, Attach, TicketFails, BrowserGone, ServerGone, ServerCloses, BrowserCloses,
         Close, sockets, vars
    <3>2. Stage /\ Unheld
      BY <3>1 DEF InTurn
    <3> QED
      BY <3>1, <3>2, StageStays DEF Unheld
  <2> QED
    BY <2>1, <2>2, <2>3, <2>4, <2>5, <2>6, <2>7 DEF Next, Handler
<1> QED
  BY <1>1, <1>2, <1>3, <1>4 DEF InTurn

LEMMA InTurnInit == Init => InTurn
BY DEF Init, InTurn, StrictOrder, Silent, ServerQuiet, BrowserQuiet, Unheld

\* What the server is sent is also in the order that it needs; see StrictOrder.
LEMMA InTurnAlways == Spec => [](TypeOK /\ InTurn)
<1>1. Init => TypeOK /\ InTurn
  BY TypedInit, InTurnInit
<1>2. TypeOK /\ InTurn /\ [Next]_vars => (TypeOK /\ InTurn)'
  BY Typed, StaysInTurn
<1> QED
  BY <1>1, <1>2, PTL DEF Spec

\* The server is sent the version, the security type, the response and ClientInit,
\* each once and in this order, and then only requests and input, however many
\* messages follow and however they are cut: nothing that either side has sent
\* early is lost or passed on when the phase changes.
THEOREM HandshakeSafe == Spec => []HandshakeInOrder
<1>1. InTurn => HandshakeInOrder
  <2> SUFFICES ASSUME InTurn PROVE HandshakeInOrder
    OBVIOUS
  <2>1. StrictOrder
    BY DEF InTurn
  <2> QED
    BY <2>1 DEF StrictOrder, HandshakeInOrder
<1> QED
  BY <1>1, InTurnAlways, PTL

-----------------------------------------------------------------------------
(* Spectators *)

\* The piece before the first that is under way, counted from the one that
\* follows ClientInit.
Base == IF Len(reached) >= 4 THEN 2 * (Len(reached) - 4) ELSE 0 - 1

\* What is to be dropped is within what ClientInit makes the filter relay.
Within(s, base) == \A i \in 1 .. Len(s) : s[i][1] \in Dropped => base + i <= asker.format

Fed ==
    Spectator /\ InStep =>
        /\ Within(wire.server, Base)
        /\ \A i \in 1 .. Len(reached) : reached[i] = "input" => 2 * (i - 5) < asker.format

LEMMA Harmless ==
    ASSUME NEW s \in Streams, NEW t \in Streams, NEW base \in Int, Within(s, base), Of(t, Kind \ Dropped)
    PROVE  Within(s \o t, base)
<1>1. /\ Len(s \o t) = Len(s) + Len(t)
      /\ \A i \in 1 .. Len(s) + Len(t) : (s \o t)[i] = IF i <= Len(s) THEN s[i] ELSE t[i - Len(s)]
  BY ConcatProperties DEF Streams
<1>2. Len(s) \in Nat /\ Len(t) \in Nat
  BY LenProperties DEF Streams
<1> DEFINE st == s \o t
<1>3. Len(st) = Len(s) + Len(t)
      /\ \A i \in 1 .. Len(s) + Len(t) : st[i] = IF i <= Len(s) THEN s[i] ELSE t[i - Len(s)]
  BY <1>1
<1> HIDE DEF st
<1>4. ASSUME NEW i \in 1 .. Len(st), st[i][1] \in Dropped
      PROVE  base + i <= asker.format
  <2>1. CASE i <= Len(s)
    BY <1>2, <1>3, <1>4, <2>1 DEF Within
  <2>2. CASE ~(i <= Len(s))
    <3>1. i - Len(s) \in 1 .. Len(t) /\ st[i] = t[i - Len(s)]
      BY <1>2, <1>3, <2>2
    <3> QED
      BY <1>4, <3>1 DEF Of
  <2> QED
    BY <2>1, <2>2
<1> QED
  BY <1>4 DEF Within, st

\* Some pieces have been read.
LEMMA ReadOn ==
    ASSUME NEW s \in Streams, NEW n \in Nat, NEW base \in Int, NEW next \in Int, next = base + n,
           Within(s, base)
    PROVE  Within(SubSeq(s, n + 1, Len(s)), next)
<1> DEFINE rest == SubSeq(s, n + 1, Len(s))
<1>1. Len(s) \in Nat
  BY LenProperties DEF Streams
<1>2. /\ Len(rest) = IF n + 1 <= Len(s) THEN Len(s) - (n + 1) + 1 ELSE 0
      /\ \A i \in 1 .. Len(s) - (n + 1) + 1 : rest[i] = s[n + 1 + i - 1]
  BY <1>1, Cut
<1> HIDE DEF rest
<1>3. ASSUME NEW i \in 1 .. Len(rest), rest[i][1] \in Dropped
      PROVE  next + i <= asker.format
  <2>1. i \in 1 .. Len(s) - (n + 1) + 1 /\ n + 1 + i - 1 = n + i /\ n + i \in 1 .. Len(s)
    BY <1>1, <1>2
  <2>2. s[n + i][1] \in Dropped
    BY <1>2, <1>3, <2>1
  <2>3. base + (n + i) <= asker.format
    BY <2>1, <2>2 DEF Within
  <2>4. base + (n + i) = next + i
    BY <2>1
  <2> QED
    BY <2>3, <2>4
<1> QED
  BY <1>3 DEF Within, rest

LEMMA Bases == ASSUME TypeOK PROVE Base \in Int /\ Len(reached) \in Nat
<1>1. Len(reached) \in Nat
  BY StreamTypes, LenProperties
<1> QED
  BY <1>1 DEF Base

\* What is under way to the server in the handshake is one message.
LEMMA ReadsAlone ==
    ASSUME TypeOK, Stage, wire.server # <<>>, Len(reached) < 3
    PROVE  LET m == wire.server[1][1]
           IN  SubSeq(wire.server, Len(Message(m)) + 1, Len(wire.server)) = <<>> /\ m # "input"
<1>1. PICK k \in {"version", "select", "response"} : wire.server = Message(k)
  <2>1. Len(<<"version", "select", "response">>) = 3
    OBVIOUS
  <2> QED
    BY <2>1 DEF Stage, Greeting, Replying, Offering, Selecting, Challenging, Deciding, Relaying, Asking, Unasked
<1>2. k \in Kind
  BY DEF Kind, Short
<1>3. wire.server[1] = <<k, 1>>
  BY <1>1, <1>2, Messages
<1>4. Message(k) \in Streams /\ Len(Message(k)) \in Nat /\ Len(Message(k)) + 1 \in Nat \ {0}
  BY <1>2, Messages, LenProperties DEF Streams
<1>5. SubSeq(Message(k), Len(Message(k)) + 1, Len(Message(k))) = <<>>
  BY <1>4, NoPiece
<1> QED
  BY <1>1, <1>3, <1>5

LEMMA StaysFed ==
    ASSUME TypeOK, InTurn, Fed, [Next]_vars
    PROVE  Fed'
<1>1. UNCHANGED asker
  BY DEF Next, Handler, Lookup, Refuse, Attach, TicketFails, ServerMessage, BrowserMessage, BrowserGone,
         ServerGone, ServerOpens, ServerCloses, BrowserCloses, ServerReads, BrowserReads, BrowserInput, vars
<1>2. /\ Spectator' = Spectator /\ InStep' = InStep /\ asker'.format = asker.format
  BY <1>1 DEF Spectator, IsOwner, InStep
<1> SUFFICES ASSUME Spectator, InStep
             PROVE  /\ Within(wire'.server, Base')
                    /\ \A i \in 1 .. Len(reached') : reached'[i] = "input" => 2 * (i - 5) < asker.format
  BY <1>2 DEF Fed, Within
<1>3. /\ Within(wire.server, Base)
      /\ \A i \in 1 .. Len(reached) : reached[i] = "input" => 2 * (i - 5) < asker.format
  BY DEF Fed
<1>4. /\ Of(Message("response"), Kind \ Dropped) /\ Of(Message("version"), Kind \ Dropped)
      /\ Of(Message("select"), Kind \ Dropped)
  BY Messages DEF Kind, Short, Dropped
<1>5. ASSUME reached' = reached, Within(wire'.server, Base)
      PROVE  /\ Within(wire'.server, Base')
             /\ \A i \in 1 .. Len(reached') : reached'[i] = "input" => 2 * (i - 5) < asker.format
  <2>1. Base' = Base
    BY <1>5 DEF Base
  <2> QED
    BY <1>3, <1>5, <2>1
<1>6. asker.format \in Nat
  <2>1. asker.format \in {0} \cup Spans
    BY TypeParts DEF Askers
  <2> QED
    BY <2>1, Formats
<1>7. CASE Lookup \/ Attach \/ TicketFails \/ BrowserGone \/ ServerGone \/ ServerCloses \/ BrowserCloses
           \/ UNCHANGED vars
  <2>1. UNCHANGED <<wire, reached>>
    BY <1>7
    DEF Lookup, Refuse, Attach, TicketFails, BrowserGone, ServerGone, ServerCloses, BrowserCloses, vars
  <2> QED
    BY <1>3, <1>5, <2>1
<1>8. CASE ServerOpens
  <2>1. wire'.server = wire.server /\ UNCHANGED reached
    BY <1>8, StreamTypes DEF ServerOpens, Wires
  <2> QED
    BY <1>3, <1>5, <2>1
<1>9. CASE ServerMessage
  <2>1. wire'.server \in {wire.server, wire.server \o Message("response")}
    BY <1>9, ServerMessageSends
  <2>2. Within(wire.server \o Message("response"), Base)
    BY <1>3, <1>4, StreamTypes, Bases, Made, Harmless
  <2>3. UNCHANGED reached
    BY <1>9 DEF ServerMessage
  <2> QED
    BY <1>3, <1>5, <2>1, <2>2, <2>3
<1>10. CASE BrowserMessage
  <2>1. PICK n \in 1 .. Len(wire.proxyFromBrowser) : BrowserHeard(n)
    BY <1>10, BrowserMessageEffect
  <2> DEFINE raw == SubSeq(wire.proxyFromBrowser, 1, n)
             c   == buf.spectate \o raw
             fed(m) == IF pws = "open" THEN wire.server \o m ELSE wire.server
  <2>2. reached' = reached
    BY <2>1 DEF BrowserHeard
  <2>3. ASSUME NEW m \in Streams, wire'.server = fed(m), Of(m, Kind \ Dropped)
        PROVE  Within(wire'.server, Base)
    <3>1. Within(wire.server \o m, Base)
      BY <1>3, <2>3, StreamTypes, Bases, Harmless
    <3> QED
      BY <1>3, <2>3, <3>1
  <2>4. \/ wire'.server \in {wire.server, fed(Message("version")), fed(Message("select"))}
        \/ /\ phase = "TRANSPARENT"
           /\ \E relayed, kept \in Streams : Split(c, relayed, kept) /\ wire'.server = fed(relayed)
    BY <2>1 DEF BrowserHeard
  <2>5. CASE wire'.server \in {wire.server, fed(Message("version")), fed(Message("select"))}
    <3> HIDE DEF fed
    <3>1. Within(wire'.server, Base)
      BY <1>3, <1>4, <2>3, <2>5, Made
    <3> QED
      BY <1>5, <2>2, <3>1
  <2>6. ASSUME NEW relayed \in Streams, NEW kept \in Streams, Split(c, relayed, kept),
               wire'.server = fed(relayed), phase = "TRANSPARENT"
        PROVE  Within(wire'.server, Base)
    <3>1. CASE pws # "open"
      BY <1>3, <2>6, <3>1
    <3>2. CASE pws = "open"
      <4>1. Asking
        <5>1. Stage
          BY <3>2 DEF InTurn
        <5>2. wire.proxyFromBrowser # <<>>
          <6>1. Len(wire.proxyFromBrowser) # 0
            BY StreamTypes, LenProperties DEF Streams
          <6> QED
            BY <6>1
        <5> QED
          BY <2>6, <5>1, <5>2 DEF Stage, Greeting, Replying, Offering, Selecting, Challenging, Deciding, Relaying
      <4>2. /\ raw \in Streams /\ Len(raw) >= 1 /\ Len(raw) \in Nat
            /\ \A K : Of(wire.proxyFromBrowser, K) => Of(raw, K)
        BY StreamTypes, Raw, HeardSome, LenProperties DEF Streams
      <4> HIDE DEF raw
      <4>3. CASE Unasked
        <5>1. Base = 0 - 1 /\ wire.server = <<>>
          BY <4>3 DEF Unasked, Base
        <5>2. wire'.server = relayed
          BY <2>6, <3>2, <5>1, ConcatEmptySeq DEF Streams
        <5>3. ASSUME NEW i \in 1 .. Len(relayed), relayed[i][1] \in Dropped
              PROVE  0 - 1 + i <= asker.format
          <6>1. i <= asker.format + 1
            BY <2>6, <5>3 DEF Split
          <6>2. Len(relayed) \in Nat
            BY LenProperties DEF Streams
          <6> QED
            BY <1>6, <6>1, <6>2
        <5> QED
          BY <5>1, <5>2, <5>3 DEF Within
      <4>4. CASE Of(buf.spectate, Known) /\ Of(wire.proxyFromBrowser, Known)
        <5>1. Of(c, Known) /\ c \in Streams /\ Len(c) = Len(buf.spectate) + Len(raw)
          BY <4>2, <4>4, StreamTypes, Joined
        <5>2. Len(buf.spectate) \in Nat
          BY StreamTypes, LenProperties DEF Streams
        <5> HIDE DEF c
        <5>3. c[1][1] # "init"
          <6>1. 1 \in 1 .. Len(c)
            BY <4>2, <5>1, <5>2
          <6> QED
            BY <5>1, <6>1 DEF Of, Known, Dropped
        <5>4. Of(relayed, Kind \ Dropped)
          <6>1. ASSUME NEW i \in 1 .. Len(relayed) PROVE relayed[i][1] \in Kind \ Dropped
            <7>1. relayed[i][1] \notin Dropped
              BY <2>6, <5>3 DEF Split
            <7> QED
              BY <7>1, PieceKind
          <6> QED
            BY <6>1 DEF Of
        <5> QED
          BY <2>3, <2>6, <5>4
      <4> QED
        BY <4>1, <4>3, <4>4 DEF Asking
    <3> QED
      BY <3>1, <3>2
  <2> HIDE DEF c, fed
  <2> QED
    BY <1>5, <2>2, <2>4, <2>5, <2>6
<1>11. CASE ServerReads
  <2> DEFINE m == wire.server[1][1]
             n == Len(Message(m))
  <2>1. /\ pws = "open" /\ wire.server # <<>> /\ m \in Kind
        /\ wire'.server = SubSeq(wire.server, n + 1, Len(wire.server))
        /\ reached' = Append(reached, m)
    BY <1>11, ServerReadsEffect
  <2>2. /\ n \in Nat
        /\ m \in Short => n = 1
        /\ m \notin Short => n = 2
    BY <2>1, Messages
  <2>3. StrictOrder /\ StrictOrder'
    BY <1>11, ServerReadsInTurn DEF InTurn
  <2>4. 1 \in 1 .. Len(wire.server)
    BY <2>1, StreamTypes, EmptySeq DEF Streams
  <2> HIDE DEF m, n
  <2>5. /\ Len(reached') = Len(reached) + 1 /\ Len(reached) \in Nat
        /\ reached'[Len(reached) + 1] = m
        /\ \A i \in 1 .. Len(reached) : reached'[i] = reached[i]
    BY <2>1, StreamTypes, AppendProperties, LenProperties
  <2>6. Stage
    BY <2>1 DEF InTurn
  <2>7. CASE Len(reached) < 3
    <3>1. wire'.server = <<>> /\ m # "input"
      BY <2>1, <2>6, <2>7, ReadsAlone DEF m, n
    <3>2. Within(wire'.server, Base')
      BY <3>1, Nothing DEF Within
    <3> QED
      BY <1>3, <2>5, <3>1, <3>2
  <2>8. CASE Len(reached) >= 3
    <3>a. Len(reached) = 3 \/ Len(reached) >= 4
      <4> DEFINE l == Len(reached)
      <4>1. l \in Nat /\ l >= 3
        BY <2>8, Bases
      <4> HIDE DEF l
      <4>2. l = 3 \/ l >= 4
        BY <4>1
      <4> QED
        BY <4>2 DEF l
    <3>1. Len(reached) = 3 => m = "init"
      BY <2>3, <2>5, <2>8 DEF StrictOrder
    <3>2. Len(reached) >= 4 => m \in Known
      BY <2>3, <2>5, <2>8 DEF StrictOrder
    <3>3. Base' = Base + n
      <4>1. CASE Len(reached) = 3
        <5>1. n = 1
          BY <2>2, <3>1, <4>1 DEF Short
        <5> QED
          BY <2>5, <4>1, <5>1 DEF Base
      <4>2. CASE Len(reached) >= 4
        <5>1. n = 2
          BY <2>2, <3>2, <4>2 DEF Short, Known, Dropped
        <5> QED
          BY <2>5, <4>2, <5>1 DEF Base
      <4> QED
        BY <3>a, <4>1, <4>2
    <3>4. Within(wire'.server, Base')
      <4>1. Base \in Int /\ Base + n \in Int
        BY <2>2, Bases
      <4>2. Within(SubSeq(wire.server, n + 1, Len(wire.server)), Base + n)
        BY <1>3, <2>2, <4>1, StreamTypes, ReadOn
      <4> QED
        BY <2>1, <3>3, <4>2
    <3>5. m = "input" => 2 * ((Len(reached) + 1) - 5) < asker.format
      <4> SUFFICES ASSUME m = "input" PROVE 2 * ((Len(reached) + 1) - 5) < asker.format
        OBVIOUS
      <4>1. Len(reached) >= 4
        BY <3>a, <3>1
      <4>2. Base + 1 <= asker.format
        BY <1>3, <2>4 DEF Within, Dropped, m
      <4>3. Base = 2 * (Len(reached) - 4)
        BY <4>1 DEF Base
      <4> QED
        BY <1>6, <2>5, <4>2, <4>3
    <3>6. ASSUME NEW i \in 1 .. Len(reached'), reached'[i] = "input"
          PROVE  2 * (i - 5) < asker.format
      <4>1. CASE i \in 1 .. Len(reached)
        BY <1>3, <2>5, <3>6, <4>1
      <4>2. CASE i = Len(reached) + 1
        BY <2>5, <3>5, <3>6, <4>2
      <4> QED
        BY <2>5, <3>6, <4>1, <4>2
    <3> QED
      BY <3>4, <3>6
  <2> QED
    BY <2>5, <2>7, <2>8
<1>12. CASE BrowserReads \/ BrowserInput
  <2>1. wire'.server = wire.server /\ UNCHANGED reached
    BY <1>12, BrowserReadsEffect, BrowserInputEffect
  <2> QED
    BY <1>3, <1>5, <2>1
<1> QED
  BY <1>7, <1>8, <1>9, <1>10, <1>11, <1>12 DEF Next, Handler

\* Whatever a spectator sends, in pieces of any size, before, in and after the
\* handshake: of its input none reaches the machine but what lies within the 20
\* bytes that a ClientInit without the shared flag makes the filter relay unread,
\* provided that they end where a message ends.
THEOREM NoInputReaches == Spec => []NoForeignInput
<1>1. Init => Fed
  <2> SUFFICES ASSUME Init PROVE Fed
    OBVIOUS
  <2>1. wire.server = <<>> /\ reached = <<>>
    BY DEF Init
  <2> QED
    BY <2>1, Nothing DEF Fed, Within
<1>2. TypeOK /\ InTurn /\ Fed /\ [Next]_vars => Fed'
  BY StaysFed
<1>3. TypeOK /\ InTurn /\ Fed => NoForeignInput
  <2> SUFFICES ASSUME TypeOK, InTurn, Fed, Spectator, NEW i \in 1 .. Len(reached), reached[i] = "input"
               PROVE  asker.format # 0 /\ (InStep => 2 * (i - 5) < asker.format)
    BY DEF NoForeignInput
  <2>1. InStep => 2 * (i - 5) < asker.format
    BY DEF Fed
  <2>2. i >= 5
    <3>1. IF i <= 4 THEN reached[i] = <<"version", "select", "response", "init">>[i] ELSE TRUE
      BY DEF InTurn, StrictOrder
    <3>2. Len(reached) \in Nat /\ i \in Nat /\ i >= 1
      BY Bases
    <3> QED
      BY <3>1, <3>2
  <2>3. asker.format = 0 => InStep
    BY DEF InStep
  <2> QED
    BY <2>1, <2>2, <2>3
<1> QED
  BY <1>1, <1>2, <1>3, InTurnAlways, PTL DEF Spec

=============================================================================
