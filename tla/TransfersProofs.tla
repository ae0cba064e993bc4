--------------------------- MODULE TransfersProofs ---------------------------
(***************************************************************************)
(* Theorems about Transfers: the types and buffer bounds of the handlers,  *)
(* and that the application gets a file or a page in order, in full, and   *)
(* by the control that asked for it, for every size, capacity and start.   *)
(***************************************************************************)
EXTENDS Transfers, SequenceTheorems, WellFoundedInduction, TLAPS

-----------------------------------------------------------------------------
(* The response, position by position. *)
Words   == {"CONNECT", "cr", "lf", "eol", "OK", "+QHTTPREAD"}
Symbols == {Symbol(k) : k \in Words} \cup {<<"content", i>> : i \in Nat} \cup {<<"err", e>> : e \in Nat}
Resp    == Response(handler, size, err)

LEMMA SymbolFacts ==
    /\ \A k \in Words : Symbol(k) \in Symbols /\ Symbol(k)[1] = k /\ \A l \in Words : k # l => Symbol(k) # Symbol(l)
    /\ \A i \in Nat : /\ <<"content", i>> \in Symbols /\ <<"content", i>>[1] = "content"
                      /\ \A k \in Words : Symbol(k) # <<"content", i>>
    /\ \A e \in Nat : /\ <<"err", e>> \in Symbols /\ <<"err", e>>[1] = "err" /\ <<"err", e>>[2] = e
                      /\ \A k \in Words : Symbol(k) # <<"err", e>>
<1>1. \A k \in Words : /\ Symbol(k) \in Symbols /\ Symbol(k)[1] = k
  BY DEF Symbol, Symbols
<1>2. /\ \A i \in Nat : <<"content", i>> \in Symbols /\ <<"content", i>>[1] = "content"
      /\ \A e \in Nat : <<"err", e>> \in Symbols /\ <<"err", e>>[1] = "err" /\ <<"err", e>>[2] = e
  BY DEF Symbols
<1>3. "content" \notin Words /\ "err" \notin Words
  BY DEF Words
<1> QED BY <1>1, <1>2, <1>3

LEMMA PartFacts ==
    /\ Connect \in Seq(Symbols) /\ Len(Connect) = 3
    /\ Connect[1] = Symbol("CONNECT") /\ Connect[2] = Symbol("cr") /\ Connect[3] = Symbol("lf")
    /\ FileTrailer \in Seq(Symbols) /\ Len(FileTrailer) = 3
    /\ FileTrailer[1] = Symbol("eol") /\ FileTrailer[2] = Symbol("OK") /\ FileTrailer[3] = Symbol("eol")
    /\ PageTrailer \in Seq(Symbols) /\ Len(PageTrailer) = 4
    /\ PageTrailer[1] = Symbol("eol") /\ PageTrailer[2] = Symbol("OK") /\ PageTrailer[3] = Symbol("eol")
    /\ PageTrailer[4] = Symbol("eol")
<1>1. /\ Symbol("CONNECT") \in Symbols /\ Symbol("cr") \in Symbols /\ Symbol("lf") \in Symbols
      /\ Symbol("eol") \in Symbols /\ Symbol("OK") \in Symbols
  BY SymbolFacts DEF Words
<1>2. /\ Connect \in Seq(Symbols) /\ Len(Connect) = 3
      /\ Connect[1] = Symbol("CONNECT") /\ Connect[2] = Symbol("cr") /\ Connect[3] = Symbol("lf")
  BY <1>1 DEF Connect
<1>3. /\ FileTrailer = <<Symbol("eol"), Symbol("OK"), Symbol("eol")>>
      /\ PageTrailer = <<Symbol("eol"), Symbol("OK"), Symbol("eol"), Symbol("eol")>>
  BY DEF FileTrailer, PageTrailer
<1> QED BY <1>1, <1>2, <1>3

LEMMA ContentFacts ==
    ASSUME NEW n \in Nat
    PROVE  /\ Content(n) \in Seq(Symbols) /\ Len(Content(n)) = n
           /\ \A i \in 1..n : Content(n)[i] = <<"content", i>>
<1>1. ASSUME NEW i \in 1..n PROVE <<"content", i>> \in Symbols
  <2>1. i \in Nat
    OBVIOUS
  <2> QED BY <2>1, SymbolFacts
<1> QED BY <1>1 DEF Content

LEMMA ResponseFacts ==
    ASSUME NEW h \in {"file", "page"}, NEW n \in Nat, NEW e \in Nat
    PROVE  LET R == Response(h, n, e) IN
           /\ R \in Seq(Symbols) /\ Len(R) = n + (IF h = "file" THEN 6 ELSE 10)
           /\ R[1] = Symbol("CONNECT") /\ R[2] = Symbol("cr") /\ R[3] = Symbol("lf")
           /\ \A i \in 1..n : R[i + 3] = <<"content", i>>
           /\ R[n + 4] = Symbol("eol") /\ R[n + 5] = Symbol("OK") /\ R[n + 6] = Symbol("eol")
           /\ h = "page" => /\ R[n + 7] = Symbol("eol") /\ R[n + 8] = Symbol("+QHTTPREAD")
                            /\ R[n + 9] = <<"err", e>> /\ R[n + 10] = Symbol("eol")
<1> DEFINE R == Response(h, n, e)
           T == IF h = "file" THEN FileTrailer ELSE PageTrailer \o PageResult(e)
<1>1. /\ PageResult(e) \in Seq(Symbols) /\ Len(PageResult(e)) = 3
      /\ PageResult(e)[1] = Symbol("+QHTTPREAD") /\ PageResult(e)[2] = <<"err", e>>
      /\ PageResult(e)[3] = Symbol("eol")
  <2>1. Symbol("+QHTTPREAD") \in Symbols /\ <<"err", e>> \in Symbols /\ Symbol("eol") \in Symbols
    BY SymbolFacts DEF Words
  <2> QED BY <2>1 DEF PageResult
<1>2. /\ T \in Seq(Symbols) /\ Len(T) = IF h = "file" THEN 3 ELSE 7
      /\ T[1] = Symbol("eol") /\ T[2] = Symbol("OK") /\ T[3] = Symbol("eol")
      /\ h = "page" => /\ T[4] = Symbol("eol") /\ T[5] = Symbol("+QHTTPREAD")
                       /\ T[6] = <<"err", e>> /\ T[7] = Symbol("eol")
  <2>1. CASE h = "file"
    BY <2>1, PartFacts
  <2>2. CASE h = "page"
    <3>1. T = PageTrailer \o PageResult(e)
      BY <2>2
    <3>2. /\ T \in Seq(Symbols) /\ Len(T) = Len(PageTrailer) + Len(PageResult(e))
          /\ \A i \in 1..(Len(PageTrailer) + Len(PageResult(e))) :
                T[i] = IF i <= Len(PageTrailer) THEN PageTrailer[i] ELSE PageResult(e)[i - Len(PageTrailer)]
      <4> HIDE DEF T
      <4>1. PageTrailer \in Seq(Symbols) /\ PageResult(e) \in Seq(Symbols)
        BY <1>1, PartFacts
      <4> QED BY <3>1, <4>1, ConcatProperties
    <3> HIDE DEF T
    <3>3. /\ Len(T) = 7 /\ T[1] = PageTrailer[1] /\ T[2] = PageTrailer[2] /\ T[3] = PageTrailer[3]
          /\ T[4] = PageTrailer[4] /\ T[5] = PageResult(e)[1] /\ T[6] = PageResult(e)[2]
          /\ T[7] = PageResult(e)[3]
      BY <1>1, <3>2, PartFacts
    <3> QED BY <1>1, <2>2, <3>2, <3>3, PartFacts
  <2> QED BY <2>1, <2>2
<1> HIDE DEF T
<1>3. /\ Connect \o Content(n) \in Seq(Symbols) /\ Len(Connect \o Content(n)) = n + 3
      /\ \A i \in 1..(n + 3) : (Connect \o Content(n))[i] = IF i <= 3 THEN Connect[i] ELSE Content(n)[i - 3]
  <2> DEFINE a == Connect
             b == Content(n)
  <2>1. a \in Seq(Symbols) /\ Len(a) = 3 /\ b \in Seq(Symbols) /\ Len(b) = n
    BY PartFacts, ContentFacts
  <2> HIDE DEF a, b
  <2>2. /\ a \o b \in Seq(Symbols) /\ Len(a \o b) = n + 3
        /\ \A i \in 1..(n + 3) : (a \o b)[i] = IF i <= 3 THEN a[i] ELSE b[i - 3]
    <3>1. /\ a \o b \in Seq(Symbols) /\ Len(a \o b) = Len(a) + Len(b)
          /\ \A i \in 1..(Len(a) + Len(b)) : (a \o b)[i] = IF i <= Len(a) THEN a[i] ELSE b[i - Len(a)]
      BY <2>1, ConcatProperties
    <3>2. Len(a) + Len(b) = n + 3
      BY <2>1
    <3> QED BY <2>1, <3>1, <3>2
  <2> QED BY <2>2 DEF a, b
<1>4. R = (Connect \o Content(n)) \o T
  BY DEF Response, R, T
<1>5. /\ R \in Seq(Symbols) /\ Len(R) = n + 3 + Len(T)
      /\ \A i \in 1..(n + 3 + Len(T)) : R[i] = IF i <= n + 3 THEN (Connect \o Content(n))[i] ELSE T[i - (n + 3)]
  <2> DEFINE C == Connect \o Content(n)
  <2>1. C \in Seq(Symbols) /\ T \in Seq(Symbols) /\ R = C \o T /\ Len(C) = n + 3
    BY <1>2, <1>3, <1>4
  <2> HIDE DEF R, C
  <2>2. /\ R \in Seq(Symbols) /\ Len(R) = Len(C) + Len(T)
        /\ \A i \in 1..(Len(C) + Len(T)) : R[i] = IF i <= Len(C) THEN C[i] ELSE T[i - Len(C)]
    BY <2>1, ConcatProperties
  <2> QED BY <2>1, <2>2 DEF C
<1> HIDE DEF R
<1>6. ASSUME NEW i \in 1..(n + 3) PROVE R[i] = IF i <= 3 THEN Connect[i] ELSE Content(n)[i - 3]
  <2>1. Len(T) \in Nat /\ i \in 1..(n + 3 + Len(T)) /\ i <= n + 3
    BY <1>2
  <2>2. R[i] = (Connect \o Content(n))[i]
    BY <1>5, <2>1
  <2> QED BY <1>3, <2>2
<1>7. ASSUME NEW i \in 1..Len(T) PROVE R[i + n + 3] = T[i]
  <2>1. /\ Len(T) \in Nat /\ i + n + 3 \in 1..(n + 3 + Len(T)) /\ ~(i + n + 3 <= n + 3)
        /\ (i + n + 3) - (n + 3) = i
    BY <1>2
  <2> QED BY <1>5, <2>1
<1>8. R[1] = Symbol("CONNECT") /\ R[2] = Symbol("cr") /\ R[3] = Symbol("lf")
  BY <1>6, PartFacts
<1>9. \A i \in 1..n : R[i + 3] = <<"content", i>>
  BY <1>6, ContentFacts
<1>10. /\ R[n + 4] = Symbol("eol") /\ R[n + 5] = Symbol("OK") /\ R[n + 6] = Symbol("eol")
       /\ h = "page" => /\ R[n + 7] = Symbol("eol") /\ R[n + 8] = Symbol("+QHTTPREAD")
                        /\ R[n + 9] = <<"err", e>> /\ R[n + 10] = Symbol("eol")
  <2>1. R[n + 4] = T[1] /\ R[n + 5] = T[2] /\ R[n + 6] = T[3]
    <3>1. 1 \in 1..Len(T) /\ 2 \in 1..Len(T) /\ 3 \in 1..Len(T)
      BY <1>2
    <3>2. R[1 + n + 3] = T[1] /\ R[2 + n + 3] = T[2] /\ R[3 + n + 3] = T[3]
      BY <1>7, <3>1
    <3> QED BY <3>2
  <2>2. h = "page" => R[n + 7] = T[4] /\ R[n + 8] = T[5] /\ R[n + 9] = T[6] /\ R[n + 10] = T[7]
    <3> SUFFICES ASSUME h = "page" PROVE R[n + 7] = T[4] /\ R[n + 8] = T[5] /\ R[n + 9] = T[6] /\ R[n + 10] = T[7]
      OBVIOUS
    <3>1. 4 \in 1..Len(T) /\ 5 \in 1..Len(T) /\ 6 \in 1..Len(T) /\ 7 \in 1..Len(T)
      BY <1>2
    <3>2. R[4 + n + 3] = T[4] /\ R[5 + n + 3] = T[5] /\ R[6 + n + 3] = T[6] /\ R[7 + n + 3] = T[7]
      BY <1>7, <3>1
    <3> QED BY <3>2
  <2> QED BY <1>2, <2>1, <2>2
<1>11. R \in Seq(Symbols) /\ Len(R) = n + (IF h = "file" THEN 6 ELSE 10)
  BY <1>2, <1>5
<1> QED BY <1>8, <1>9, <1>10, <1>11 DEF R

-----------------------------------------------------------------------------
(* The ring: what the handlers find and take.  Gone is how much of the     *)
(* response has left the ring.                                             *)
Gone == Len(Resp) - Len(rx) - Len(wire)

RingInv ==
    /\ rx \in Seq(Symbols) /\ wire \in Seq(Symbols) /\ Len(rx) <= Capacity /\ at \in 0..(Capacity - 1)
    /\ handler \in {"file", "page"} /\ size \in Nat /\ err \in Errors
    /\ pc = "idle" => rx = <<>> /\ wire = <<>>
    /\ pc # "idle" => /\ Gone \in Nat
                      /\ \A i \in 1..Len(rx) : rx[i] = Resp[i + Gone]
                      /\ \A i \in 1..Len(wire) : wire[i] = Resp[i + Gone + Len(rx)]

LEMMA RespFacts ==
    ASSUME RingInv
    PROVE  /\ Resp \in Seq(Symbols) /\ size \in Nat /\ err \in Nat
           /\ Len(Resp) = size + (IF handler = "file" THEN 6 ELSE 10)
           /\ Resp[1] = Symbol("CONNECT") /\ Resp[2] = Symbol("cr") /\ Resp[3] = Symbol("lf")
           /\ \A i \in 1..size : Resp[i + 3] = <<"content", i>>
           /\ Resp[size + 4] = Symbol("eol") /\ Resp[size + 5] = Symbol("OK") /\ Resp[size + 6] = Symbol("eol")
           /\ handler = "page" => /\ Resp[size + 7] = Symbol("eol") /\ Resp[size + 8] = Symbol("+QHTTPREAD")
                                  /\ Resp[size + 9] = <<"err", err>> /\ Resp[size + 10] = Symbol("eol")
<1>1. handler \in {"file", "page"} /\ size \in Nat /\ err \in Nat
  BY TransfersAssumption DEF RingInv
<1> QED BY <1>1, ResponseFacts DEF Resp

LEMMA LeastFacts ==
    ASSUME NEW a \in Nat, NEW b \in Nat
    PROVE  /\ Least(a, b) \in Nat /\ Least(a, b) <= a /\ Least(a, b) <= b /\ Least(a, b) \in {a, b}
           /\ a <= b => Least(a, b) = a
           /\ b <= a => Least(a, b) = b
BY DEF Least

LEMMA LeastNatural ==
    ASSUME NEW S \in SUBSET Nat, S # {} PROVE \E x \in S : \A y \in S : x <= y
<1>1. PICK x \in S : \A y \in S : ~(<<y, x>> \in OpToRel(<, Nat))
  BY NatLessThanWellFounded, WFMin
<1>2. \A y \in S : ~(y < x)
  BY <1>1 DEF OpToRel
<1> QED BY <1>2

LEMMA MinFacts ==
    ASSUME NEW S \in SUBSET Nat, S # {}
    PROVE  Min(S) \in S /\ \A y \in S : Min(S) <= y
BY LeastNatural DEF Min

LEMMA FindFacts ==
    ASSUME RingInv, NEW part, NEW m \in Nat \ {0}, Len(part) = m
    PROVE  \/ /\ cbffr_find(part) = NotFound
              /\ \A i \in 1..(Len(rx) + 1 - m) : SubSeq(rx, i, i + m - 1) # part
           \/ /\ cbffr_find(part) \in Nat /\ cbffr_find(part) + m <= Len(rx)
              /\ SubSeq(rx, cbffr_find(part) + 1, cbffr_find(part) + m) = part
              /\ \A i \in 1..cbffr_find(part) : SubSeq(rx, i, i + m - 1) # part
<1> DEFINE F == {i \in 1..(Occupied + 1 - Len(part)) : SubSeq(rx, i, i + Len(part) - 1) = part}
<1>1. Occupied = Len(rx) /\ Len(rx) \in Nat
  BY DEF Occupied, RingInv
<1>2. F \in SUBSET Nat
  BY <1>1
<1>3. cbffr_find(part) = IF F = {} THEN NotFound ELSE Min(F) - 1
  BY DEF cbffr_find
<1>4. CASE F = {}
  BY <1>1, <1>3, <1>4
<1>5. CASE F # {}
  <2>1. Min(F) \in F /\ \A y \in F : Min(F) <= y
    BY <1>2, <1>5, MinFacts
  <2>2. PICK k \in F : k = Min(F)
    BY <2>1
  <2>3. cbffr_find(part) = k - 1 /\ k \in 1..(Len(rx) + 1 - m) /\ SubSeq(rx, k, k + m - 1) = part
    BY <1>1, <1>3, <1>5, <2>2
  <2>4. \A i \in 1..(k - 1) : SubSeq(rx, i, i + m - 1) # part
    <3> SUFFICES ASSUME NEW i \in 1..(k - 1), SubSeq(rx, i, i + m - 1) = part PROVE FALSE
      OBVIOUS
    <3>1. i \in F
      BY <1>1, <2>3
    <3> QED BY <2>1, <2>2, <2>3, <3>1
  <2>5. k - 1 \in Nat /\ (k - 1) + 1 = k /\ (k - 1) + m = k + m - 1 /\ (k - 1) + m <= Len(rx)
    BY <1>1, <2>3
  <2> QED BY <2>3, <2>4, <2>5
<1> QED BY <1>4, <1>5

LEMMA FindOne ==
    ASSUME RingInv, NEW x
    PROVE  LET p == cbffr_find(<<x>>) IN
           \/ p = NotFound /\ \A i \in 1..Len(rx) : rx[i] # x
           \/ p \in Nat /\ p + 1 <= Len(rx) /\ rx[p + 1] = x /\ \A i \in 1..p : rx[i] # x
<1> DEFINE p == cbffr_find(<<x>>)
<1>1. Len(<<x>>) = 1 /\ Len(rx) \in Nat
  BY DEF RingInv
<1>2. \A i \in 1..Len(rx) : SubSeq(rx, i, i + 1 - 1) = <<rx[i]>>
  <2> SUFFICES ASSUME NEW i \in 1..Len(rx) PROVE SubSeq(rx, i, i) = <<rx[i]>>
    OBVIOUS
  <2>1. rx \in Seq(Symbols) /\ i \in Nat /\ rx[i] \in Symbols
    BY DEF RingInv
  <2>2. \A j \in i..i : rx[j] \in Symbols
    BY <2>1
  <2>3. /\ SubSeq(rx, i, i) \in Seq(Symbols) /\ Len(SubSeq(rx, i, i)) = 1
        /\ SubSeq(rx, i, i)[1] = rx[i]
    BY <2>1, <2>2, SubSeqProperties
  <2>4. <<rx[i]>> \in Seq(Symbols) /\ Len(<<rx[i]>>) = 1 /\ <<rx[i]>>[1] = rx[i]
    BY <2>1
  <2>5. \A j \in 1..1 : SubSeq(rx, i, i)[j] = <<rx[i]>>[j]
    BY <2>3, <2>4
  <2> HIDE DEF p
  <2> QED BY <2>3, <2>4, <2>5, SeqEqual
<1>3. \A i \in 1..Len(rx) : SubSeq(rx, i, i + 1 - 1) = <<x>> <=> rx[i] = x
  BY <1>2
<1>4. \/ p = NotFound /\ \A i \in 1..(Len(rx) + 1 - 1) : SubSeq(rx, i, i + 1 - 1) # <<x>>
      \/ /\ p \in Nat /\ p + 1 <= Len(rx) /\ SubSeq(rx, p + 1, p + 1) = <<x>>
         /\ \A i \in 1..p : SubSeq(rx, i, i + 1 - 1) # <<x>>
  <2>1. 1 \in Nat \ {0}
    OBVIOUS
  <2> QED BY <1>1, <2>1, FindFacts
<1> HIDE DEF p
<1>5. Len(rx) + 1 - 1 = Len(rx) /\ (p \in Nat => p + 1 + 1 - 1 = p + 1)
  BY <1>1
<1>6. CASE p = NotFound /\ \A i \in 1..(Len(rx) + 1 - 1) : SubSeq(rx, i, i + 1 - 1) # <<x>>
  BY <1>3, <1>5, <1>6 DEF p
<1>7. CASE /\ p \in Nat /\ p + 1 <= Len(rx) /\ SubSeq(rx, p + 1, p + 1) = <<x>>
           /\ \A i \in 1..p : SubSeq(rx, i, i + 1 - 1) # <<x>>
  <2>1. p + 1 \in 1..Len(rx) /\ \A i \in 1..p : i \in 1..Len(rx)
    BY <1>1, <1>7
  <2>2. rx[p + 1] = x
    BY <1>3, <1>5, <1>7, <2>1
  <2>3. \A i \in 1..p : rx[i] # x
    BY <1>3, <1>7, <2>1
  <2> QED BY <1>7, <2>2, <2>3 DEF p
<1> QED BY <1>4, <1>6, <1>7

LEMMA TakeFacts ==
    ASSUME RingInv, NEW n \in Nat, NEW block, block = First(n), Take(block),
           pc # "idle", pc' # "idle", UNCHANGED callVars
    PROVE  /\ RingInv' /\ block \in Seq(Symbols) /\ Len(block) = Least(n, Len(rx))
           /\ \A i \in 1..Len(block) : block[i] = rx[i] /\ block[i] = Resp[i + Gone]
           /\ Gone' = Gone + Len(block) /\ Len(rx') = Len(rx) - Len(block) /\ wire' = wire /\ Resp' = Resp
           /\ \A i \in 1..Len(rx') : rx'[i] = rx[i + Len(block)]
           /\ at + Len(rx) <= Capacity => at' + Len(rx') <= Capacity
<1> DEFINE m == Least(n, Len(rx))
<1>1. Len(rx) \in Nat /\ m \in Nat /\ m <= Len(rx) /\ rx \in Seq(Symbols)
  BY DEF RingInv, Least
<1>2. First(n) = SubSeq(rx, 1, m)
  BY DEF First, Occupied
<1> HIDE DEF m
<1>3. /\ block \in Seq(Symbols) /\ Len(block) = m
      /\ \A i \in 1..m : block[i] = rx[i]
  <2>1. \A i \in 1..m : rx[i] \in Symbols
    BY <1>1
  <2>2. /\ SubSeq(rx, 1, m) \in Seq(Symbols) /\ Len(SubSeq(rx, 1, m)) = m
        /\ \A i \in 1..m : SubSeq(rx, 1, m)[i] = rx[i]
    BY <1>1, <2>1
  <2> QED BY <1>2, <2>2
<1>4. /\ rx' = SubSeq(rx, m + 1, Len(rx)) /\ at' = (at + m) % Capacity /\ wire' = wire
  BY <1>3 DEF Take, Occupied
<1>5. /\ rx' \in Seq(Symbols) /\ Len(rx') = Len(rx) - m
      /\ \A i \in 1..Len(rx') : rx'[i] = rx[i + m]
  <2>1. \A i \in (m + 1)..Len(rx) : rx[i] \in Symbols
    BY <1>1
  <2>2. /\ SubSeq(rx, m + 1, Len(rx)) \in Seq(Symbols)
        /\ Len(SubSeq(rx, m + 1, Len(rx))) = Len(rx) - m
        /\ \A i \in 1..(Len(rx) - m) : SubSeq(rx, m + 1, Len(rx))[i] = rx[i + m]
    BY <1>1, <2>1
  <2> QED BY <1>4, <2>2
<1>6. Resp' = Resp
  BY DEF callVars, Resp
<1>7. Gone \in Nat /\ Gone' = Gone + m
  <2>1. Len(wire) \in Nat /\ Gone \in Nat /\ Len(Resp) \in Int
    BY ResponseFacts, TransfersAssumption DEF RingInv, Resp
  <2>2. Gone = Len(Resp) - Len(rx) - Len(wire) /\ Gone' = Len(Resp) - Len(rx') - Len(wire)
    BY <1>4, <1>6 DEF Gone
  <2> QED BY <1>1, <1>5, <2>1, <2>2
<1>8. /\ \A i \in 1..Len(rx) : rx[i] = Resp[i + Gone]
      /\ \A i \in 1..Len(wire) : wire[i] = Resp[i + Gone + Len(rx)]
      /\ Len(wire) \in Nat /\ wire \in Seq(Symbols)
  BY DEF RingInv
<1>9. \A i \in 1..Len(rx') : rx'[i] = Resp'[i + Gone']
  <2> SUFFICES ASSUME NEW i \in 1..Len(rx') PROVE rx'[i] = Resp[i + (Gone + m)]
    BY <1>6, <1>7
  <2>1. i + m \in 1..Len(rx) /\ (i + m) + Gone = i + (Gone + m)
    BY <1>1, <1>5, <1>7
  <2> QED BY <1>5, <1>8, <2>1
<1>10. \A i \in 1..Len(wire') : wire'[i] = Resp'[i + Gone' + Len(rx')]
  <2> SUFFICES ASSUME NEW i \in 1..Len(wire) PROVE wire[i] = Resp[i + Gone' + Len(rx')]
    BY <1>4, <1>6
  <2>1. i + Gone' + Len(rx') = i + Gone + Len(rx)
    BY <1>1, <1>5, <1>7, <1>8
  <2> QED BY <1>8, <2>1
<1>11. /\ at' \in 0..(Capacity - 1)
       /\ at + Len(rx) <= Capacity => at' + Len(rx') <= Capacity
  <2>1. Capacity \in Nat \ {0} /\ at \in 0..(Capacity - 1)
    BY TransfersAssumption DEF RingInv
  <2>2. /\ (at + m) % Capacity \in 0..(Capacity - 1)
        /\ at + m < Capacity => (at + m) % Capacity = at + m
        /\ at + m = Capacity => (at + m) % Capacity = 0
    BY <1>1, <2>1
  <2> DEFINE q == (at + m) % Capacity
  <2>3. at' = q /\ q \in 0..(Capacity - 1) /\ (at + m < Capacity => q = at + m) /\ (at + m = Capacity => q = 0)
    BY <1>4, <2>2
  <2> HIDE DEF q
  <2> QED BY <1>1, <1>5, <2>1, <2>3
<1>12. RingInv'
  <2>1. Len(rx) <= Capacity /\ Capacity \in Nat /\ handler \in {"file", "page"} /\ size \in Nat /\ err \in Errors
    BY TransfersAssumption DEF RingInv
  <2>2. Len(rx') <= Capacity
    BY <1>1, <1>5, <2>1
  <2>3. handler' \in {"file", "page"} /\ size' \in Nat /\ err' \in Errors
    BY <2>1 DEF callVars
  <2>4. Gone' \in Nat /\ wire' \in Seq(Symbols)
    BY <1>1, <1>4, <1>7, <1>8
  <2> QED BY <1>5, <1>9, <1>10, <1>11, <2>2, <2>3, <2>4 DEF RingInv
<1>13. \A i \in 1..m : block[i] = Resp[i + Gone]
  BY <1>1, <1>3, <1>8
<1> QED BY <1>3, <1>4, <1>5, <1>6, <1>7, <1>11, <1>12, <1>13 DEF m

-----------------------------------------------------------------------------
(* The inductive invariant.  The types, with what each phase of a handler  *)
(* finds in the ring and in its locals.                                    *)
PCs     == {"idle", "connect", "line", "wait", "trailer", "find", "block", "result", "done"}
Asked   == {"idle", "connect"}
Untaken == {"idle", "connect", "line"}
Causes  == {"skipped", "cut", "swallowed", "early"}
Outcomes == {"none", "success", "error", "timeout", "assert", "overrun"}

TypeInv ==
    /\ streams \in [0..(streamCnt - 1) -> Controls \cup {NoStream}]
    /\ context \in [Controls -> -1..(streamCnt - 1)]
    /\ pc \in PCs
    /\ pc \in {"wait", "trailer"} => handler = "file"
    /\ pc \in {"find", "block", "result"} => handler = "page"
    /\ popCnt \in 0..ByteMax /\ taken \in 0..(ByteMax + 2) /\ readSz \in 0..(Word - 1)
    /\ result \in Outcomes
    /\ handler = "page" => asker \in Pages
    /\ cause \subseteq Causes /\ whole \in BOOLEAN
    /\ pc \in Untaken => delivered = <<>> /\ cause = {} /\ taken = 0
    /\ pc \in Asked => ~whole
    /\ pc \in {"connect", "line"} => Gone = 0

(* A trailer that was found is still there when its result is read: the    *)
(* work buffer is filled once.                                             *)
WorkInv ==
    /\ trailerIndx \in Nat /\ (trailerIndx <= Capacity \/ trailerIndx = NotFound)
    /\ work \in Seq(Symbols) /\ Len(work) <= WorkSz
    /\ pc # "done" => work = <<>>
    /\ pc = "block" /\ trailerIndx # NotFound => trailerIndx + 1 <= Len(rx) /\ rx[trailerIndx + 1] = Symbol("eol")
    /\ pc = "result" => \E i \in 1..Len(rx) : rx[i] = Symbol("eol")

(* What the application has got goes on where the line of CONNECT was      *)
(* taken off, and the ring goes on where that ends, or is at its end.      *)
Follows == \A i \in 1..Len(delivered) : delivered[i] = Resp[taken + i]
OrderInv ==
    /\ delivered \in Seq(Symbols)
    /\ "skipped" \notin cause =>
         /\ taken + Len(delivered) <= Len(Resp) /\ Follows
         /\ pc \in {"wait", "trailer"} => Gone = taken + Len(delivered) \/ Gone = Len(Resp)
         /\ pc \in {"find", "block", "result"} => Gone = taken + Len(delivered)
         /\ handler = "page" /\ taken = 3 /\ "cut" \notin cause => Len(delivered) <= size
    /\ handler = "file" /\ taken = 3 =>
         /\ Len(delivered) <= size
         /\ pc \in {"wait", "trailer"} => Len(delivered) + readSz <= size

(* A transfer that lies in the ring in one piece takes one block. *)
Got(n) == Len(delivered) = n /\ \A i \in 1..n : delivered[i] = <<"content", i>>
Whole == whole /\ Fits
FullInv ==
    Whole =>
        /\ wire = <<>> /\ at + Len(rx) <= Capacity
        /\ pc = "line" => popCnt = 1
        /\ handler = "file" =>
             /\ pc = "wait" => \/ Gone = 3 /\ Got(0) /\ readSz = size
                               \/ Len(rx) = 0 /\ Got(size) /\ readSz = 0
             /\ pc = "trailer" => Gone = size + 3 /\ Got(size) /\ readSz = 0
             /\ pc = "done" => Got(size)
        /\ handler = "page" =>
             /\ pc \in {"find", "block"} => Gone = 3 /\ Got(0)
             /\ pc = "block" => trailerIndx = size
             /\ pc = "result" => Gone = size + 3 /\ Got(size)
             /\ pc = "done" => Got(size) /\ result = IF err = 0 THEN "success" ELSE "error"

Base == RingInv /\ TypeInv /\ WorkInv /\ OrderInv

LEMMA BaseInit == Init => Base
<1> SUFFICES ASSUME Init PROVE Base
  OBVIOUS
<1>1. Capacity \in Nat \ {0} /\ WorkSz \in Nat \ {0} /\ 0 \in Errors
  BY TransfersAssumption
<1>2. RingInv
  BY <1>1 DEF Init, RingInv
<1>3. TypeInv
  <2>1. streams \in [0..(streamCnt - 1) -> Controls \cup {NoStream}]
    BY DEF Init
  <2>2. context \in [Controls -> -1..(streamCnt - 1)]
    BY DEF Init, streamCnt
  <2>3. popCnt \in 0..ByteMax /\ taken \in 0..(ByteMax + 2) /\ readSz \in 0..(Word - 1)
    BY TransfersAssumption DEF Init
  <2>4. pc = "idle" /\ handler = "file" /\ result = "none" /\ cause = {} /\ whole = FALSE /\ delivered = <<>> /\ taken = 0
    BY DEF Init
  <2> QED BY <2>1, <2>2, <2>3, <2>4 DEF TypeInv, PCs, Asked, Untaken, Causes, Outcomes
<1>4. WorkInv
  <2>1. trailerIndx = Capacity + 1 /\ work = <<>> /\ pc = "idle"
    BY DEF Init, NotFound
  <2>2. work \in Seq(Symbols) /\ Len(work) = 0
    BY <2>1
  <2> QED BY <1>1, <2>1, <2>2 DEF WorkInv, NotFound
<1>5. OrderInv
  <2>1. handler = "file" /\ size = 0 /\ delivered = <<>> /\ taken = 0 /\ cause = {} /\ pc = "idle"
    BY DEF Init
  <2>2. Len(Resp) \in Nat
    BY <1>2, RespFacts, LenProperties
  <2> QED BY <2>1, <2>2 DEF OrderInv, Follows
<1> QED BY <1>2, <1>3, <1>4, <1>5 DEF Base

-----------------------------------------------------------------------------
(* The steps outside the handlers. *)
LEMMA InitControlKeeps ==
    ASSUME Base, NEW c \in Controls, NEW x \in Contexts, InitControl(c, x)
    PROVE  Base'
<1>1. /\ UNCHANGED <<wire, rx, at, pc, handler, size, err, asker, popCnt, taken, readSz, trailerIndx, work, delivered,
                     result, whole, cause>>
      /\ streams' = [streams EXCEPT ![x] = c]
      /\ context' = [context EXCEPT ![c] = IF c \in Pages THEN 0 ELSE x]
  BY DEF InitControl, ringVars, callVars, lineVars
<1>2. RingInv' /\ WorkInv' /\ OrderInv'
  BY <1>1 DEF Base, RingInv, WorkInv, OrderInv, Follows, Gone, Resp
<1>3. x \in 0..(streamCnt - 1) /\ 0 \in 0..(streamCnt - 1) /\ (IF c \in Pages THEN 0 ELSE x) \in -1..(streamCnt - 1)
  BY TransfersAssumption DEF streamCnt
<1>4. /\ streams' \in [0..(streamCnt - 1) -> Controls \cup {NoStream}]
      /\ context' \in [Controls -> -1..(streamCnt - 1)]
  BY <1>1, <1>3 DEF Base, TypeInv
<1>5. TypeInv'
  BY <1>1, <1>4 DEF Base, TypeInv, Gone, Resp
<1> QED BY <1>2, <1>5 DEF Base

LEMMA AskKeeps ==
    ASSUME Base, NEW h \in {"file", "page"}, NEW c, NEW n \in Nat, NEW e \in Errors, Ask(h, c, n, e),
           h = "page" => c \in Pages
    PROVE  Base'
<1>1. /\ pc = "idle" /\ pc' = "connect" /\ handler' = h /\ size' = n /\ err' = e /\ asker' = c
      /\ wire' = Response(h, n, e) /\ rx' = <<>> /\ at' \in Starts
      /\ UNCHANGED <<streams, context, popCnt, taken, readSz, trailerIndx, work, delivered, result, whole, cause>>
  BY DEF Ask, tableVars, lineVars
<1>2. Capacity \in Nat \ {0} /\ Starts \subseteq 0..(Capacity - 1) /\ Errors \subseteq Nat
  BY TransfersAssumption
<1>3. Resp' = wire' /\ wire' \in Seq(Symbols) /\ Len(wire') \in Nat
  <2>1. e \in Nat
    BY <1>2
  <2>2. Response(h, n, e) \in Seq(Symbols)
    BY <2>1, ResponseFacts
  <2>3. Resp' = Response(h, n, e)
    BY <1>1 DEF Resp
  <2> QED BY <1>1, <2>2, <2>3
<1>4. rx' \in Seq(Symbols) /\ Len(rx') = 0
  BY <1>1
<1>5. Gone' = 0
  BY <1>3, <1>4 DEF Gone
<1>6. RingInv'
  <2>1. \A i \in 1..Len(wire') : wire'[i] = Resp'[i + Gone' + Len(rx')]
    BY <1>3, <1>4, <1>5
  <2>2. \A i \in 1..Len(rx') : rx'[i] = Resp'[i + Gone']
    BY <1>4
  <2>3. Len(rx') <= Capacity /\ at' \in 0..(Capacity - 1) /\ Gone' \in Nat
    BY <1>1, <1>2, <1>4, <1>5
  <2>4. handler' \in {"file", "page"} /\ size' \in Nat /\ err' \in Errors /\ pc' # "idle"
    BY <1>1
  <2> QED BY <1>3, <1>4, <2>1, <2>2, <2>3, <2>4 DEF RingInv
<1>7. TypeInv'
  <2>1. /\ pc' = "connect" /\ (handler' = "page" => asker' \in Pages)
        /\ delivered' = <<>> /\ cause' = {} /\ ~whole' /\ taken' = 0
    BY <1>1 DEF Base, TypeInv, Asked, Untaken
  <2> QED BY <1>1, <1>5, <2>1 DEF Base, TypeInv, PCs, Asked, Untaken
<1>8. WorkInv'
  BY <1>1 DEF Base, WorkInv
<1>9. OrderInv'
  <2>1. delivered' = <<>> /\ taken' = 0 /\ Len(delivered') = 0
    BY <1>1 DEF Base, TypeInv, Untaken
  <2>2. Len(Resp') \in Nat /\ size' \in Nat
    BY <1>1, <1>3
  <2> QED BY <1>1, <2>1, <2>2 DEF OrderInv, Follows
<1> QED BY <1>6, <1>7, <1>8, <1>9 DEF Base

LEMMA ReceiveRing ==
    ASSUME Base, Receive
    PROVE  /\ RingInv' /\ Gone' = Gone /\ Resp' = Resp /\ Len(rx') = Len(rx) + 1 /\ pc # "idle"
           /\ \A i \in 1..Len(rx) : rx'[i] = rx[i]
<1>1. /\ wire # <<>> /\ Occupied < Capacity /\ wire' = Tail(wire) /\ rx' = Append(rx, Head(wire))
      /\ UNCHANGED <<at, pc, handler, size, err>>
  BY DEF Receive, callVars
<1>2. rx \in Seq(Symbols) /\ wire \in Seq(Symbols) /\ Len(rx) \in Nat /\ Len(wire) \in Nat /\ pc # "idle"
  BY <1>1 DEF Base, RingInv
<1>3. /\ wire' \in Seq(Symbols) /\ Len(wire') = Len(wire) - 1 /\ Len(wire') \in Nat
      /\ Head(wire) = wire[1] /\ Head(wire) \in Symbols
      /\ \A i \in 1..Len(wire') : wire'[i] = wire[i + 1]
  BY <1>1, <1>2
<1>4. /\ rx' \in Seq(Symbols) /\ Len(rx') = Len(rx) + 1 /\ rx'[Len(rx) + 1] = wire[1]
      /\ \A i \in 1..Len(rx) : rx'[i] = rx[i]
  BY <1>1, <1>2, <1>3
<1>5. Resp' = Resp /\ Gone \in Nat /\ Gone' = Gone
  <2>1. Resp' = Resp
    BY <1>1 DEF Resp
  <2>2. Len(Resp) \in Int
    BY ResponseFacts, TransfersAssumption DEF Base, RingInv, Resp
  <2>3. Gone = Len(Resp) - Len(rx) - Len(wire) /\ Gone' = Len(Resp) - Len(rx') - Len(wire')
    BY <2>1 DEF Gone
  <2>4. Gone \in Nat
    BY <1>2 DEF Base, RingInv
  <2> QED BY <1>2, <1>3, <1>4, <2>1, <2>2, <2>3, <2>4
<1>6. /\ \A i \in 1..Len(rx) : rx[i] = Resp[i + Gone]
      /\ \A i \in 1..Len(wire) : wire[i] = Resp[i + Gone + Len(rx)]
  BY <1>2 DEF Base, RingInv
<1>7. ASSUME NEW i \in 1..Len(rx') PROVE rx'[i] = Resp'[i + Gone']
  <2>1. CASE i \in 1..Len(rx)
    BY <1>4, <1>5, <1>6, <2>1
  <2>2. CASE i = Len(rx) + 1
    <3>1. 1 \in 1..Len(wire) /\ 1 + Gone + Len(rx) = i + Gone
      BY <1>2, <1>3, <1>5, <2>2
    <3>2. wire[1] = Resp[1 + Gone + Len(rx)]
      BY <1>6, <3>1
    <3> QED BY <1>4, <1>5, <2>2, <3>1, <3>2
  <2> QED BY <1>2, <1>4, <2>1, <2>2
<1>8. ASSUME NEW i \in 1..Len(wire') PROVE wire'[i] = Resp'[i + Gone' + Len(rx')]
  <2>1. i + 1 \in 1..Len(wire) /\ (i + 1) + Gone + Len(rx) = i + Gone + (Len(rx) + 1)
    BY <1>2, <1>3, <1>5
  <2>2. wire[i + 1] = Resp[(i + 1) + Gone + Len(rx)]
    BY <1>6, <2>1
  <2> QED BY <1>3, <1>4, <1>5, <2>1, <2>2
<1>9. Len(rx') <= Capacity
  BY <1>1, <1>2, <1>4, TransfersAssumption DEF Occupied
<1>10. at' \in 0..(Capacity - 1) /\ handler' \in {"file", "page"} /\ size' \in Nat /\ err' \in Errors /\ pc' # "idle"
  BY <1>1, <1>2 DEF Base, RingInv
<1> QED BY <1>2, <1>3, <1>4, <1>5, <1>7, <1>8, <1>9, <1>10 DEF RingInv

LEMMA ReceiveKeeps == ASSUME Base, Receive PROVE Base'
<1>1. /\ UNCHANGED <<streams, context, pc, handler, size, err, asker, popCnt, taken, readSz, trailerIndx, work,
                     delivered, result, whole, cause>>
  BY DEF Receive, tableVars, callVars, lineVars
<1>2. /\ RingInv' /\ Gone' = Gone /\ Resp' = Resp /\ Len(rx') = Len(rx) + 1 /\ pc # "idle" /\ Len(rx) \in Nat
      /\ \A i \in 1..Len(rx) : rx'[i] = rx[i]
  BY ReceiveRing DEF Base, RingInv
<1>3. TypeInv' /\ OrderInv'
  BY <1>1, <1>2 DEF Base, TypeInv, OrderInv, Follows
<1>4. WorkInv'
  <2>1. \A i \in 1..Len(rx) : i \in 1..Len(rx')
    BY <1>2
  <2>2. pc = "result" => \E i \in 1..Len(rx') : rx'[i] = Symbol("eol")
    BY <1>2, <2>1 DEF Base, WorkInv
  <2>3. pc = "block" /\ trailerIndx # NotFound =>
           trailerIndx + 1 <= Len(rx') /\ rx'[trailerIndx + 1] = Symbol("eol")
    <3> SUFFICES ASSUME pc = "block", trailerIndx # NotFound
                 PROVE  trailerIndx + 1 <= Len(rx') /\ rx'[trailerIndx + 1] = Symbol("eol")
      OBVIOUS
    <3>1. trailerIndx \in Nat /\ trailerIndx + 1 <= Len(rx) /\ rx[trailerIndx + 1] = Symbol("eol")
      BY DEF Base, WorkInv
    <3>2. trailerIndx + 1 \in 1..Len(rx)
      BY <1>2, <3>1
    <3> QED BY <1>2, <3>1, <3>2
  <2> QED BY <1>1, <2>2, <2>3 DEF Base, WorkInv, NotFound
<1> QED BY <1>2, <1>3, <1>4 DEF Base
-----------------------------------------------------------------------------
(* The start of a handler: what it takes off is CONNECT and what there is  *)
(* of the rest of its line.                                                *)
(* A symbol of the response is content only where the content is. *)
LEMMA ContentOnly ==
    ASSUME RingInv, NEW i \in Nat, i > 3, i <= Len(Resp), i > size + 3
    PROVE  Resp[i][1] \in {"eol", "OK", "+QHTTPREAD", "err"}
<1>1. handler \in {"file", "page"}
  BY DEF RingInv
<1>2. /\ size \in Nat /\ err \in Nat
      /\ i \in {size + 4, size + 5, size + 6, size + 7, size + 8, size + 9, size + 10}
      /\ i \in {size + 7, size + 8, size + 9, size + 10} => handler = "page"
  <2>1. size \in Nat /\ err \in Nat /\ Len(Resp) = size + (IF handler = "file" THEN 6 ELSE 10)
    BY RespFacts
  <2>2. CASE handler = "file"
    <3>1. i <= size + 6
      BY <2>1, <2>2
    <3> QED BY <2>1, <3>1
  <2>3. CASE handler = "page"
    <3>1. i <= size + 10
      BY <2>1, <2>3
    <3> QED BY <2>1, <2>3, <3>1
  <2> QED BY <1>1, <2>2, <2>3
<1>3. Resp[i] \in {Symbol("eol"), Symbol("OK"), Symbol("+QHTTPREAD"), <<"err", err>>}
  BY <1>2, RespFacts
<1>4. /\ Symbol("eol")[1] = "eol" /\ Symbol("OK")[1] = "OK" /\ Symbol("+QHTTPREAD")[1] = "+QHTTPREAD"
      /\ <<"err", err>>[1] = "err"
  BY <1>2, SymbolFacts DEF Words
<1> QED BY <1>3, <1>4

LEMMA AllOfIt ==
    ASSUME RingInv
    PROVE  /\ Len(Resp) = Gone + Len(rx) + Len(wire) /\ Gone \in Int
           /\ Len(Resp) \in Nat /\ Len(rx) \in Nat /\ Len(wire) \in Nat
<1>1. Len(Resp) \in Nat /\ Len(rx) \in Nat /\ Len(wire) \in Nat
  BY RespFacts, LenProperties DEF RingInv
<1> QED BY <1>1 DEF Gone

LEMMA AllOfItNext ==
    ASSUME RingInv'
    PROVE  /\ Len(Resp') = Gone' + Len(rx') + Len(wire') /\ Gone' \in Int
           /\ Len(Resp') \in Nat /\ Len(rx') \in Nat /\ Len(wire') \in Nat
<1>1. handler' \in {"file", "page"} /\ size' \in Nat /\ err' \in Nat
  BY TransfersAssumption DEF RingInv
<1>2. Response(handler', size', err') \in Seq(Symbols)
  BY <1>1, ResponseFacts
<1>3. Len(Resp') \in Nat /\ Len(rx') \in Nat /\ Len(wire') \in Nat
  BY <1>2, LenProperties DEF RingInv, Resp
<1> QED BY <1>3 DEF Gone

LEMMA LineEnd ==
    ASSUME RingInv, Gone = 0, pc # "idle"
    PROVE  LET p == cbffr_find(<<Symbol("cr")>>) IN
           /\ \A i \in 1..Len(rx) : rx[i] = Resp[i]
           /\ p = NotFound \/ p = 1
           /\ Len(rx) >= 2 => p = 1
<1> DEFINE p == cbffr_find(<<Symbol("cr")>>)
<1>1. Len(rx) \in Nat /\ \A i \in 1..Len(rx) : rx[i] = Resp[i]
  <2>1. \A i \in 1..Len(rx) : rx[i] = Resp[i + Gone] /\ i + Gone = i
    BY DEF RingInv
  <2> QED BY <2>1 DEF RingInv
<1>2. \/ p = NotFound /\ \A i \in 1..Len(rx) : rx[i] # Symbol("cr")
      \/ p \in Nat /\ p + 1 <= Len(rx) /\ rx[p + 1] = Symbol("cr") /\ \A i \in 1..p : rx[i] # Symbol("cr")
  BY FindOne
<1> HIDE DEF p
<1>3. Len(rx) >= 2 => 2 \in 1..Len(rx) /\ rx[2] = Symbol("cr")
  BY <1>1, RespFacts
<1>4. ASSUME p \in Nat, p + 1 <= Len(rx), rx[p + 1] = Symbol("cr"), \A i \in 1..p : rx[i] # Symbol("cr")
      PROVE  p = 1
  <2>1. p # 0
    <3>1. Symbol("CONNECT") # Symbol("cr")
      BY SymbolFacts DEF Words
    <3>2. 0 + 1 \in 1..Len(rx) => rx[0 + 1] = Symbol("CONNECT")
      BY <1>1, RespFacts
    <3> QED BY <1>1, <1>4, <3>1, <3>2
  <2>2. ~(p > 1)
    <3> SUFFICES ASSUME p > 1 PROVE FALSE
      OBVIOUS
    <3>1. 2 \in 1..p /\ Len(rx) >= 2
      BY <1>1, <1>4
    <3> QED BY <1>3, <1>4, <3>1
  <2> QED BY <1>4, <2>1, <2>2
<1>5. p = NotFound \/ p = 1
  BY <1>2, <1>4
<1>6. Len(rx) >= 2 => p = 1
  BY <1>2, <1>3, <1>4
<1> QED BY <1>1, <1>5, <1>6 DEF p

LEMMA ByteFacts ==
    /\ uint8(NotFound) = ByteMax /\ uint8(1) = 1
    /\ ByteMax \in Nat /\ NotFound # 1
<1>1. Capacity \in Nat \ {0} /\ ByteMax \in 1..Capacity
  BY TransfersAssumption
<1>2. NotFound # 1 /\ ByteMax \in Nat /\ 1 % (ByteMax + 1) = 1
  BY <1>1 DEF NotFound
<1> QED BY <1>2 DEF uint8

LEMMA FindLineKeeps == ASSUME Base, FindLine PROVE Base'
<1>1. /\ pc = "connect" /\ pc' \in {"line", "done"} /\ RingInv /\ Gone = 0
      /\ UNCHANGED <<streams, context, wire, rx, at, handler, size, err, asker, readSz, trailerIndx, work, delivered,
                     cause, taken>>
      /\ delivered = <<>> /\ cause = {} /\ taken = 0
      /\ whole' \in BOOLEAN /\ result' \in {result, "assert"}
  BY DEF FindLine, End, tableVars, ringVars, callVars, Base, TypeInv, Untaken
<1>2. popCnt' \in 0..ByteMax
  <2>1. popCnt' = popCnt \/ popCnt' = uint8(cbffr_find(<<Symbol("cr")>>))
    BY DEF FindLine
  <2>2. cbffr_find(<<Symbol("cr")>>) \in {1, NotFound}
    BY <1>1, LineEnd
  <2>3. 1 \in 0..ByteMax /\ ByteMax \in 0..ByteMax
    BY TransfersAssumption
  <2> QED BY <2>1, <2>2, <2>3, ByteFacts DEF Base, TypeInv
<1>3. RingInv' /\ Gone' = Gone /\ Resp' = Resp
  BY <1>1 DEF RingInv, Gone, Resp
<1>4. TypeInv'
  BY <1>1, <1>2, <1>3 DEF Base, TypeInv, PCs, Asked, Untaken, Outcomes
<1>5. WorkInv'
  BY <1>1 DEF Base, WorkInv, NotFound
<1>6. OrderInv'
  BY <1>1, <1>3 DEF Base, OrderInv, Follows
<1> QED BY <1>3, <1>4, <1>5, <1>6 DEF Base

(* What is taken off: as much as is there of the line and what follows it. *)
LEMMA LineTaken ==
    ASSUME Base, TakeLine
    PROVE  LET line == First(popCnt + 2) IN
           /\ pc = "line" /\ pc' \in {"wait", "find", "done"} /\ RingInv /\ RingInv' /\ UNCHANGED callVars
           /\ line \in Seq(Symbols) /\ Len(line) = Least(popCnt + 2, Len(rx)) /\ Len(line) \in Nat
           /\ Len(line) <= popCnt + 2 /\ Len(line) <= Len(rx) /\ taken' = Len(line)
           /\ \A i \in 1..Len(line) : line[i] = Resp[i]
           /\ Gone' = Len(line) /\ wire' = wire /\ Resp' = Resp
           /\ at + Len(rx) <= Capacity => at' + Len(rx') <= Capacity
           /\ Len(line) >= 2 => Symbol("cr") \in Range(line)
<1> DEFINE line == First(popCnt + 2)
<1>1. /\ pc = "line" /\ Take(line) /\ taken' = Len(line) /\ RingInv /\ Gone = 0 /\ popCnt \in Nat
      /\ UNCHANGED callVars
  BY DEF TakeLine, TakesBoth, Base, TypeInv
<1>2. pc' \in {"wait", "find", "done"}
  BY DEF TakeLine, End
<1>3. popCnt + 2 \in Nat /\ pc # "idle" /\ pc' # "idle" /\ line = First(popCnt + 2)
  BY <1>1, <1>2
<1> HIDE DEF line
<1>4. /\ RingInv' /\ line \in Seq(Symbols) /\ Len(line) = Least(popCnt + 2, Len(rx))
      /\ \A i \in 1..Len(line) : line[i] = Resp[i + Gone]
      /\ Gone' = Gone + Len(line) /\ wire' = wire /\ Resp' = Resp
      /\ at + Len(rx) <= Capacity => at' + Len(rx') <= Capacity
  <2> DEFINE n == popCnt + 2
  <2>1. n \in Nat /\ line = First(n)
    BY <1>3
  <2> HIDE DEF n
  <2>2. /\ RingInv' /\ line \in Seq(Symbols) /\ Len(line) = Least(n, Len(rx))
        /\ \A i \in 1..Len(line) : line[i] = Resp[i + Gone]
        /\ Gone' = Gone + Len(line) /\ wire' = wire /\ Resp' = Resp
        /\ at + Len(rx) <= Capacity => at' + Len(rx') <= Capacity
    BY <1>1, <1>3, <2>1, TakeFacts
  <2> QED BY <2>2 DEF n
<1>5. Len(line) \in Nat /\ Len(line) <= popCnt + 2 /\ Len(line) <= Len(rx)
  <2> DEFINE n == popCnt + 2
             k == Len(line)
             m == Len(rx)
  <2>1. n \in Nat /\ m \in Nat /\ k = Least(n, m)
    BY <1>1, <1>3, <1>4, AllOfIt
  <2> HIDE DEF n, k, m
  <2>2. k \in Nat /\ k <= n /\ k <= m
    BY <2>1, LeastFacts
  <2> QED BY <2>2 DEF n, k, m
<1>6. Gone' = Len(line) /\ \A i \in 1..Len(line) : line[i] = Resp[i]
  <2>1. \A i \in 1..Len(line) : i + Gone = i
    BY <1>1
  <2> QED BY <1>1, <1>4, <1>5, <2>1
<1>7. Len(line) >= 2 => Symbol("cr") \in Range(line)
  <2> SUFFICES ASSUME Len(line) >= 2 PROVE Symbol("cr") \in Range(line)
    OBVIOUS
  <2>1. 2 \in 1..Len(line) /\ DOMAIN line = 1..Len(line)
    BY <1>4, <1>5
  <2>2. line[2] = Symbol("cr")
    BY <1>1, <1>6, <2>1, RespFacts
  <2> QED BY <2>1, <2>2 DEF Range
<1> QED BY <1>1, <1>2, <1>4, <1>5, <1>6, <1>7 DEF line

LEMMA TakeLineKeeps == ASSUME Base, TakeLine PROVE Base'
<1> DEFINE line == First(popCnt + 2)
<1>1. /\ pc = "line" /\ pc' \in {"wait", "find", "done"} /\ RingInv /\ RingInv'
      /\ Len(line) \in Nat /\ Len(line) <= popCnt + 2 /\ Len(line) <= Len(rx) /\ taken' = Len(line)
      /\ Gone' = Len(line) /\ Resp' = Resp
      /\ Len(line) >= 2 => Symbol("cr") \in Range(line)
  BY LineTaken
<1>2. /\ UNCHANGED <<streams, context, handler, size, err, asker, trailerIndx, work, delivered, whole, cause>>
      /\ popCnt' = 0 /\ delivered = <<>> /\ cause = {} /\ popCnt \in 0..ByteMax /\ size \in Nat
      /\ handler \in {"file", "page"}
  BY <1>1 DEF TakeLine, tableVars, callVars, Base, TypeInv, Untaken, RingInv
<1>3. /\ pc' # "done" => /\ result' = result /\ pc' = (IF handler = "file" THEN "wait" ELSE "find")
                         /\ readSz' \in IF handler = "page" THEN {readSz}
                                        ELSE IF Symbol("cr") \in Range(line) THEN {size % Word} ELSE Lengths
      /\ pc' = "done" => result' = "overrun" /\ readSz' = readSz
  <2>1. TakesBoth(popCnt) = popCnt + 2
    BY DEF TakesBoth
  <2> QED BY <2>1 DEF TakeLine, End
<1> HIDE DEF line
<1>4. Word \in Nat \ {0} /\ Lengths \subseteq 0..(Word - 1) /\ ByteMax \in Nat
  BY TransfersAssumption
<1>5. size % Word \in 0..(Word - 1) /\ size % Word <= size
  <2>1. size % Word \in 0..(Word - 1) /\ size \div Word \in Nat /\ size = Word * (size \div Word) + (size % Word)
    BY <1>2, <1>4
  <2>2. Word * (size \div Word) >= 0
    BY <1>4, <2>1
  <2> DEFINE q == Word * (size \div Word)
             m == size % Word
  <2>3. q \in Int
    BY <1>4, <2>1
  <2>4. q >= 0 /\ m \in 0..(Word - 1) /\ size = q + m /\ q \in Int
    BY <2>1, <2>2, <2>3
  <2> HIDE DEF q, m
  <2>5. m <= size
    BY <1>4, <2>4
  <2> QED BY <2>4, <2>5 DEF m
<1>6. readSz' \in 0..(Word - 1)
  <2>1. readSz \in 0..(Word - 1)
    BY DEF Base, TypeInv
  <2> QED BY <1>3, <1>4, <1>5, <2>1
<1>7. TypeInv'
  <2>1. taken' \in 0..(ByteMax + 2) /\ popCnt' \in 0..ByteMax
    BY <1>1, <1>2, <1>4
  <2>2. result' \in Outcomes
    BY <1>1, <1>3 DEF Base, TypeInv, Outcomes
  <2>3. pc' \in {"wait", "find", "done"} /\ (pc' = "wait" => handler' = "file") /\ (pc' = "find" => handler' = "page")
    BY <1>1, <1>2, <1>3
  <2> QED BY <1>2, <1>6, <2>1, <2>2, <2>3 DEF Base, TypeInv, PCs, Asked, Untaken
<1>8. WorkInv'
  BY <1>1, <1>2 DEF Base, WorkInv, NotFound
<1>9. OrderInv'
  <2>0. \A n \in Nat : n + 0 = n /\ 0 + n = n
    OBVIOUS
  <2>1. Len(delivered') = 0 /\ delivered' \in Seq(Symbols)
    BY <1>2
  <2>2. taken' <= Len(Resp)
    <3>1. Len(Resp) = Gone + Len(rx) + Len(wire) /\ Len(rx) \in Nat /\ Len(wire) \in Nat /\ Gone = 0
      BY <1>1, AllOfIt DEF Base, TypeInv
    <3> QED BY <1>1, <3>1
  <2>3. handler = "file" /\ taken' = 3 /\ pc' # "done" => readSz' <= size
    BY <1>1, <1>2, <1>3, <1>5
  <2>4. readSz' \in Nat /\ taken' \in Nat
    BY <1>1, <1>4, <1>6
  <2>5. /\ taken' + Len(delivered') <= Len(Resp') /\ Follows' /\ Gone' = taken' + Len(delivered')
    <3>1. taken' + Len(delivered') = taken'
      BY <2>0, <2>1, <2>4
    <3>2. Follows'
      BY <2>1 DEF Follows
    <3> QED BY <1>1, <2>2, <3>1, <3>2
  <2>6. Len(delivered') <= size' /\ Len(delivered') + readSz' = readSz'
    <3>1. 0 <= size'
      BY <1>2
    <3> QED BY <2>0, <2>1, <2>4, <3>1
  <2> QED BY <1>1, <1>2, <2>1, <2>3, <2>5, <2>6 DEF OrderInv
<1> QED BY <1>1, <1>7, <1>8, <1>9 DEF Base
-----------------------------------------------------------------------------
(* The file handler. *)
LEMMA BlockIsFirst ==
    ASSUME RingInv, NEW n \in Nat
    PROVE  /\ BlockOf(n) = First(Least(n, Capacity - at)) /\ Least(n, Capacity - at) \in Nat
           /\ Least(n, Capacity - at) <= n
           /\ n <= Len(rx) /\ at + Len(rx) <= Capacity => Least(n, Capacity - at) = n
<1>1. Capacity \in Nat /\ at \in 0..(Capacity - 1) /\ Len(rx) \in Nat
  BY TransfersAssumption DEF RingInv
<1> QED BY <1>1 DEF BlockOf, Least

(* What is taken where the delivered ends continues it. *)
LEMMA GoesOn ==
    ASSUME RingInv, NEW block \in Seq(Symbols), delivered \in Seq(Symbols), Follows,
           delivered' = delivered \o block, taken \in Nat, Gone = taken + Len(delivered),
           \A i \in 1..Len(block) : block[i] = Resp[i + Gone], Resp' = Resp, taken' = taken
    PROVE  delivered' \in Seq(Symbols) /\ Len(delivered') = Len(delivered) + Len(block) /\ Follows'
<1>1. Len(block) \in Nat /\ Len(delivered) \in Nat
  OBVIOUS
<1>2. /\ delivered' \in Seq(Symbols) /\ Len(delivered') = Len(delivered) + Len(block)
      /\ \A i \in 1..(Len(delivered) + Len(block)) :
             delivered'[i] = IF i <= Len(delivered) THEN delivered[i] ELSE block[i - Len(delivered)]
  BY ConcatProperties
<1>3. ASSUME NEW i \in 1..Len(delivered') PROVE delivered'[i] = Resp[taken + i]
  <2>1. CASE i <= Len(delivered)
    BY <1>1, <1>2, <2>1 DEF Follows
  <2>2. CASE i > Len(delivered)
    <3>1. i - Len(delivered) \in 1..Len(block) /\ (i - Len(delivered)) + Gone = taken + i
      BY <1>1, <1>2, <2>2
    <3>2. delivered'[i] = block[i - Len(delivered)]
      BY <1>1, <1>2, <2>2
    <3>3. block[i - Len(delivered)] = Resp[taken + i]
      BY <3>1
    <3> QED BY <3>2, <3>3
  <2> QED BY <1>1, <1>2, <2>1, <2>2
<1> QED BY <1>2, <1>3 DEF Follows

(* The same for content. *)
LEMMA GoesOnInOrder ==
    ASSUME RingInv, NEW block \in Seq(Symbols), delivered \in Seq(Symbols), Got(Len(delivered)),
           Len(delivered) + Len(block) <= size, delivered' = delivered \o block,
           \A i \in 1..Len(block) : block[i] = Resp[i + Len(delivered) + 3]
    PROVE  delivered' \in Seq(Symbols) /\ Len(delivered') = Len(delivered) + Len(block) /\ Got(Len(delivered))'
<1>1. Len(block) \in Nat /\ Len(delivered) \in Nat /\ size \in Nat
  BY DEF RingInv
<1>2. /\ delivered' \in Seq(Symbols) /\ Len(delivered') = Len(delivered) + Len(block)
      /\ \A i \in 1..(Len(delivered) + Len(block)) :
             delivered'[i] = IF i <= Len(delivered) THEN delivered[i] ELSE block[i - Len(delivered)]
  BY ConcatProperties
<1>3. ASSUME NEW i \in 1..Len(delivered') PROVE delivered'[i] = <<"content", i>>
  <2>1. CASE i <= Len(delivered)
    BY <1>1, <1>2, <2>1 DEF Got
  <2>2. CASE i > Len(delivered)
    <3>1. /\ i - Len(delivered) \in 1..Len(block) /\ (i - Len(delivered)) + Len(delivered) + 3 = i + 3
          /\ i \in 1..size
      BY <1>1, <1>2, <2>2
    <3>2. delivered'[i] = block[i - Len(delivered)]
      BY <1>1, <1>2, <2>2
    <3>3. block[i - Len(delivered)] = Resp[i + 3]
      BY <3>1
    <3>4. Resp[i + 3] = <<"content", i>>
      BY <3>1, RespFacts
    <3> QED BY <3>2, <3>3, <3>4
  <2> QED BY <1>1, <1>2, <2>1, <2>2
<1> QED BY <1>2, <1>3 DEF Got

LEMMA FileBlockKeeps == ASSUME Base, FileBlock PROVE Base'
<1> DEFINE n == Least(readSz, Capacity - at)
           block == First(n)
<1>1. /\ pc = "wait" /\ pc' = "trailer" /\ handler = "file" /\ RingInv /\ size \in Nat
      /\ UNCHANGED <<streams, context, callVars, popCnt, taken, trailerIndx, work, result, whole, cause>>
      /\ readSz \in 0..(Word - 1) /\ taken \in Nat /\ Len(rx) > 0
  BY DEF FileBlock, tableVars, lineVars, Occupied, Base, TypeInv, RingInv
<1>2. BlockOf(Requested) = block /\ n \in Nat /\ n <= readSz
  BY <1>1, BlockIsFirst DEF Requested
<1>3. /\ Take(block) /\ delivered' = delivered \o block /\ readSz' = readSz - Len(block)
  BY <1>2 DEF FileBlock
<1> HIDE DEF n
<1>4. /\ RingInv' /\ block \in Seq(Symbols) /\ Len(block) = Least(n, Len(rx))
      /\ \A i \in 1..Len(block) : block[i] = Resp[i + Gone]
      /\ Gone' = Gone + Len(block) /\ Resp' = Resp
  <2>1. pc # "idle" /\ pc' # "idle" /\ UNCHANGED callVars
    BY <1>1
  <2> HIDE DEF block
  <2>2. block = First(n)
    BY DEF block
  <2> QED BY <1>1, <1>2, <1>3, <2>1, <2>2, TakeFacts
<1> HIDE DEF block
<1>5. Len(block) \in 0..readSz /\ readSz' \in 0..(Word - 1)
  <2>1. Len(rx) \in Nat
    BY <1>1 DEF RingInv
  <2>2. Len(block) \in Nat /\ Len(block) <= readSz
    BY <1>1, <1>2, <1>4, <2>1 DEF Least
  <2>3. Word \in Nat
    BY TransfersAssumption
  <2> QED BY <1>1, <1>3, <2>2, <2>3
<1>6. TypeInv'
  BY <1>1, <1>5 DEF Base, TypeInv, PCs, Asked, Untaken, callVars
<1>7. WorkInv'
  BY <1>1 DEF Base, WorkInv, NotFound
<1>8. OrderInv'
  <2>0. delivered \in Seq(Symbols) /\ Len(delivered) \in Nat
    BY DEF Base, OrderInv
  <2>1. delivered' \in Seq(Symbols) /\ Len(delivered') = Len(delivered) + Len(block)
    BY <1>3, <1>4, <2>0, ConcatProperties
  <2>2. ASSUME "skipped" \notin cause
        PROVE  taken + Len(delivered') <= Len(Resp) /\ Follows' /\ Gone' = taken + Len(delivered')
    <3>1. Follows /\ (Gone = taken + Len(delivered) \/ Gone = Len(Resp))
      BY <1>1, <2>2 DEF Base, OrderInv
    <3>2. Gone # Len(Resp)
      BY <1>1, AllOfIt
    <3>3. Gone = taken + Len(delivered)
      BY <3>1, <3>2
    <3>4. Follows'
      BY <1>1, <1>3, <1>4, <2>0, <3>1, <3>3, GoesOn
    <3>5. Gone' <= Len(Resp)
      <4>1. Len(Resp') = Gone' + Len(rx') + Len(wire') /\ Len(rx') \in Nat /\ Len(wire') \in Nat /\ Gone' \in Int
        BY <1>4, <2>0, AllOfItNext
      <4> QED BY <1>4, <4>1
    <3>6. Gone' = taken + Len(delivered')
      BY <1>1, <1>4, <1>5, <2>0, <2>1, <3>3
    <3> QED BY <3>4, <3>5, <3>6
  <2>3. ASSUME taken = 3 PROVE Len(delivered') <= size /\ Len(delivered') + readSz' <= size
    <3>1. Len(delivered) + readSz <= size
      BY <1>1, <2>3 DEF Base, OrderInv
    <3> QED BY <1>1, <1>3, <1>5, <2>0, <2>1, <3>1
  <2> QED BY <1>1, <1>4, <2>1, <2>2, <2>3 DEF OrderInv, callVars
<1> QED BY <1>4, <1>6, <1>7, <1>8 DEF Base

(* What is dropped as a trailer and is one ends the response. *)
LEMMA TrailerLast ==
    ASSUME RingInv, handler = "file", Gone \in Nat, Gone + 3 <= Len(Resp), Resp[1 + Gone] = Symbol("eol")
    PROVE  Gone + 3 = Len(Resp)
<1>1. size \in Nat /\ Len(Resp) = size + 6 /\ Gone <= size + 3
  <2>1. Len(Resp) = size + (IF handler = "file" THEN 6 ELSE 10) /\ size \in Nat
    BY RespFacts
  <2> QED BY <2>1
<1>2. Gone # 0 /\ Gone # 1 /\ Gone # 2
  <2>1. Symbol("eol") \notin {Symbol("CONNECT"), Symbol("cr"), Symbol("lf")}
    BY SymbolFacts DEF Words
  <2> QED BY <2>1, RespFacts
<1>3. ~(Gone >= 3 /\ Gone < size + 3)
  <2> SUFFICES ASSUME Gone >= 3, Gone < size + 3 PROVE FALSE
    OBVIOUS
  <2>1. Gone - 2 \in 1..size /\ (Gone - 2) + 3 = 1 + Gone /\ Gone - 2 \in Nat
    BY <1>1
  <2>2. Resp[1 + Gone] = <<"content", Gone - 2>>
    BY <2>1, RespFacts
  <2> QED BY <2>1, <2>2, SymbolFacts DEF Words
<1> QED BY <1>1, <1>2, <1>3

LEMMA FileSkipKeeps == ASSUME Base, FileSkip PROVE Base'
<1>1. /\ pc = "trailer" /\ pc' = "wait" /\ handler = "file" /\ RingInv /\ size \in Nat /\ Resp' = Resp
      /\ UNCHANGED <<streams, context, handler, size, err, asker, popCnt, taken, readSz, trailerIndx, work, delivered,
                     result, whole>>
      /\ cause' \in {cause, cause \cup {"skipped"}}
  BY DEF FileSkip, tableVars, callVars, lineVars, Base, TypeInv, RingInv, Resp
<1>2. WorkInv'
  BY <1>1 DEF Base, WorkInv, NotFound
<1>3. TypeInv'
  <2>1. cause' \subseteq Causes
    BY <1>1 DEF Base, TypeInv, Causes
  <2> QED BY <1>1, <2>1 DEF Base, TypeInv, PCs, Asked, Untaken
<1>4. CASE UNCHANGED <<rx, wire, at, cause>>
  <2>1. RingInv' /\ Gone' = Gone
    BY <1>1, <1>4 DEF RingInv, Gone
  <2>2. OrderInv'
    BY <1>1, <1>4, <2>1 DEF Base, OrderInv, Follows
  <2> QED BY <1>2, <1>3, <2>1, <2>2 DEF Base
<1>5. CASE /\ Take(First(3)) /\ Len(rx) >= 3
           /\ cause' = IF First(3) = FileTrailer THEN cause ELSE cause \cup {"skipped"}
  <2> DEFINE block == First(3)
  <2>1. /\ RingInv' /\ block \in Seq(Symbols) /\ Len(block) = Least(3, Len(rx))
        /\ \A i \in 1..Len(block) : block[i] = Resp[i + Gone]
        /\ Gone' = Gone + Len(block)
    <3>1. pc # "idle" /\ pc' # "idle" /\ UNCHANGED callVars /\ 3 \in Nat
      BY <1>1 DEF callVars
    <3> HIDE DEF block
    <3>2. block = First(3) /\ Take(block)
      BY <1>5 DEF block
    <3> QED BY <1>1, <3>1, <3>2, TakeFacts
  <2>2. Len(block) = 3
    <3>1. Len(rx) \in Nat
      BY <1>1 DEF RingInv
    <3> QED BY <1>5, <2>1, <3>1, LeastFacts
  <2> HIDE DEF block
  <2>3. ASSUME "skipped" \notin cause' PROVE cause' = cause /\ Gone' = Len(Resp)
    <3>1. block = FileTrailer /\ cause' = cause
      BY <1>5, <2>3 DEF block
    <3>2. Resp[1 + Gone] = Symbol("eol")
      <4>1. block[1] = Symbol("eol") /\ 1 \in 1..Len(block)
        BY <2>2, <3>1, PartFacts
      <4> QED BY <2>1, <4>1
    <3>3. Gone \in Nat /\ Gone + 3 <= Len(Resp)
      <4>1. Gone \in Nat
        BY <1>1 DEF RingInv
      <4>2. Len(Resp) = Gone + Len(rx) + Len(wire) /\ Len(rx) \in Nat /\ Len(wire) \in Nat
        BY <1>1, AllOfIt
      <4> QED BY <1>5, <4>1, <4>2
    <3>4. Gone + 3 = Len(Resp)
      BY <1>1, <3>2, <3>3, TrailerLast
    <3> QED BY <2>1, <2>2, <3>1, <3>4
  <2>4. OrderInv'
    BY <1>1, <2>3 DEF Base, OrderInv, Follows
  <2> QED BY <1>2, <1>3, <2>1, <2>4 DEF Base
<1>6. file__readTrailerSz = 3
  BY PartFacts DEF file__readTrailerSz
<1>7. \/ UNCHANGED <<rx, wire, at, cause>>
      \/ /\ Take(First(3)) /\ Len(rx) >= 3
         /\ cause' = IF First(3) = FileTrailer THEN cause ELSE cause \cup {"skipped"}
  BY <1>6 DEF FileSkip, Stay, ringVars, Occupied
<1> QED BY <1>4, <1>5, <1>7

LEMMA FileEndKeeps == ASSUME Base, FileSuccess \/ FileTimeout PROVE Base'
<1>1. /\ pc = "wait" /\ pc' = "done" /\ result' \in {"success", "timeout"}
      /\ UNCHANGED <<streams, context, wire, rx, at, handler, size, err, asker, popCnt, taken, readSz, trailerIndx, work,
                     delivered, whole, cause>>
  BY DEF FileSuccess, FileTimeout, End, Stay, ringVars, tableVars, callVars, lineVars
<1>2. RingInv' /\ Gone' = Gone /\ Resp' = Resp
  BY <1>1 DEF Base, RingInv, Gone, Resp
<1>3. TypeInv' /\ WorkInv'
  BY <1>1 DEF Base, TypeInv, WorkInv, PCs, Asked, Untaken, Outcomes, NotFound
<1>4. OrderInv'
  BY <1>1, <1>2 DEF Base, OrderInv, Follows
<1> QED BY <1>2, <1>3, <1>4 DEF Base
-----------------------------------------------------------------------------
(* The page handler. *)
LEMMA TrailerFound ==
    ASSUME RingInv
    PROVE  LET t == cbffr_find(PageTrailer) IN
           \/ t = NotFound
           \/ /\ t \in Nat /\ t + 4 <= Len(rx)
              /\ rx[t + 1] = Symbol("eol") /\ rx[t + 2] = Symbol("OK")
              /\ \A i \in 1..t : SubSeq(rx, i, i + 3) # PageTrailer
<1> DEFINE t == cbffr_find(PageTrailer)
<1>1. \/ t = NotFound
      \/ /\ t \in Nat /\ t + 4 <= Len(rx) /\ SubSeq(rx, t + 1, t + 4) = PageTrailer
         /\ \A i \in 1..t : SubSeq(rx, i, i + 4 - 1) # PageTrailer
  <2>1. 4 \in Nat \ {0} /\ Len(PageTrailer) = 4
    BY PartFacts
  <2> QED BY <2>1, FindFacts
<1> HIDE DEF t
<1>2. CASE /\ t \in Nat /\ t + 4 <= Len(rx) /\ SubSeq(rx, t + 1, t + 4) = PageTrailer
           /\ \A i \in 1..t : SubSeq(rx, i, i + 4 - 1) # PageTrailer
  <2>1. rx \in Seq(Symbols) /\ Len(rx) \in Nat
    BY DEF RingInv
  <2>2. \A i \in (t + 1)..(t + 4) : rx[i] \in Symbols
    BY <1>2, <2>1
  <2>3. \A i \in 1..((t + 4) - (t + 1) + 1) : SubSeq(rx, t + 1, t + 4)[i] = rx[(t + 1) + i - 1]
    BY <1>2, <2>2, SubSeqProperties
  <2>4. PageTrailer[1] = rx[(t + 1) + 1 - 1] /\ PageTrailer[2] = rx[(t + 1) + 2 - 1]
    BY <1>2, <2>3
  <2>5. (t + 1) + 1 - 1 = t + 1 /\ (t + 1) + 2 - 1 = t + 2
    BY <1>2
  <2>6. \A i \in 1..t : i + 4 - 1 = i + 3
    BY <1>2
  <2> QED BY <1>2, <2>4, <2>5, <2>6, PartFacts DEF t
<1> QED BY <1>1, <1>2 DEF t

LEMMA PageFindKeeps == ASSUME Base, PageFind PROVE Base'
<1>1. /\ pc = "find" /\ pc' = "block" /\ trailerIndx' = cbffr_find(PageTrailer) /\ RingInv
      /\ UNCHANGED <<streams, context, wire, rx, at, handler, size, err, asker, popCnt, taken, readSz, work, delivered,
                     result, whole, cause>>
  BY DEF PageFind, tableVars, ringVars, callVars, lineVars, Base
<1>2. RingInv' /\ Gone' = Gone /\ Resp' = Resp
  BY <1>1 DEF RingInv, Gone, Resp
<1>3. TypeInv'
  BY <1>1, <1>2 DEF Base, TypeInv, PCs, Asked, Untaken
<1>4. OrderInv'
  BY <1>1, <1>2 DEF Base, OrderInv, Follows
<1>5. WorkInv'
  <2>1. Capacity \in Nat /\ Len(rx) \in Nat /\ Len(rx) <= Capacity
    BY <1>1, TransfersAssumption DEF RingInv
  <2>2. \/ trailerIndx' = Capacity + 1
        \/ trailerIndx' \in Nat /\ trailerIndx' + 4 <= Len(rx) /\ rx[trailerIndx' + 1] = Symbol("eol")
    BY <1>1, TrailerFound DEF NotFound
  <2>3. trailerIndx' \in Nat /\ (trailerIndx' <= Capacity \/ trailerIndx' = Capacity + 1)
    BY <2>1, <2>2
  <2>4. trailerIndx' # Capacity + 1 => trailerIndx' + 1 <= Len(rx) /\ rx[trailerIndx' + 1] = Symbol("eol")
    BY <2>1, <2>2
  <2> QED BY <1>1, <2>3, <2>4 DEF Base, WorkInv, NotFound
<1> QED BY <1>2, <1>3, <1>4, <1>5 DEF Base

(* A block that is no longer than what is before the trailer leaves it. *)
LEMMA PageBlockRing ==
    ASSUME Base, PageBlock
    PROVE  \/ /\ UNCHANGED <<wire, rx, at, delivered, cause>> /\ RingInv' /\ Gone' = Gone
              /\ trailerIndx = NotFound
           \/ \E block \in Seq(Symbols) :
                 /\ delivered' = delivered \o block
                 /\ cause' = IF \A i \in 1..Len(block) : block[i][1] \in Before
                             THEN cause ELSE cause \cup {"cut"}
                 /\ RingInv' /\ \A i \in 1..Len(block) : block[i] = Resp[i + Gone]
                 /\ Gone' = Gone + Len(block) /\ Len(rx') = Len(rx) - Len(block) /\ Len(block) <= Len(rx)
                 /\ \A i \in 1..Len(rx') : rx'[i] = rx[i + Len(block)]
                 /\ Len(block) <= trailerIndx /\ wire' = wire
                 /\ at + Len(rx) <= Capacity =>
                        at' + Len(rx') <= Capacity /\ Len(block) = Least(trailerIndx, defaultBlockSz)
<1> DEFINE r == Least(trailerIndx, defaultBlockSz)
           n == Least(r, Capacity - at)
           block == First(n)
<1>1. /\ pc = "block" /\ pc' \in {"find", "result"} /\ RingInv /\ Len(rx) \in Nat /\ Capacity \in Nat
      /\ Len(rx) <= Capacity /\ trailerIndx \in Nat /\ UNCHANGED callVars
  BY TransfersAssumption DEF PageBlock, Base, RingInv, WorkInv
<1>2. defaultBlockSz \in Nat /\ defaultBlockSz <= Capacity
  BY <1>1 DEF defaultBlockSz
<1>3. r \in Nat /\ r <= trailerIndx
  BY <1>1, <1>2, LeastFacts
<1> HIDE DEF r
<1>4. /\ BlockOf(r) = block /\ n \in Nat /\ n <= r
      /\ r <= Len(rx) /\ at + Len(rx) <= Capacity => n = r
  BY <1>1, <1>3, BlockIsFirst
<1>5. CASE Len(rx) >= r
  <2> HIDE DEF n
  <2>1. /\ Take(block) /\ delivered' = delivered \o block
        /\ cause' = IF \A i \in DOMAIN block : block[i][1] \in Before THEN cause ELSE cause \cup {"cut"}
    BY <1>4, <1>5 DEF PageBlock, r, Occupied
  <2>2. /\ RingInv' /\ block \in Seq(Symbols) /\ Len(block) = Least(n, Len(rx))
        /\ \A i \in 1..Len(block) : block[i] = Resp[i + Gone]
        /\ Gone' = Gone + Len(block) /\ Len(rx') = Len(rx) - Len(block) /\ wire' = wire
        /\ \A i \in 1..Len(rx') : rx'[i] = rx[i + Len(block)]
        /\ at + Len(rx) <= Capacity => at' + Len(rx') <= Capacity
    <3>1. pc # "idle" /\ pc' # "idle"
      BY <1>1
    <3> HIDE DEF block
    <3>2. block = First(n)
      BY DEF block
    <3> QED BY <1>1, <1>4, <2>1, <3>1, <3>2, TakeFacts
  <2> HIDE DEF block
  <2>3. Len(block) = n /\ n <= trailerIndx /\ n <= Len(rx)
    <3>1. n \in Nat /\ n <= trailerIndx /\ n <= Len(rx)
      BY <1>1, <1>3, <1>4, <1>5
    <3>2. Least(n, Len(rx)) = n
      BY <1>1, <3>1, LeastFacts
    <3> QED BY <2>2, <3>1, <3>2
  <2>4. DOMAIN block = 1..Len(block)
    BY <2>2
  <2>5. at + Len(rx) <= Capacity => at' + Len(rx') <= Capacity /\ Len(block) = Least(trailerIndx, defaultBlockSz)
    BY <1>4, <1>5, <2>2, <2>3 DEF r
  <2> QED BY <2>1, <2>2, <2>3, <2>4, <2>5
<1>6. CASE ~(Len(rx) >= r)
  <2>1. UNCHANGED <<wire, rx, at, delivered, cause>>
    BY <1>6 DEF PageBlock, r, Occupied, Stay, ringVars
  <2>2. RingInv' /\ Gone' = Gone
    BY <1>1, <2>1 DEF RingInv, Gone, Resp, callVars
  <2>3. trailerIndx # NotFound => trailerIndx + 1 <= Len(rx)
    BY <1>1 DEF Base, WorkInv
  <2>4. trailerIndx = NotFound
    BY <1>1, <1>3, <1>6, <2>3
  <2> QED BY <2>1, <2>2, <2>4
<1> QED BY <1>5, <1>6

LEMMA PageBlockKeeps == ASSUME Base, PageBlock PROVE Base'
<1>1. /\ pc = "block" /\ handler = "page" /\ RingInv /\ trailerIndx \in Nat /\ size \in Nat
      /\ pc' = IF trailerIndx = NotFound THEN "find" ELSE "result"
      /\ UNCHANGED <<streams, context, handler, size, err, asker, popCnt, taken, readSz, trailerIndx, work, result, whole>>
      /\ Resp' = Resp /\ taken \in Nat
  BY DEF PageBlock, tableVars, callVars, lineVars, Base, TypeInv, WorkInv, RingInv, Resp
<1>2. CASE /\ UNCHANGED <<wire, rx, at, delivered, cause>> /\ RingInv' /\ Gone' = Gone
           /\ trailerIndx = NotFound
  <2>1. TypeInv' /\ WorkInv'
    BY <1>1, <1>2 DEF Base, TypeInv, WorkInv, PCs, Asked, Untaken, NotFound
  <2>2. OrderInv'
    BY <1>1, <1>2 DEF Base, OrderInv, Follows
  <2> QED BY <1>2, <2>1, <2>2 DEF Base
<1>3. ASSUME NEW block \in Seq(Symbols), delivered' = delivered \o block,
             cause' = IF \A i \in 1..Len(block) : block[i][1] \in Before THEN cause ELSE cause \cup {"cut"},
             RingInv', \A i \in 1..Len(block) : block[i] = Resp[i + Gone],
             Gone' = Gone + Len(block), Len(rx') = Len(rx) - Len(block), Len(block) <= Len(rx),
             \A i \in 1..Len(rx') : rx'[i] = rx[i + Len(block)], Len(block) <= trailerIndx
      PROVE  Base'
  <2>1. Len(block) \in Nat /\ Len(rx) \in Nat
    BY <1>1, <1>3 DEF RingInv
  <2>2. TypeInv'
    <3>1. cause' \subseteq Causes
      BY <1>3 DEF Base, TypeInv, Causes
    <3> QED BY <1>1, <3>1 DEF Base, TypeInv, PCs, Asked, Untaken
  <2>3. WorkInv'
    <3>1. ASSUME trailerIndx # NotFound PROVE \E i \in 1..Len(rx') : rx'[i] = Symbol("eol")
      <4>1. trailerIndx + 1 <= Len(rx) /\ rx[trailerIndx + 1] = Symbol("eol")
        BY <1>1, <3>1 DEF Base, WorkInv
      <4>2. /\ trailerIndx + 1 - Len(block) \in 1..Len(rx')
            /\ (trailerIndx + 1 - Len(block)) + Len(block) = trailerIndx + 1
        BY <1>1, <1>3, <2>1, <4>1
      <4>3. rx'[trailerIndx + 1 - Len(block)] = Symbol("eol")
        BY <1>3, <4>1, <4>2
      <4> QED BY <4>2, <4>3
    <3> QED BY <1>1, <3>1 DEF Base, WorkInv, NotFound
  <2>4. OrderInv'
    <3>0. delivered \in Seq(Symbols) /\ Len(delivered) \in Nat
      BY DEF Base, OrderInv
    <3>1. delivered' \in Seq(Symbols) /\ Len(delivered') = Len(delivered) + Len(block)
      BY <1>3, <3>0, ConcatProperties
    <3>2. ASSUME "skipped" \notin cause'
          PROVE  taken + Len(delivered') <= Len(Resp) /\ Follows' /\ Gone' = taken + Len(delivered')
      <4>1. Follows /\ Gone = taken + Len(delivered)
        BY <1>1, <1>3, <3>2 DEF Base, OrderInv
      <4>2. Follows'
        BY <1>1, <1>3, <3>0, <4>1, GoesOn
      <4>3. Len(Resp) = Gone' + Len(rx') + Len(wire') /\ Len(rx') \in Nat /\ Len(wire') \in Nat /\ Gone' \in Int
        BY <1>1, <1>3, AllOfItNext
      <4>4. Gone' = taken + Len(delivered')
        BY <1>1, <1>3, <2>1, <3>0, <3>1, <4>1
      <4> QED BY <4>2, <4>3, <4>4
    <3>3. ASSUME taken = 3, cause' \cap {"skipped", "cut"} = {} PROVE Len(delivered') <= size
      <4>1. cause' = cause /\ \A i \in 1..Len(block) : block[i][1] \in Before
        BY <1>3, <3>3
      <4>2. Gone = Len(delivered) + 3 /\ Gone' <= Len(Resp) /\ Len(delivered) <= size
        <5>1. Gone = taken + Len(delivered) /\ Len(delivered) <= size
          BY <1>1, <3>3, <4>1 DEF Base, OrderInv
        <5> QED BY <3>0, <3>2, <3>3, <5>1
      <4> SUFFICES ASSUME Len(delivered') > size PROVE FALSE
        BY <1>1, <2>1, <3>0, <3>1
      <4>3. /\ Len(block) \in 1..Len(block) /\ Len(block) + Gone \in Nat /\ Len(block) + Gone > size + 3
            /\ Len(block) + Gone > 3 /\ Len(block) + Gone <= Len(Resp)
        BY <1>1, <1>3, <2>1, <3>0, <3>1, <4>2
      <4>4. block[Len(block)] = Resp[Len(block) + Gone]
        BY <1>3, <4>3
      <4>5. Resp[Len(block) + Gone][1] \in {"eol", "OK", "+QHTTPREAD", "err"}
        BY <1>1, <4>3, ContentOnly
      <4>6. Resp[Len(block) + Gone][1] \in Before
        BY <4>1, <4>3, <4>4
      <4> QED BY <4>5, <4>6 DEF Before
    <3> QED BY <1>1, <3>1, <3>2, <3>3 DEF OrderInv
  <2> QED BY <1>3, <2>2, <2>3, <2>4 DEF Base
<1> QED BY <1>2, <1>3, PageBlockRing

(* The end of a page.  Either the work buffer is full, or it holds the     *)
(* first line end of the trailer: the handler does not come back.          *)
LEMMA PageEndTakes ==
    ASSUME Base, PageEnd
    PROVE  LET text == First(WorkSz) IN
           /\ pc = "result" /\ pc' = "done" /\ Take(text) /\ work' = text /\ handler = "page"
           /\ RingInv' /\ text \in Seq(Symbols) /\ Len(text) = Least(WorkSz, Len(rx)) /\ Len(text) <= WorkSz
           /\ \A i \in 1..Len(text) : text[i] = Resp[i + Gone]
           /\ wire' = wire /\ (at + Len(rx) <= Capacity => at' + Len(rx') <= Capacity)
           /\ \/ Symbol("eol") \in Range(text) /\ result' \in Results(text)
              \/ Symbol("eol") \notin Range(text) /\ result' = "overrun"
<1> DEFINE text == First(WorkSz)
<1>1. /\ pc = "result" /\ work = <<>> /\ handler = "page" /\ RingInv /\ WorkSz \in Nat /\ Len(rx) \in Nat
      /\ rx \in Seq(Symbols) /\ UNCHANGED callVars
  <2>1. pc = "result" /\ UNCHANGED callVars /\ WorkSz \in Nat
    BY TransfersAssumption DEF PageEnd
  <2>2. RingInv /\ TypeInv /\ WorkInv
    BY DEF Base
  <2>3. rx \in Seq(Symbols) /\ Len(rx) \in Nat
    BY <2>2 DEF RingInv
  <2>4. work = <<>> /\ handler = "page"
    BY <2>1, <2>2 DEF TypeInv, WorkInv
  <2> QED BY <2>1, <2>2, <2>3, <2>4
<1>2. First(WorkSz - Len(work)) = text
  <2>1. WorkSz - Len(work) = WorkSz
    BY <1>1
  <2> QED BY <2>1
<1>3. text \in Seq(Symbols) /\ Len(text) = Least(WorkSz, Len(rx)) /\ \A i \in 1..Len(text) : text[i] = rx[i]
  <2> DEFINE m == Least(WorkSz, Len(rx))
  <2>1. m \in Nat /\ m <= Len(rx)
    BY <1>1, LeastFacts
  <2>2. text = SubSeq(rx, 1, m)
    BY DEF First, Occupied
  <2> HIDE DEF m, text
  <2>3. \A i \in 1..m : rx[i] \in Symbols
    BY <1>1, <2>1
  <2>4. text \in Seq(Symbols) /\ Len(text) = m /\ \A i \in 1..m : text[i] = rx[i]
    BY <2>1, <2>2, <2>3
  <2> QED BY <2>4 DEF m
<1>4. work \o First(WorkSz - Len(work)) = text
  BY <1>1, <1>2, <1>3, ConcatEmptySeq
<1>5. /\ Take(text) /\ work' = text
      /\ IF Symbol("eol") \in Range(text) THEN \E r \in Results(text) : End(r)
         ELSE IF Len(text) = WorkSz THEN End("overrun") ELSE pc' = "find" /\ UNCHANGED result
  BY <1>2, <1>4 DEF PageEnd
<1>6. Symbol("eol") \in Range(text) \/ Len(text) = WorkSz
  <2> SUFFICES ASSUME Len(text) # WorkSz PROVE Symbol("eol") \in Range(text)
    OBVIOUS
  <2> HIDE DEF text
  <2>1. Len(text) = Len(rx)
    BY <1>1, <1>3, LeastFacts
  <2>2. PICK i \in 1..Len(rx) : rx[i] = Symbol("eol")
    BY <1>1 DEF Base, WorkInv
  <2>3. i \in DOMAIN text /\ text[i] = Symbol("eol")
    BY <1>3, <2>1, <2>2
  <2> QED BY <2>3 DEF Range
<1>7. pc' = "done"
  BY <1>5, <1>6 DEF End
<1>8. /\ RingInv' /\ \A i \in 1..Len(text) : text[i] = Resp[i + Gone]
      /\ wire' = wire /\ (at + Len(rx) <= Capacity => at' + Len(rx') <= Capacity)
  <2>1. pc # "idle" /\ pc' # "idle" /\ text = First(WorkSz)
    BY <1>1, <1>7
  <2> HIDE DEF text
  <2> QED BY <1>1, <1>5, <2>1, TakeFacts
<1>9. Len(text) <= WorkSz
  <2> HIDE DEF text
  <2> QED BY <1>1, <1>3, LeastFacts
<1>10. \/ Symbol("eol") \in Range(text) /\ result' \in Results(text)
       \/ Symbol("eol") \notin Range(text) /\ result' = "overrun"
  BY <1>5, <1>6 DEF End
<1> QED BY <1>1, <1>3, <1>5, <1>7, <1>8, <1>9, <1>10

LEMMA PageEndKeeps == ASSUME Base, PageEnd PROVE Base'
<1> DEFINE text == First(WorkSz)
<1>1. /\ pc = "result" /\ pc' = "done" /\ work' = text /\ handler = "page"
      /\ RingInv' /\ text \in Seq(Symbols) /\ Len(text) <= WorkSz
      /\ \/ result' \in Results(text)
         \/ result' = "overrun"
  BY PageEndTakes
<1>2. /\ UNCHANGED <<streams, context, handler, size, err, asker, popCnt, taken, readSz, trailerIndx, delivered, whole>>
      /\ \E S \in SUBSET {"swallowed", "early"} : cause' = cause \cup S
  <2>1. UNCHANGED <<streams, context, handler, size, err, asker, popCnt, taken, readSz, trailerIndx, delivered, whole>>
    BY DEF PageEnd, tableVars, callVars, lineVars
  <2>2. PICK A \in {{"swallowed"}, {}}, B \in {{"early"}, {}} : cause' = cause \cup A \cup B
    <3> DEFINE popped == First(WorkSz - Len(work))
    <3> HIDE DEF popped
    <3>1. cause' = cause \cup (IF \E i \in DOMAIN popped : popped[i][1] = "content" THEN {"swallowed"} ELSE {})
                        \cup (IF Symbol("+QHTTPREAD") \in Range(work \o popped) THEN {} ELSE {"early"})
      BY DEF PageEnd, popped
    <3> QED BY <3>1
  <2>3. cause' = cause \cup (A \cup B) /\ A \cup B \in SUBSET {"swallowed", "early"}
    BY <2>2
  <2> QED BY <2>1, <2>3
<1>3. result' \in Outcomes
  BY <1>1 DEF Results, Outcomes
<1>4. TypeInv'
  <2>1. cause' \subseteq Causes
    BY <1>2 DEF Base, TypeInv, Causes
  <2> HIDE DEF text
  <2> QED BY <1>1, <1>2, <1>3, <2>1 DEF Base, TypeInv, PCs, Asked, Untaken
<1>5. WorkInv'
  <2> HIDE DEF text
  <2> QED BY <1>1, <1>2 DEF Base, WorkInv, NotFound
<1>6. OrderInv'
  <2>1. /\ "skipped" \notin cause' => "skipped" \notin cause
        /\ "cut" \notin cause' => "cut" \notin cause
    BY <1>2
  <2>2. Resp' = Resp
    BY <1>2 DEF Resp
  <2> HIDE DEF text
  <2> QED BY <1>1, <1>2, <2>1, <2>2 DEF Base, OrderInv, Follows
<1> QED BY <1>1, <1>4, <1>5, <1>6 DEF Base
-----------------------------------------------------------------------------
LEMMA BaseInductive == ASSUME Base, [Next]_vars PROVE Base'
<1>1. ASSUME NEW c \in Controls, NEW x \in Contexts, InitControl(c, x) PROVE Base'
  BY <1>1, InitControlKeeps
<1>2. FileSizes \subseteq Nat /\ PageSizes \subseteq Nat /\ 0 \in Errors
  BY TransfersAssumption
<1>3. ASSUME NEW n \in FileSizes, Ask("file", fileCtrl, n, 0) PROVE Base'
  BY <1>2, <1>3, AskKeeps
<1>4. ASSUME NEW n \in PageSizes, NEW e \in Errors, NEW c \in Pages, Ask("page", c, n, e) PROVE Base'
  BY <1>2, <1>4, AskKeeps
<1>5. CASE Receive \/ Handler
  BY <1>5, ReceiveKeeps, FindLineKeeps, TakeLineKeeps, FileEndKeeps, FileBlockKeeps, FileSkipKeeps, PageFindKeeps,
     PageBlockKeeps, PageEndKeeps DEF Handler
<1>6. CASE UNCHANGED vars
  <2>1. UNCHANGED <<streams, context, wire, rx, at, pc, handler, size, err, asker, popCnt, taken, readSz, trailerIndx,
                    work, delivered, result, whole, cause>>
    BY <1>6 DEF vars, tableVars, ringVars, callVars, lineVars
  <2>2. RingInv' /\ Gone' = Gone /\ Resp' = Resp
    BY <2>1 DEF Base, RingInv, Gone, Resp
  <2>3. TypeInv' /\ WorkInv'
    BY <2>1, <2>2 DEF Base, TypeInv, WorkInv, NotFound
  <2>4. OrderInv'
    BY <2>1, <2>2 DEF Base, OrderInv, Follows
  <2> QED BY <2>2, <2>3, <2>4 DEF Base
<1> QED BY <1>1, <1>3, <1>4, <1>5, <1>6 DEF Next

(* Theorem 1.  Every variable has its type: the counts of the handlers fit *)
(* their words although they wrap or come from uninitialized memory, and   *)
(* the work buffer of a page takes no more than it holds.                  *)
THEOREM Typed == Spec => []TypeOK
<1>1. Base => TypeOK
  <2> SUFFICES ASSUME Base PROVE TypeOK
    OBVIOUS
  <2>1. \A i \in DOMAIN streams : streams[i] \in Controls \cup {NoStream}
    BY DEF Base, TypeInv
  <2>2. trailerIndx \in 0..Capacity \cup {NotFound}
    BY TransfersAssumption DEF Base, WorkInv
  <2> QED BY <2>1, <2>2 DEF TypeOK, Base, RingInv, TypeInv, WorkInv, Outcomes, Occupied
<1> QED BY <1>1, BaseInit, BaseInductive, PTL DEF Spec

LEMMA PrefixFacts ==
    ASSUME NEW a \in Seq(Symbols), NEW b \in Seq(Symbols), Len(a) <= Len(b), \A i \in 1..Len(a) : a[i] = b[i]
    PROVE  IsPrefix(a, b)
<1> DEFINE n == Len(a)
<1>1. n \in Nat /\ n <= Len(b) /\ Len(b) \in Nat
  OBVIOUS
<1>2. \A i \in 1..n : a[i] \in Symbols /\ b[i] \in Symbols
  BY <1>1
<1>3. n = Len(a) /\ \A i \in 1..n : a[i] = b[i]
  OBVIOUS
<1> HIDE DEF n
<1>4. /\ SubSeq(a, 1, n) \in Seq(Symbols) /\ Len(SubSeq(a, 1, n)) = n
      /\ \A i \in 1..n : SubSeq(a, 1, n)[i] = a[i]
  BY <1>1, <1>2, <1>3
<1>5. /\ SubSeq(b, 1, n) \in Seq(Symbols) /\ Len(SubSeq(b, 1, n)) = n
      /\ \A i \in 1..n : SubSeq(b, 1, n)[i] = b[i]
  BY <1>1, <1>2
<1>6. SubSeq(a, 1, n) = SubSeq(b, 1, n)
  BY <1>3, <1>4, <1>5, SeqEqual
<1> QED BY <1>1, <1>3, <1>6 DEF IsPrefix

(* Theorem 2.  The application gets what follows the line of CONNECT       *)
(* without a gap, in however many pieces the interrupt brings it and       *)
(* wherever the ring wraps, unless the file handler dropped content; and   *)
(* content only, if that line was taken off as it is and no trailer cut.   *)
THEOREM ContentInOrder == Spec => []InOrder
<1>1. Base => InOrder
  <2> SUFFICES ASSUME Base PROVE InOrder
    OBVIOUS
  <2>1. /\ RingInv /\ Resp \in Seq(Symbols) /\ Len(Resp) \in Nat /\ size \in Nat /\ taken \in Nat
        /\ delivered \in Seq(Symbols) /\ Len(delivered) \in Nat /\ handler \in {"file", "page"}
    BY RespFacts, AllOfIt DEF Base, RingInv, TypeInv, OrderInv
  <2>2. ASSUME "skipped" \notin cause
        PROVE  IsPrefix(delivered, SubSeq(Resp, taken + 1, Len(Resp)))
    <3>1. taken + Len(delivered) <= Len(Resp) /\ Follows
      BY <2>2 DEF Base, OrderInv
    <3> DEFINE rest == SubSeq(Resp, taken + 1, Len(Resp))
               l == Len(Resp)
    <3>2. \A i \in (taken + 1)..l : Resp[i] \in Symbols
      BY <2>1
    <3>3. /\ rest \in Seq(Symbols) /\ Len(rest) = l - taken
          /\ \A i \in 1..(l - taken) : rest[i] = Resp[taken + i]
      <4>1. l \in Nat /\ taken \in Nat /\ taken <= l /\ Resp \in Seq(Symbols)
        BY <2>1, <3>1
      <4> DEFINE k == taken + 1
      <4>2. /\ SubSeq(Resp, k, l) \in Seq(Symbols)
            /\ Len(SubSeq(Resp, k, l)) = IF k <= l THEN l - k + 1 ELSE 0
            /\ \A i \in 1..(l - k + 1) : SubSeq(Resp, k, l)[i] = Resp[k + i - 1]
        <5>1. k \in Int /\ l \in Int /\ \A i \in k..l : Resp[i] \in Symbols
          BY <3>2, <4>1
        <5> HIDE DEF k, l
        <5> QED BY <5>1, SubSeqProperties
      <4>3. (IF k <= l THEN l - k + 1 ELSE 0) = l - taken /\ l - k + 1 = l - taken
        <5> HIDE DEF l
        <5> QED BY <4>1
      <4>4. \A i \in 1..(l - taken) : k + i - 1 = taken + i
        <5> HIDE DEF l
        <5> QED BY <4>1
      <4> QED BY <4>2, <4>3, <4>4
    <3>4. Len(delivered) <= Len(rest) /\ \A i \in 1..Len(delivered) : delivered[i] = rest[i]
      <4>1. Len(delivered) <= l - taken /\ l \in Nat
        BY <2>1, <3>1
      <4> HIDE DEF rest, l
      <4>2. \A i \in 1..Len(delivered) : i \in 1..(l - taken)
        BY <2>1, <4>1
      <4> QED BY <3>1, <3>3, <4>1, <4>2 DEF Follows
    <3> HIDE DEF rest
    <3>5. IsPrefix(delivered, rest)
      BY <2>1, <3>3, <3>4, PrefixFacts
    <3> QED BY <3>5 DEF rest
  <2>3. ASSUME taken = 3, cause \cap {"skipped", "cut"} = {} PROVE IsPrefix(delivered, Content(size))
    <3>1. Len(delivered) <= size /\ Follows
      BY <2>1, <2>3 DEF Base, OrderInv
    <3>2. /\ Content(size) \in Seq(Symbols) /\ Len(Content(size)) = size
          /\ \A i \in 1..size : Content(size)[i] = <<"content", i>>
      BY <2>1, ContentFacts
    <3>3. ASSUME NEW i \in 1..Len(delivered) PROVE delivered[i] = Content(size)[i]
      <4>1. i \in 1..size /\ taken + i = i + 3
        BY <2>1, <2>3, <3>1
      <4>2. Resp[i + 3] = <<"content", i>>
        BY <2>1, <4>1, RespFacts
      <4> QED BY <3>1, <3>2, <4>1, <4>2 DEF Follows
    <3> QED BY <2>1, <3>1, <3>2, <3>3, PrefixFacts
  <2>4. Len(Connect) = 3
    BY PartFacts
  <2> QED BY <2>2, <2>3, <2>4 DEF InOrder, Resp
<1> QED BY <1>1, BaseInit, BaseInductive, PTL DEF Spec

-----------------------------------------------------------------------------
(* Whose page it is.  The lookup takes the first HTTP control with the     *)
(* context; the one that asked is one of those.                            *)
LEMMA AskerStep == ASSUME Base, ToAsker, [Next]_vars PROVE ToAsker'
<1>1. CASE pc' \in Asked
  BY <1>1 DEF ToAsker, Asked
<1>2. CASE pc' \notin Asked /\ FindLine
  <2> SUFFICES ASSUME handler' = "page", receiver' \notin {asker', NoStream}
               PROVE  /\ receiver' \in Pages
                      /\ \A i \in DOMAIN streams' : streams'[i] = asker' => \E j \in 0..(i - 1) : streams'[j] = receiver'
    BY DEF ToAsker
  <2>1. /\ UNCHANGED <<streams, context, handler, asker>>
        /\ receiver' \in ltem_getStreamFromCntxt(context[asker], Pages)
    BY <1>2 DEF FindLine, tableVars, callVars
  <2>2. asker \in Pages /\ DOMAIN streams = 0..3
    BY <2>1 DEF Base, TypeInv, streamCnt
  <2> DEFINE hits == {i \in DOMAIN streams : streams[i] \in Pages /\ context[streams[i]] = context[asker]}
  <2>3. hits \in SUBSET Nat
    BY <2>2
  <2>4. hits # {} /\ receiver' = streams[Min(hits)]
    BY <2>1 DEF ltem_getStreamFromCntxt
  <2>5. Min(hits) \in hits /\ \A y \in hits : Min(hits) <= y
    BY <2>3, <2>4, MinFacts
  <2>6. PICK k \in hits : k = Min(hits)
    BY <2>5
  <2>7. receiver' = streams[k] /\ streams[k] \in Pages /\ k \in 0..3 /\ \A y \in hits : k <= y
    BY <2>2, <2>4, <2>5, <2>6
  <2>8. ASSUME NEW i \in DOMAIN streams, streams[i] = asker PROVE k \in 0..(i - 1)
    <3>1. i \in hits /\ i \in 0..3
      BY <2>2, <2>8
    <3>2. k <= i /\ k # i
      BY <2>1, <2>7, <2>8, <3>1
    <3> QED BY <2>7, <3>1, <3>2
  <2> QED BY <2>1, <2>7, <2>8
<1>3. CASE pc' \notin Asked /\ ~FindLine
  <2>1. UNCHANGED <<streams, handler, asker, receiver>> /\ pc \notin Asked
    BY <1>3 DEF Next, InitControl, Ask, Receive, Handler, TakeLine, FileSuccess, FileBlock, FileSkip, FileTimeout,
                PageFind, PageBlock, PageEnd, vars, tableVars, callVars, lineVars, Asked
  <2> QED BY <2>1 DEF ToAsker, Asked
<1> QED BY <1>1, <1>2, <1>3

(* Theorem 3.  A page goes to the control that asked for it, unless        *)
(* another HTTP control stands before it in the table or took its place.   *)
THEOREM PageReachesAsker == Spec => []ToAsker
<1>1. Init => ToAsker
  BY DEF Init, ToAsker
<1>2. Base /\ ToAsker /\ [Next]_vars => ToAsker'
  BY AskerStep
<1> QED BY <1>1, <1>2, BaseInit, BaseInductive, PTL DEF Spec
-----------------------------------------------------------------------------
(* A transfer that lies in the ring in one piece.  A page's result is read *)
(* in full only if the work buffer takes the trailer and the result, and   *)
(* for what it is only if no error is a number whose other digits are 0.   *)
WorkHolds  == WorkSz >= 7
ErrorsShow == \A e \in Errors : e = 0 \/ ErrorRead(e) # 0

LEMMA FitsFacts ==
    /\ handler = "file" => (Fits <=> size + 3 < Word)
    /\ handler = "page" => (Fits <=> size <= defaultBlockSz)
BY PartFacts DEF Fits, file__readTrailerSz

LEMMA FullFindLine == ASSUME Base, FullInv, FindLine PROVE FullInv'
<1>1. /\ pc = "connect" /\ ~whole /\ RingInv /\ Gone = 0 /\ size \in Nat
      /\ UNCHANGED <<wire, rx, at, handler, size, err>>
  BY DEF FindLine, ringVars, callVars, Base, TypeInv, Asked, RingInv
<1>2. CASE pc' = "done"
  BY <1>1, <1>2 DEF FindLine, End, FullInv, Whole
<1>3. CASE pc' # "done"
  <2>1. /\ pc' = "line" /\ popCnt' = uint8(cbffr_find(<<Symbol("cr")>>))
        /\ whole' = (wire = <<>> /\ at + Len(rx) <= Capacity)
    BY <1>3 DEF FindLine, End, Occupied
  <2>2. wire = <<>> => Len(rx) >= 2
    <3>1. Len(Resp) = Gone + Len(rx) + Len(wire) /\ Len(rx) \in Nat
      BY <1>1, AllOfIt
    <3>2. Len(Resp) = size + (IF handler = "file" THEN 6 ELSE 10)
      BY <1>1, RespFacts
    <3>3. Len(Resp) >= 6
      BY <1>1, <3>2
    <3>4. wire = <<>> => Len(wire) = 0
      OBVIOUS
    <3> QED BY <1>1, <3>1, <3>3, <3>4
  <2>3. whole' => popCnt' = 1
    BY <1>1, <2>1, <2>2, LineEnd, ByteFacts
  <2> QED BY <1>1, <2>1, <2>3 DEF FullInv, Whole
<1> QED BY <1>2, <1>3

LEMMA FullTakeLine == ASSUME WorkHolds, Base, FullInv, TakeLine PROVE FullInv'
<1> SUFFICES ASSUME Whole' PROVE FullInv'
  BY DEF FullInv
<1> DEFINE line == First(popCnt + 2)
<1>1. /\ pc = "line" /\ RingInv /\ UNCHANGED callVars
      /\ Len(line) = Least(popCnt + 2, Len(rx))
      /\ Gone' = Len(line) /\ wire' = wire /\ (at + Len(rx) <= Capacity => at' + Len(rx') <= Capacity)
      /\ Len(line) >= 2 => Symbol("cr") \in Range(line)
  BY LineTaken
<1>2. Whole /\ delivered' = delivered /\ delivered = <<>> /\ Gone = 0 /\ size \in Nat /\ handler \in {"file", "page"}
  BY <1>1 DEF TakeLine, Base, TypeInv, Untaken, RingInv, Whole, Fits, callVars
<1>3. wire = <<>> /\ at + Len(rx) <= Capacity /\ popCnt = 1
  BY <1>1, <1>2 DEF FullInv
<1>4. Len(line) = 3
  <2>1. Len(Resp) = Gone + Len(rx) + Len(wire) /\ Len(rx) \in Nat
    BY <1>1, AllOfIt
  <2>2. Len(Resp) = size + (IF handler = "file" THEN 6 ELSE 10) /\ Len(wire) = 0
    BY <1>1, <1>3, RespFacts
  <2>3. Len(Resp) >= 6 /\ Len(rx) >= 3
    BY <1>2, <2>1, <2>2
  <2>4. Least(3, Len(rx)) = 3
    BY <2>1, <2>3, LeastFacts
  <2> HIDE DEF line
  <2>5. popCnt + 2 = 3
    BY <1>3
  <2> QED BY <1>1, <2>4, <2>5
<1>5. /\ pc' = (IF handler = "file" THEN "wait" ELSE "find")
      /\ handler = "file" => readSz' = size % Word
  <2>1. ~(Len(line) > WorkSz) /\ Symbol("cr") \in Range(line)
    <3>1. WorkSz \in Nat /\ 7 <= WorkSz
      BY TransfersAssumption DEF WorkHolds
    <3> HIDE DEF line
    <3>2. ~(3 > WorkSz) /\ 3 >= 2
      BY <3>1
    <3> QED BY <1>1, <1>4, <3>2
  <2>2. TakesBoth(popCnt) = popCnt + 2
    BY DEF TakesBoth
  <2> HIDE DEF line
  <2>3. line = First(TakesBoth(popCnt))
    BY <2>2 DEF line
  <2> QED BY <1>2, <2>1, <2>3 DEF TakeLine
<1>6. handler = "file" => readSz' = size
  <2>1. Word \in Nat \ {0}
    BY TransfersAssumption
  <2>2. size + 3 < Word => size % Word = size
    BY <1>2, <2>1
  <2> QED BY <1>2, <1>5, <2>2, FitsFacts DEF Whole
<1>7. Got(0)'
  BY <1>2 DEF Got
<1> HIDE DEF line
<1> QED BY <1>1, <1>2, <1>3, <1>4, <1>5, <1>6, <1>7 DEF FullInv, callVars

LEMMA WholeRing ==
    ASSUME Base, FullInv, Whole, Gone \in {3, size + 3}
    PROVE  /\ wire = <<>> /\ at + Len(rx) <= Capacity /\ RingInv /\ size \in Nat /\ Len(rx) \in Nat
           /\ Len(rx) = (IF Gone = 3 THEN size ELSE 0) + (IF handler = "file" THEN 3 ELSE 7)
<1>1. wire = <<>> /\ at + Len(rx) <= Capacity /\ RingInv /\ size \in Nat /\ Len(rx) \in Nat
  BY DEF Base, FullInv, RingInv
<1>2. Len(Resp) = size + (IF handler = "file" THEN 6 ELSE 10) /\ Len(wire) = 0
  BY <1>1, RespFacts
<1>3. Gone = Len(Resp) - Len(rx) - Len(wire)
  BY DEF Gone
<1>4. Len(rx) = size + (IF handler = "file" THEN 6 ELSE 10) - Gone
  <2> DEFINE l == Len(Resp)
             k == IF handler = "file" THEN 6 ELSE 10
  <2>1. l = size + k /\ Gone = l - Len(rx) - Len(wire) /\ k \in Nat /\ Len(wire) = 0
    BY <1>2, <1>3
  <2> HIDE DEF l, k
  <2>2. Len(rx) = size + k - Gone
    BY <1>1, <2>1
  <2> QED BY <2>2 DEF k
<1>5. CASE handler = "file"
  BY <1>1, <1>4, <1>5
<1>6. CASE handler # "file"
  BY <1>1, <1>4, <1>6
<1> QED BY <1>1, <1>5, <1>6

LEMMA FullFile == ASSUME Base, FullInv, FileSuccess \/ FileBlock \/ FileSkip \/ FileTimeout PROVE FullInv'
<1> SUFFICES ASSUME Whole' PROVE FullInv'
  BY DEF FullInv
<1>1. /\ Whole /\ handler' = "file" /\ handler = "file" /\ RingInv /\ UNCHANGED <<size, err>> /\ size \in Nat
      /\ Len(rx) \in Nat
  <2>1. pc \in {"wait", "trailer"} /\ UNCHANGED <<whole, callVars>>
    BY DEF FileSuccess, FileBlock, FileSkip, FileTimeout, lineVars
  <2>2. handler = "file" /\ RingInv /\ size \in Nat /\ Len(rx) \in Nat
    BY <2>1 DEF Base, TypeInv, RingInv
  <2> QED BY <2>1, <2>2 DEF callVars, Whole, Fits
<1>2. CASE FileBlock
  <2>1. pc = "wait" /\ pc' = "trailer" /\ Len(rx) > 0 /\ UNCHANGED callVars
    BY <1>2 DEF FileBlock, Occupied
  <2>2. Gone = 3 /\ Got(0) /\ readSz = size
    BY <1>1, <2>1 DEF FullInv
  <2>3. wire = <<>> /\ at + Len(rx) <= Capacity /\ Len(rx) = size + 3
    BY <1>1, <2>2, WholeRing
  <2>4. BlockOf(Requested) = First(size)
    <3>1. size <= Len(rx)
      BY <1>1, <2>3
    <3>2. Least(size, Capacity - at) = size /\ BlockOf(size) = First(Least(size, Capacity - at))
      BY <1>1, <2>3, <3>1, BlockIsFirst
    <3> QED BY <2>2, <3>2 DEF Requested
  <2> DEFINE block == First(size)
  <2>5. Take(block) /\ delivered' = delivered \o block
    BY <1>2, <2>4 DEF FileBlock
  <2> HIDE DEF block
  <2>6. /\ RingInv' /\ block \in Seq(Symbols) /\ Len(block) = Least(size, Len(rx))
        /\ \A i \in 1..Len(block) : block[i] = Resp[i + Gone]
        /\ Gone' = Gone + Len(block) /\ wire' = wire /\ at' + Len(rx') <= Capacity
    <3>1. pc # "idle" /\ pc' # "idle" /\ block = First(size)
      BY <2>1 DEF block
    <3> QED BY <1>1, <2>1, <2>3, <2>5, <3>1, TakeFacts
  <2>7. Len(block) = size
    BY <1>1, <2>3, <2>6, LeastFacts
  <2>8. Got(size)'
    <3>1. delivered \in Seq(Symbols) /\ Len(delivered) = 0
      BY <2>2 DEF Got, Base, OrderInv
    <3>2. Len(delivered) + Len(block) <= size /\ \A i \in 1..Len(block) : block[i] = Resp[i + Len(delivered) + 3]
      <4>1. ASSUME NEW i \in 1..Len(block) PROVE block[i] = Resp[i + Len(delivered) + 3]
        <5>1. i + Len(delivered) + 3 = i + Gone
          BY <2>2, <3>1
        <5> QED BY <2>6, <5>1
      <4> QED BY <1>1, <2>7, <3>1, <4>1
    <3>3. Got(Len(delivered))
      BY <2>2, <3>1
    <3>4. Len(delivered') = Len(delivered) + Len(block) /\ Got(Len(delivered))'
      BY <1>1, <2>5, <2>6, <3>1, <3>2, <3>3, GoesOnInOrder
    <3>5. Len(delivered') = size'
      BY <1>1, <2>7, <3>1, <3>4
    <3> QED BY <3>4, <3>5 DEF Got
  <2>9. Gone' = size' + 3 /\ readSz' = 0
    <3>1. readSz' = readSz - Len(block)
      BY <1>2, <2>4 DEF FileBlock, block
    <3> QED BY <1>1, <2>2, <2>6, <2>7, <3>1
  <2> QED BY <1>1, <2>1, <2>3, <2>6, <2>8, <2>9 DEF FullInv
<1>3. CASE FileSkip
  <2>1. pc = "trailer" /\ pc' = "wait" /\ UNCHANGED <<callVars, delivered, readSz>>
    BY <1>3 DEF FileSkip
  <2>2. Gone = size + 3 /\ Got(size) /\ readSz = 0
    BY <1>1, <2>1 DEF FullInv
  <2>3. wire = <<>> /\ at + Len(rx) <= Capacity /\ Len(rx) = 3
    <3>1. wire = <<>> /\ at + Len(rx) <= Capacity /\ Len(rx) = (IF Gone = 3 THEN size ELSE 0) + 3
      BY <1>1, <2>2, WholeRing
    <3>2. Gone = 3 => size = 0
      BY <1>1, <2>2
    <3> QED BY <1>1, <3>1, <3>2
  <2>4. Take(First(3))
    <3>1. file__readTrailerSz = 3
      BY PartFacts DEF file__readTrailerSz
    <3> QED BY <1>3, <2>3, <3>1 DEF FileSkip, Occupied
  <2>5. /\ RingInv' /\ Len(First(3)) = Least(3, Len(rx)) /\ wire' = wire /\ at' + Len(rx') <= Capacity
        /\ Len(rx') = Len(rx) - Len(First(3))
    <3>1. pc # "idle" /\ pc' # "idle" /\ 3 \in Nat
      BY <2>1
    <3> QED BY <1>1, <2>1, <2>3, <2>4, <3>1, TakeFacts
  <2>6. Len(rx') = 0
    <3>1. Least(3, Len(rx)) = 3
      BY <1>1, <2>3, LeastFacts
    <3>2. Len(First(3)) = 3
      BY <2>5, <3>1
    <3> QED BY <2>3, <2>5, <3>2
  <2>7. Got(size)'
    BY <1>1, <2>1, <2>2 DEF Got
  <2> QED BY <1>1, <2>1, <2>3, <2>5, <2>6, <2>7 DEF FullInv
<1>4. CASE FileTimeout
  <2>1. pc = "wait" /\ pc' = "done" /\ Len(rx) = 0 /\ UNCHANGED <<wire, rx, at, delivered>>
    BY <1>4 DEF FileTimeout, Occupied, End, Stay, ringVars
  <2>2. ~(Gone = 3)
    <3> SUFFICES ASSUME Gone = 3 PROVE FALSE
      OBVIOUS
    <3>1. Len(rx) = size + 3
      BY <1>1, WholeRing
    <3> QED BY <1>1, <2>1, <3>1
  <2>3. Got(size) /\ wire = <<>> /\ at + Len(rx) <= Capacity
    BY <1>1, <2>1, <2>2 DEF FullInv
  <2> QED BY <1>1, <2>1, <2>3 DEF FullInv, Got
<1>5. CASE FileSuccess
  <2>1. pc = "wait" /\ (readSz + 3) % Word = 0
    BY <1>5, PartFacts DEF FileSuccess, streamSz, file__readTrailerSz
  <2>2. size + 3 < Word /\ Word \in Nat
    BY <1>1, FitsFacts, TransfersAssumption DEF Whole
  <2>3. readSz = size \/ readSz = 0
    BY <1>1, <2>1 DEF FullInv
  <2>4. (size + 3) % Word = size + 3 /\ 3 % Word = 3
    BY <1>1, <2>2
  <2> QED BY <1>1, <2>1, <2>3, <2>4
<1> QED BY <1>2, <1>3, <1>4, <1>5

LEMMA FullFind ==
    ASSUME Base, FullInv, Whole, PageFind
    PROVE  trailerIndx' = size
<1>1. /\ pc = "find" /\ trailerIndx' = cbffr_find(PageTrailer) /\ handler = "page"
  BY DEF PageFind, Base, TypeInv
<1>2. Gone = 3
  BY <1>1 DEF FullInv
<1>3. RingInv /\ size \in Nat /\ Len(rx) \in Nat /\ Len(rx) = size + 7
  BY <1>1, <1>2, WholeRing
<1>4. \A i \in 1..Len(rx) : rx[i] = Resp[i + 3] /\ rx[i] \in Symbols
  BY <1>1, <1>2, <1>3 DEF RingInv
<1>5. SubSeq(rx, size + 1, size + 4) = PageTrailer
  <2>1. \A i \in (size + 1)..(size + 4) : rx[i] \in Symbols
    BY <1>3, <1>4
  <2>2. /\ SubSeq(rx, size + 1, size + 4) \in Seq(Symbols) /\ Len(SubSeq(rx, size + 1, size + 4)) = 4
        /\ \A i \in 1..4 : SubSeq(rx, size + 1, size + 4)[i] = rx[size + i]
    <3>1. (size + 4) - (size + 1) + 1 = 4 /\ size + 1 <= size + 4 /\ \A i \in 1..4 : (size + 1) + i - 1 = size + i
      BY <1>3
    <3>2. size + 1 \in Int /\ size + 4 \in Int
      BY <1>3
    <3> QED BY <2>1, <3>1, <3>2, SubSeqProperties
  <2>3. /\ rx[size + 1] = Resp[size + 4] /\ rx[size + 2] = Resp[size + 5]
        /\ rx[size + 3] = Resp[size + 6] /\ rx[size + 4] = Resp[size + 7]
    <3>1. ASSUME NEW i \in 1..4 PROVE rx[size + i] = Resp[size + (i + 3)]
      <4>1. size + i \in 1..Len(rx) /\ (size + i) + 3 = size + (i + 3)
        BY <1>3
      <4> QED BY <1>4, <4>1
    <3>2. rx[size + 1] = Resp[size + (1 + 3)] /\ rx[size + 2] = Resp[size + (2 + 3)]
      BY <3>1
    <3>3. rx[size + 3] = Resp[size + (3 + 3)] /\ rx[size + 4] = Resp[size + (4 + 3)]
      BY <3>1
    <3> QED BY <3>2, <3>3
  <2>4. \A i \in 1..4 : SubSeq(rx, size + 1, size + 4)[i] = PageTrailer[i]
    <3>1. /\ SubSeq(rx, size + 1, size + 4)[1] = PageTrailer[1] /\ SubSeq(rx, size + 1, size + 4)[2] = PageTrailer[2]
          /\ SubSeq(rx, size + 1, size + 4)[3] = PageTrailer[3] /\ SubSeq(rx, size + 1, size + 4)[4] = PageTrailer[4]
      BY <1>1, <1>3, <2>2, <2>3, RespFacts, PartFacts
    <3> DEFINE found == SubSeq(rx, size + 1, size + 4)
    <3> HIDE DEF found
    <3>2. /\ found[1] = PageTrailer[1] /\ found[2] = PageTrailer[2] /\ found[3] = PageTrailer[3]
          /\ found[4] = PageTrailer[4]
      BY <3>1 DEF found
    <3>3. \A i \in 1..4 : i = 1 \/ i = 2 \/ i = 3 \/ i = 4
      OBVIOUS
    <3>4. \A i \in 1..4 : found[i] = PageTrailer[i]
      BY <3>2, <3>3
    <3> QED BY <3>4 DEF found
  <2> QED BY <2>2, <2>4, PartFacts, SeqEqual
<1> DEFINE t == cbffr_find(PageTrailer)
<1>6. /\ t \in Nat /\ t + 4 <= Len(rx) /\ \A i \in 1..t : SubSeq(rx, i, i + 4 - 1) # PageTrailer
  <2>1. 4 \in Nat \ {0} /\ Len(PageTrailer) = 4
    BY PartFacts
  <2>2. size + 1 \in 1..(Len(rx) + 1 - 4) /\ (size + 1) + 4 - 1 = size + 4
    BY <1>3
  <2>3. SubSeq(rx, size + 1, (size + 1) + 4 - 1) = PageTrailer
    BY <1>5, <2>2
  <2>4. \/ t = NotFound /\ \A i \in 1..(Len(rx) + 1 - 4) : SubSeq(rx, i, i + 4 - 1) # PageTrailer
        \/ /\ t \in Nat /\ t + 4 <= Len(rx)
           /\ \A i \in 1..t : SubSeq(rx, i, i + 4 - 1) # PageTrailer
    BY <1>3, <2>1, FindFacts
  <2> HIDE DEF t
  <2> QED BY <2>2, <2>3, <2>4
<1>7. rx[t + 1] = Symbol("eol")
  <2>1. t # NotFound
    BY <1>3, <1>6, TransfersAssumption DEF NotFound, RingInv
  <2> QED BY <1>3, <2>1, TrailerFound
<1> HIDE DEF t
<1>8. ~(t > size)
  <2> SUFFICES ASSUME t > size PROVE FALSE
    OBVIOUS
  <2>1. size + 1 \in 1..t /\ (size + 1) + 4 - 1 = size + 4
    BY <1>3, <1>6
  <2>2. SubSeq(rx, size + 1, (size + 1) + 4 - 1) # PageTrailer
    BY <1>6, <2>1
  <2> QED BY <1>5, <2>1, <2>2
<1>9. ~(t < size)
  <2> SUFFICES ASSUME t < size PROVE FALSE
    OBVIOUS
  <2>1. t + 1 \in 1..size /\ t + 1 \in 1..Len(rx) /\ t + 1 \in Nat
    BY <1>3, <1>6
  <2>2. rx[t + 1] = Resp[(t + 1) + 3] /\ Resp[(t + 1) + 3] = <<"content", t + 1>>
    BY <1>3, <1>4, <2>1, RespFacts
  <2>3. Symbol("eol") # <<"content", t + 1>>
    BY <2>1, SymbolFacts DEF Words
  <2> QED BY <1>7, <2>2, <2>3
<1>10. t = size
  BY <1>3, <1>6, <1>8, <1>9
<1> QED BY <1>1, <1>10 DEF t

LEMMA FullBlock ==
    ASSUME Base, FullInv, Whole, PageBlock
    PROVE  /\ pc' = "result" /\ Gone' = size + 3 /\ Got(size)'
           /\ wire' = <<>> /\ at' + Len(rx') <= Capacity
<1>1. /\ pc = "block" /\ handler = "page" /\ UNCHANGED <<size, trailerIndx>>
      /\ pc' = IF trailerIndx = NotFound THEN "find" ELSE "result"
  BY DEF PageBlock, callVars, Base, TypeInv
<1>2. Gone = 3 /\ Got(0) /\ trailerIndx = size
  BY <1>1 DEF FullInv
<1>3. RingInv /\ size \in Nat /\ Len(rx) \in Nat /\ wire = <<>> /\ at + Len(rx) <= Capacity
  BY <1>1, <1>2, WholeRing
<1>4. trailerIndx # NotFound /\ size <= defaultBlockSz
  BY <1>1, <1>2, <1>3, FitsFacts, TransfersAssumption DEF defaultBlockSz, NotFound, Whole
<1>5. PICK block \in Seq(Symbols) :
        /\ delivered' = delivered \o block
        /\ \A i \in 1..Len(block) : block[i] = Resp[i + Gone]
        /\ Gone' = Gone + Len(block) /\ wire' = wire
        /\ at + Len(rx) <= Capacity =>
               at' + Len(rx') <= Capacity /\ Len(block) = Least(trailerIndx, defaultBlockSz)
  BY <1>4, PageBlockRing
<1>6. Len(block) = size
  <2>1. defaultBlockSz \in Nat
    BY TransfersAssumption DEF defaultBlockSz
  <2>2. Least(size, defaultBlockSz) = size
    BY <1>3, <1>4, <2>1, LeastFacts
  <2> QED BY <1>2, <1>3, <1>5, <2>2
<1>7. Got(size)'
  <2>1. delivered \in Seq(Symbols) /\ Len(delivered) = 0
    BY <1>2 DEF Got, Base, OrderInv
  <2>2. ASSUME NEW i \in 1..Len(block) PROVE block[i] = Resp[i + Len(delivered) + 3]
    <3>1. i + Len(delivered) + 3 = i + Gone
      BY <1>2, <2>1
    <3> QED BY <1>5, <3>1
  <2>3. Got(Len(delivered)) /\ Len(delivered) + Len(block) <= size
    BY <1>2, <1>3, <1>6, <2>1
  <2>4. Len(delivered') = Len(delivered) + Len(block) /\ Got(Len(delivered))'
    BY <1>3, <1>5, <2>1, <2>2, <2>3, GoesOnInOrder
  <2>5. Len(delivered') = size'
    BY <1>1, <1>3, <1>6, <2>1, <2>4
  <2> QED BY <2>4, <2>5 DEF Got
<1> QED BY <1>1, <1>2, <1>3, <1>4, <1>5, <1>6, <1>7

LEMMA FullEnd ==
    ASSUME WorkHolds, ErrorsShow, Base, FullInv, Whole, PageEnd
    PROVE  /\ pc' = "done" /\ Got(size)' /\ result' = (IF err = 0 THEN "success" ELSE "error")
           /\ wire' = <<>> /\ at' + Len(rx') <= Capacity
<1> DEFINE text == First(WorkSz)
<1>1. /\ pc = "result" /\ pc' = "done" /\ handler = "page" /\ UNCHANGED <<delivered, size>>
      /\ text \in Seq(Symbols) /\ Len(text) = Least(WorkSz, Len(rx))
      /\ \A i \in 1..Len(text) : text[i] = Resp[i + Gone]
      /\ wire' = wire /\ (at + Len(rx) <= Capacity => at' + Len(rx') <= Capacity)
      /\ \/ Symbol("eol") \in Range(text) /\ result' \in Results(text)
         \/ Symbol("eol") \notin Range(text) /\ result' = "overrun"
  BY PageEndTakes DEF PageEnd, callVars
<1> HIDE DEF text
<1>2. Gone = size + 3 /\ Got(size)
  BY <1>1 DEF FullInv
<1>3. /\ RingInv /\ size \in Nat /\ Len(rx) \in Nat /\ wire = <<>> /\ at + Len(rx) <= Capacity
      /\ Len(rx) = 7
  <2>1. /\ RingInv /\ size \in Nat /\ Len(rx) \in Nat /\ wire = <<>> /\ at + Len(rx) <= Capacity
        /\ Len(rx) = (IF Gone = 3 THEN size ELSE 0) + 7
    BY <1>1, <1>2, WholeRing
  <2>2. Gone = 3 => size = 0
    BY <1>2, <2>1
  <2> QED BY <2>1, <2>2
<1>4. Len(text) = 7
  <2>1. WorkSz \in Nat /\ 7 <= WorkSz
    BY TransfersAssumption DEF WorkHolds
  <2>2. Least(WorkSz, Len(rx)) = Len(rx)
    BY <1>3, <2>1, LeastFacts
  <2> QED BY <1>1, <1>3, <2>2
<1>5. /\ text[1] = Symbol("eol") /\ text[2] = Symbol("OK") /\ text[3] = Symbol("eol") /\ text[4] = Symbol("eol")
      /\ text[5] = Symbol("+QHTTPREAD") /\ text[6] = <<"err", err>> /\ text[7] = Symbol("eol")
  <2>1. ASSUME NEW i \in 1..7 PROVE text[i] = Resp[size + (i + 3)]
    <3>1. i \in 1..Len(text) /\ i + Gone = size + (i + 3)
      BY <1>2, <1>3, <1>4
    <3> QED BY <1>1, <3>1
  <2>2. /\ text[1] = Resp[size + (1 + 3)] /\ text[2] = Resp[size + (2 + 3)] /\ text[3] = Resp[size + (3 + 3)]
        /\ text[4] = Resp[size + (4 + 3)] /\ text[5] = Resp[size + (5 + 3)] /\ text[6] = Resp[size + (6 + 3)]
        /\ text[7] = Resp[size + (7 + 3)]
    BY <2>1
  <2>3. /\ text[1] = Resp[size + 4] /\ text[2] = Resp[size + 5] /\ text[3] = Resp[size + 6] /\ text[4] = Resp[size + 7]
        /\ text[5] = Resp[size + 8] /\ text[6] = Resp[size + 9] /\ text[7] = Resp[size + 10]
    BY <2>2
  <2> QED BY <1>1, <1>3, <2>3, RespFacts
<1>6. DOMAIN text = 1..7
  BY <1>1, <1>4
<1>7. Symbol("eol") \in Range(text) /\ Symbol("+QHTTPREAD") \in Range(text)
  <2>1. 1 \in DOMAIN text /\ 5 \in DOMAIN text
    BY <1>6
  <2> QED BY <1>5, <2>1 DEF Range
<1>8. /\ err \in Nat /\ text[6][1] = "err" /\ text[6][2] = err
      /\ \A i \in 1..7 : text[i][1] = "err" => i = 6
  <2>1. err \in Nat
    BY <1>3, RespFacts
  <2>2. <<"err", err>>[1] = "err" /\ <<"err", err>>[2] = err
    BY <2>1, SymbolFacts
  <2>3. Symbol("eol")[1] # "err" /\ Symbol("OK")[1] # "err" /\ Symbol("+QHTTPREAD")[1] # "err"
    BY SymbolFacts DEF Words
  <2>4. \A i \in 1..7 : i = 6 \/ text[i] \in {Symbol("eol"), Symbol("OK"), Symbol("+QHTTPREAD")}
    BY <1>5
  <2>5. text[6][1] = "err" /\ text[6][2] = err
    BY <1>5, <2>2
  <2>6. \A i \in 1..7 : text[i][1] = "err" => i = 6
    BY <2>3, <2>4
  <2> QED BY <2>1, <2>5, <2>6
<1>9. (\E i \in {j \in DOMAIN text : text[j][1] = "err"} : ErrorRead(text[i][2]) # 0) <=> ErrorRead(err) # 0
  BY <1>6, <1>8
<1>10. result' = IF ErrorRead(err) # 0 THEN "error" ELSE "success"
  BY <1>1, <1>7, <1>9 DEF Results
<1>11. ErrorRead(err) # 0 <=> err # 0
  <2>1. ErrorRead(0) = 0
    BY DEF ErrorRead
  <2>2. err \in Errors
    BY <1>3 DEF RingInv
  <2> QED BY <2>1, <2>2 DEF ErrorsShow
<1> QED BY <1>1, <1>2, <1>3, <1>10, <1>11 DEF Got

LEMMA FullInductive ==
    ASSUME WorkHolds, ErrorsShow, Base, FullInv, [Next]_vars PROVE FullInv'
<1>1. CASE ~Whole'
  BY <1>1 DEF FullInv
<1>2. CASE FindLine
  BY <1>2, FullFindLine
<1>3. CASE TakeLine
  BY <1>3, FullTakeLine
<1>4. CASE FileSuccess \/ FileBlock \/ FileSkip \/ FileTimeout
  BY <1>4, FullFile
<1>5. CASE Whole' /\ (PageFind \/ PageBlock \/ PageEnd)
  <2>1. Whole /\ handler = "page" /\ handler' = "page" /\ UNCHANGED <<size, err>>
    <3>1. handler = "page" /\ UNCHANGED <<whole, handler, size, err>>
      BY <1>5 DEF PageFind, PageBlock, PageEnd, callVars, lineVars, Base, TypeInv
    <3> QED BY <1>5, <3>1 DEF Whole, Fits
  <2>2. CASE PageFind
    <3>1. pc = "find" /\ pc' = "block" /\ UNCHANGED <<wire, rx, at, delivered>>
      BY <2>2 DEF PageFind, ringVars
    <3>2. Gone' = Gone
      BY <2>1, <3>1 DEF Gone, Resp
    <3>3. Gone = 3 /\ Got(0) /\ trailerIndx' = size
      BY <2>1, <2>2, <3>1, FullFind DEF FullInv
    <3>4. wire = <<>> /\ at + Len(rx) <= Capacity
      BY <2>1 DEF FullInv
    <3> QED BY <2>1, <3>1, <3>2, <3>3, <3>4 DEF FullInv, Got
  <2>3. CASE PageBlock
    <3>1. pc' = "result" /\ Gone' = size + 3 /\ Got(size)' /\ wire' = <<>> /\ at' + Len(rx') <= Capacity
      BY <2>1, <2>3, FullBlock
    <3>2. size' = size
      BY <2>1
    <3> QED BY <2>1, <3>1, <3>2 DEF FullInv, Got
  <2>4. CASE PageEnd
    <3>1. /\ pc' = "done" /\ Got(size)' /\ result' = (IF err = 0 THEN "success" ELSE "error")
          /\ wire' = <<>> /\ at' + Len(rx') <= Capacity
      BY <2>1, <2>4, FullEnd
    <3> QED BY <2>1, <3>1 DEF FullInv, Got
  <2> QED BY <1>5, <2>2, <2>3, <2>4
<1>6. CASE Receive
  <2>1. UNCHANGED <<whole, handler, size>> /\ wire # <<>>
    BY <1>6 DEF Receive, lineVars, callVars
  <2> QED BY <2>1 DEF FullInv, Whole, Fits
<1>7. CASE (\E c \in Controls, x \in Contexts : InitControl(c, x)) \/ (\E h, c, n, e : Ask(h, c, n, e))
  <2>1. pc = "idle" /\ whole' = whole
    BY <1>7 DEF InitControl, Ask, lineVars
  <2>2. ~whole
    BY <2>1 DEF Base, TypeInv, Asked
  <2> QED BY <2>1, <2>2 DEF FullInv, Whole
<1>8. CASE UNCHANGED vars
  BY <1>8 DEF vars, ringVars, callVars, lineVars, FullInv, Whole, Fits, Got, Gone, Resp
<1> QED BY <1>1, <1>2, <1>3, <1>4, <1>5, <1>6, <1>7, <1>8 DEF Next, Handler

(* Theorem 4.  A file whose length fits its word with the trailer, or a    *)
(* page no longer than a block, that lay in the ring in one piece when its *)
(* handler started is delivered in full, and the page with the module's    *)
(* result.                                                                 *)
THEOREM WholeInFull == ASSUME WorkHolds, ErrorsShow PROVE Spec => []InFull
<1>1. Init => FullInv
  BY DEF Init, FullInv, Whole
<1>2. Base /\ FullInv /\ [Next]_vars => FullInv'
  BY FullInductive
<1>3. Base /\ FullInv => InFull
  <2> SUFFICES ASSUME Base, FullInv, pc = "done", whole, Fits
               PROVE  /\ delivered = Content(size)
                      /\ handler = "page" => result = (IF err = 0 THEN "success" ELSE "error")
    BY DEF InFull
  <2>1. Got(size) /\ (handler = "page" => result = (IF err = 0 THEN "success" ELSE "error"))
    BY DEF FullInv, Whole, Base, RingInv
  <2>2. size \in Nat /\ delivered \in Seq(Symbols)
    BY DEF Base, RingInv, OrderInv
  <2>3. Content(size) \in Seq(Symbols) /\ Len(Content(size)) = size /\ \A i \in 1..size : Content(size)[i] = <<"content", i>>
    BY <2>2, ContentFacts
  <2>4. delivered = Content(size)
    BY <2>1, <2>2, <2>3, SeqEqual DEF Got
  <2> QED BY <2>1, <2>4
<1> QED BY <1>1, <1>2, <1>3, BaseInit, BaseInductive, PTL DEF Spec

(* Theorem 5.  The three together: what a transfer promises.               *)
THEOREM TransfersDeliver == ASSUME WorkHolds, ErrorsShow PROVE Spec => []Delivered
<1>1. InOrder /\ InFull /\ ToAsker => Delivered
  BY DEF Delivered
<1> QED BY <1>1, ContentInOrder, PageReachesAsker, WholeInFull, PTL
=============================================================================
