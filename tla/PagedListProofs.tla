--------------------------- MODULE PagedListProofs ---------------------------
(* Proofs about PagedList, for every number of pages and of requests. *)
EXTENDS PagedList, TLAPS, SequenceTheorems

PageNo == Nat \ {0}

(* A list that shows nothing yet waits for an answer or had a failure, an  *)
(* empty one belongs to a server without rows, and the spinner turns only  *)
(* in a list that is there to be told to stop it.                          *)
ListInv ==
    /\ TypeOK
    /\ loaded => data # Null
    /\ data = Null => inFlight # <<>> \/ broken
    /\ data = <<>> => env.last = 0
    /\ refreshing => ListMounted /\ inFlight # <<>>
    /\ EndIsLastPage

(* Every row is one of the server's. *)
RowsInv ==
    data # Null =>
        /\ \A k \in 1..Len(data) : data[k] <= env.last
        /\ data # <<>> => data[1] = 1 /\ (pn <= env.last => data[Len(data)] = pn)

(* Pages 1 to n are on display, as far as the server has them. *)
Covered(n) == \A q \in 1..n : q <= env.last => \E k \in 1..Len(data) : data[k] = q

(* While refreshes and load-more requests do not cross, all pages before   *)
(* one asked for are on display.                                           *)
GapInv ==
    ~crossed =>
        /\ \A i, j \in 1..Len(inFlight) : inFlight[i] = 1 => inFlight[j] = 1
        /\ data # Null =>
             /\ Covered(pn)
             /\ \A i \in 1..Len(inFlight) : inFlight[i] # 1 => Covered(inFlight[i] - 1)
             /\ \A k \in 1..Len(data) : Covered(data[k])

(* While there is one request at a time, pn counts the pages on display,   *)
(* and page 1 or the next one is asked for.                                *)
OrderInv ==
    ~raced =>
        /\ Len(inFlight) <= 1
        /\ data # Null =>
             /\ \A k \in 1..Len(data) : data[k] = k
             /\ Len(data) = IF pn <= env.last THEN pn ELSE env.last
             /\ \A i \in 1..Len(inFlight) : inFlight[i] \in {1, pn + 1}

Inv == ListInv /\ RowsInv /\ GapInv /\ OrderInv

-----------------------------------------------------------------------------
LEMMA ConcatFacts ==
    ASSUME NEW s \in Seq(PageNo), NEW t \in Seq(PageNo)
    PROVE  /\ s \o t \in Seq(PageNo) /\ Len(s \o t) = Len(s) + Len(t)
           /\ \A j \in 1..(Len(s) + Len(t)) :
                (s \o t)[j] = IF j <= Len(s) THEN s[j] ELSE t[j - Len(s)]
BY ConcatProperties

(* Taking an element out of a sequence. *)
LEMMA WithoutFacts ==
    ASSUME NEW s \in Seq(PageNo), NEW i \in 1..Len(s)
    PROVE  /\ Without(s, i) \in Seq(PageNo)
           /\ Len(Without(s, i)) = Len(s) - 1
           /\ \A j \in 1..Len(Without(s, i)) : \E k \in 1..Len(s) : Without(s, i)[j] = s[k]
<1>1. SubSeq(s, 1, i - 1) \in Seq(PageNo) /\ Len(SubSeq(s, 1, i - 1)) = i - 1
  OBVIOUS
<1>2. SubSeq(s, i + 1, Len(s)) \in Seq(PageNo) /\ Len(SubSeq(s, i + 1, Len(s))) = Len(s) - i
  OBVIOUS
<1>3. \A j \in 1..(i - 1) : SubSeq(s, 1, i - 1)[j] = s[j]
  OBVIOUS
<1>4. \A j \in 1..(Len(s) - i) : SubSeq(s, i + 1, Len(s))[j] = s[i + j]
  OBVIOUS
<1> DEFINE a == SubSeq(s, 1, i - 1)
           b == SubSeq(s, i + 1, Len(s))
<1> HIDE DEF a, b
<1>5. Without(s, i) = a \o b
  BY DEF Without, a, b
<1>6. /\ a \in Seq(PageNo) /\ Len(a) = i - 1 /\ b \in Seq(PageNo) /\ Len(b) = Len(s) - i
      /\ \A j \in 1..(i - 1) : a[j] = s[j]
      /\ \A j \in 1..(Len(s) - i) : b[j] = s[i + j]
  BY <1>1, <1>2, <1>3, <1>4 DEF a, b
<1>7. Without(s, i) \in Seq(PageNo) /\ Len(Without(s, i)) = Len(s) - 1
  <2>1. a \o b \in Seq(PageNo) /\ Len(a \o b) = Len(a) + Len(b)
    BY <1>6, ConcatFacts
  <2>2. Len(a) + Len(b) = Len(s) - 1
    BY <1>6
  <2> QED BY <1>5, <2>1, <2>2
<1>8. ASSUME NEW j \in 1..(Len(s) - 1)
      PROVE  \E k \in 1..Len(s) : Without(s, i)[j] = s[k]
  <2>1. CASE j <= i - 1
    <3>1. Without(s, i)[j] = a[j]
      BY <1>5, <1>6, <2>1, ConcatFacts
    <3> QED BY <1>6, <2>1, <3>1
  <2>2. CASE j > i - 1
    <3>1. Without(s, i)[j] = b[j - (i - 1)]
      BY <1>5, <1>6, <2>2, ConcatFacts
    <3>2. b[j - (i - 1)] = s[j + 1] /\ j + 1 \in 1..Len(s)
      BY <1>6, <2>2
    <3> QED BY <3>1, <3>2
  <2> QED BY <2>1, <2>2
<1> QED BY <1>7, <1>8

(* What a request that goes out changes. *)
LEMMA FetchFacts ==
    ASSUME TypeOK, NEW p \in PageNo, Fetch(p)
    PROVE  /\ inFlight' \in Seq(PageNo) /\ Len(inFlight') = Len(inFlight) + 1
           /\ \A i \in 1..Len(inFlight) : inFlight'[i] = inFlight[i]
           /\ inFlight'[Len(inFlight) + 1] = p
           /\ inFlight' # <<>>
           /\ crossed' \in BOOLEAN /\ raced' \in BOOLEAN
           /\ ~raced' => ~raced /\ inFlight = <<>>
           /\ ~crossed' => ~crossed /\ \A i \in 1..Len(inFlight) : (inFlight[i] = 1) <=> (p = 1)
<1>1. inFlight \in Seq(PageNo)
  BY DEF TypeOK, PageNo
<1>2. inFlight' = Append(inFlight, p)
  BY DEF Fetch
<1>3. DOMAIN inFlight = 1..Len(inFlight)
  BY <1>1
<1>4. /\ crossed' \in BOOLEAN /\ raced' \in BOOLEAN
      /\ ~raced' => ~raced /\ inFlight = <<>>
      /\ ~crossed' => ~crossed /\ \A i \in 1..Len(inFlight) : (inFlight[i] = 1) <=> (p = 1)
  BY <1>3 DEF Fetch, TypeOK
<1> QED BY <1>1, <1>2, <1>4

LEMMA RowsFacts ==
    ASSUME TypeOK, NEW p \in PageNo
    PROVE  Rows(p) \in Seq(PageNo) /\ Rows(p) = IF p <= env.last THEN <<p>> ELSE <<>>
<1>1. <<p>> \in Seq(PageNo) /\ <<>> \in Seq(PageNo)
  OBVIOUS
<1> QED BY <1>1 DEF Rows

(* What a successful answer for page p changes. *)
LEMMA SuccessFacts ==
    ASSUME TypeOK, NEW i \in 1..Len(inFlight), NEW p \in PageNo, p = inFlight[i], Success(i)
    PROVE  /\ data' \in Seq(PageNo) /\ data' # Null /\ pn' = p
           /\ loaded' = TRUE /\ refreshing' = FALSE /\ broken' = broken
           /\ isend' = (p >= env.last)
           /\ p = 1 /\ env.last > 0 => data' = <<1>>
           /\ p = 1 /\ env.last = 0 => data' = <<>>
           /\ p # 1 => data # Null /\ data \in Seq(PageNo)
           /\ p # 1 /\ p > env.last => data' = data
           /\ p # 1 /\ p <= env.last =>
                /\ Len(data') = Len(data) + 1 /\ data'[Len(data) + 1] = p
                /\ \A k \in 1..Len(data) : data'[k] = data[k]
<1>1. env.last \in Nat
  BY DEF TypeOK
<1>2. /\ data' = IF p = 1 THEN Rows(p) ELSE data \o Rows(p)
      /\ pn' = p /\ loaded' = TRUE /\ refreshing' = FALSE /\ broken' = broken
      /\ isend' = (p >= env.last) /\ (p # 1 => data # Null)
  BY DEF Success, SuccessWith, SetLoaded, IsEnd
<1>3. p # 1 => data # Null /\ data \in Seq(PageNo)
  BY <1>2 DEF TypeOK, PageNo
<1>4. data' \in Seq(PageNo)
  BY <1>2, <1>3, RowsFacts
<1>5. data' # Null
  BY <1>4, NullAssumption DEF PageNo
<1>6. p = 1 => (env.last > 0 => data' = <<1>>) /\ (env.last = 0 => data' = <<>>)
  BY <1>1, <1>2, RowsFacts
<1>7. ASSUME p # 1, p > env.last PROVE data' = data
  <2>1. Rows(p) = <<>>
    BY <1>1, <1>7, RowsFacts DEF PageNo
  <2>2. data' = data \o <<>> /\ data \in Seq(PageNo)
    BY <1>2, <1>3, <1>7, <2>1
  <2> QED BY <2>2, ConcatEmptySeq
<1>8. ASSUME p # 1, p <= env.last
      PROVE  /\ Len(data') = Len(data) + 1 /\ data'[Len(data) + 1] = p
             /\ \A k \in 1..Len(data) : data'[k] = data[k]
  <2>1. data' = data \o <<p>> /\ data \in Seq(PageNo)
    BY <1>2, <1>3, <1>8, RowsFacts
  <2> QED BY <2>1
<1> QED BY <1>2, <1>3, <1>4, <1>5, <1>6, <1>7, <1>8

-----------------------------------------------------------------------------
LEMMA InitInv == Init => Inv
<1> SUFFICES ASSUME Init PROVE Inv
  OBVIOUS
<1>1. inFlight = <<1>> /\ inFlight \in Seq(Nat \ {0}) /\ Len(inFlight) = 1 /\ inFlight # <<>>
  BY DEF Init
<1>2. data = Null /\ data # <<>>
  <2>1. <<>> \in Seq(Nat)
    OBVIOUS
  <2> QED BY <2>1, NullAssumption DEF Init
<1>3. TypeOK
  <2>1. env \in [last : 0..MaxLast, android : BOOLEAN, emptyView : BOOLEAN]
    BY DEF Init
  <2>2. pn \in Nat \ {0}
    BY DEF Init
  <2>3. /\ loaded \in BOOLEAN /\ isend \in BOOLEAN /\ refreshing \in BOOLEAN
        /\ crossed \in BOOLEAN /\ raced \in BOOLEAN /\ broken \in BOOLEAN
    BY DEF Init
  <2> QED BY <1>1, <1>2, <2>1, <2>2, <2>3 DEF TypeOK
<1>4. ListInv
  BY <1>1, <1>2, <1>3 DEF ListInv, Init, EndIsLastPage
<1>5. RowsInv /\ OrderInv /\ GapInv
  BY <1>1, <1>2 DEF RowsInv, OrderInv, GapInv
<1> QED BY <1>4, <1>5 DEF Inv

(* A request that goes out leaves what is shown alone. *)
LEMMA FetchInv ==
    ASSUME Inv, NEW p \in PageNo, Fetch(p), p = 1 \/ p = pn + 1,
           UNCHANGED <<env, pn, data, loaded, isend, broken>>,
           refreshing' \in BOOLEAN, refreshing' => refreshing \/ ListMounted
    PROVE  Inv'
<1>1. TypeOK /\ ListInv /\ inFlight \in Seq(PageNo) /\ Len(inFlight) \in Nat /\ pn \in PageNo
  BY DEF Inv, ListInv, TypeOK, PageNo
<1>2. TypeOK'
  BY <1>1, FetchFacts DEF TypeOK, PageNo
<1>3. ListInv'
  BY <1>1, <1>2, FetchFacts DEF ListInv, ListMounted, EndIsLastPage
<1>4. RowsInv'
  BY DEF Inv, RowsInv
<1>5. /\ Len(inFlight') = Len(inFlight) + 1 /\ inFlight'[Len(inFlight) + 1] = p
      /\ \A i \in 1..Len(inFlight) : inFlight'[i] = inFlight[i]
      /\ ~raced' => ~raced /\ Len(inFlight) = 0
      /\ ~crossed' => ~crossed /\ \A i \in 1..Len(inFlight) : (inFlight[i] = 1) <=> (p = 1)
  BY <1>1, FetchFacts
<1>6. OrderInv'
  BY <1>1, <1>5 DEF Inv, OrderInv, PageNo
<1>7. \A n : Covered(n)' <=> Covered(n)
  BY DEF Covered
<1>8. ASSUME ~crossed'
      PROVE  \A i, j \in 1..Len(inFlight') : inFlight'[i] = 1 => inFlight'[j] = 1
  BY <1>1, <1>5, <1>8 DEF Inv, GapInv
<1>9. ASSUME ~crossed', data # Null, NEW i \in 1..Len(inFlight'), inFlight'[i] # 1
      PROVE  Covered(inFlight'[i] - 1)
  <2>1. CASE i \in 1..Len(inFlight)
    BY <1>5, <1>9, <2>1 DEF Inv, GapInv
  <2>2. CASE i = Len(inFlight) + 1
    <3>1. inFlight'[i] - 1 = pn
      BY <1>1, <1>5, <1>9, <2>2 DEF PageNo
    <3> QED BY <1>5, <1>9, <3>1 DEF Inv, GapInv
  <2> QED BY <1>1, <1>5, <2>1, <2>2
<1>10. GapInv'
  BY <1>5, <1>7, <1>8, <1>9 DEF Inv, GapInv
<1> QED BY <1>2, <1>3, <1>4, <1>6, <1>10 DEF Inv

LEMMA OnRefreshInv == ASSUME Inv, OnRefresh PROVE Inv'
<1>1. Fetch(1) /\ 1 \in PageNo /\ ListMounted /\ refreshing' = TRUE
  BY DEF OnRefresh, ListTouchable, PageNo
<1> QED BY <1>1, FetchInv DEF OnRefresh

LEMMA OnLoadMoreInv == ASSUME Inv, OnLoadMore PROVE Inv'
<1>1. Fetch(pn + 1) /\ pn + 1 \in PageNo /\ refreshing \in BOOLEAN
  BY DEF OnLoadMore, PageNo, Inv, ListInv, TypeOK
<1> QED BY <1>1, FetchInv DEF OnLoadMore

(* The requests left when request i was answered. *)
LEMMA LeftFacts ==
    ASSUME TypeOK, NEW i \in DOMAIN inFlight, inFlight' = Without(inFlight, i)
    PROVE  /\ inFlight \in Seq(PageNo) /\ i \in 1..Len(inFlight) /\ inFlight[i] \in PageNo
           /\ inFlight' \in Seq(PageNo) /\ Len(inFlight') = Len(inFlight) - 1
           /\ \A j \in 1..Len(inFlight') : \E k \in 1..Len(inFlight) : inFlight'[j] = inFlight[k]
           /\ inFlight # <<>>
<1>1. inFlight \in Seq(PageNo) /\ i \in 1..Len(inFlight) /\ inFlight[i] \in PageNo /\ inFlight # <<>>
  BY DEF TypeOK, PageNo
<1> QED BY <1>1, WithoutFacts

(* An answer that changes nothing that is shown. *)
LEMMA UnshownInv ==
    ASSUME Inv, NEW i \in DOMAIN inFlight, inFlight' = Without(inFlight, i),
           UNCHANGED <<env, pn, data, loaded, crossed, raced>>,
           isend' \in BOOLEAN, broken' \in BOOLEAN, refreshing' = FALSE,
           data = Null => broken',
           ~broken' => ~broken /\ isend' = isend
    PROVE  Inv'
<1>1. TypeOK /\ ListInv
  BY DEF Inv, ListInv
<1>2. /\ inFlight' \in Seq(PageNo) /\ Len(inFlight') = Len(inFlight) - 1 /\ Len(inFlight) \in Nat
      /\ \A j \in 1..Len(inFlight') : \E k \in 1..Len(inFlight) : inFlight'[j] = inFlight[k]
  BY <1>1, LeftFacts
<1>3. TypeOK'
  BY <1>1, <1>2 DEF TypeOK, PageNo
<1>4. ListInv'
  BY <1>1, <1>3 DEF ListInv, EndIsLastPage
<1>5. RowsInv'
  BY DEF Inv, RowsInv
<1>6. OrderInv'
  BY <1>2 DEF Inv, OrderInv
<1>7. \A n : Covered(n)' <=> Covered(n)
  BY DEF Covered
<1>8. GapInv'
  <2>1. ASSUME ~crossed
        PROVE  \A j, k \in 1..Len(inFlight') : inFlight'[j] = 1 => inFlight'[k] = 1
    BY <1>2, <2>1 DEF Inv, GapInv
  <2>2. ASSUME ~crossed, data # Null, NEW j \in 1..Len(inFlight'), inFlight'[j] # 1
        PROVE  Covered(inFlight'[j] - 1)
    BY <1>2, <2>2 DEF Inv, GapInv
  <2> QED BY <1>7, <2>1, <2>2 DEF Inv, GapInv
<1> QED BY <1>3, <1>4, <1>5, <1>6, <1>8 DEF Inv

LEMMA FailureInv ==
    ASSUME Inv, NEW i \in DOMAIN inFlight, inFlight' = Without(inFlight, i), Failure(i),
           UNCHANGED <<env, crossed, raced>>
    PROVE  Inv'
BY UnshownInv DEF Failure, SetLoaded

LEMMA UnheardInv ==
    ASSUME Inv, NEW i \in DOMAIN inFlight, inFlight' = Without(inFlight, i), Unheard(i),
           UNCHANGED <<env, crossed, raced>>
    PROVE  Inv'
<1>1. refreshing = FALSE /\ data # Null
  BY DEF Inv, ListInv, TypeOK, Unheard, ListMounted
<1>2. isend \in BOOLEAN /\ broken \in BOOLEAN
  BY DEF Inv, ListInv, TypeOK
<1> QED BY <1>1, <1>2, UnshownInv DEF Unheard

LEMMA SuccessInv ==
    ASSUME Inv, NEW i \in DOMAIN inFlight, inFlight' = Without(inFlight, i), Success(i),
           UNCHANGED <<env, crossed, raced>>
    PROVE  Inv'
<1>0. PICK p \in PageNo : p = inFlight[i]
  BY LeftFacts DEF Inv, ListInv
<1>1. /\ TypeOK /\ ListInv /\ i \in 1..Len(inFlight)
      /\ inFlight' \in Seq(PageNo) /\ Len(inFlight') = Len(inFlight) - 1 /\ Len(inFlight) \in Nat
      /\ \A j \in 1..Len(inFlight') : \E k \in 1..Len(inFlight) : inFlight'[j] = inFlight[k]
  BY LeftFacts DEF Inv, ListInv
<1>2. env.last \in Nat /\ pn \in PageNo
  BY <1>1 DEF TypeOK, PageNo
<1>3. /\ data' \in Seq(PageNo) /\ data' # Null /\ pn' = p
      /\ loaded' = TRUE /\ refreshing' = FALSE /\ broken' = broken
      /\ isend' = (p >= env.last)
  BY <1>0, <1>1, SuccessFacts
<1>4. /\ p = 1 /\ env.last > 0 => data' = <<1>>
      /\ p = 1 /\ env.last = 0 => data' = <<>>
  BY <1>0, <1>1, SuccessFacts
<1>5. p # 1 => data # Null /\ data \in Seq(PageNo) /\ Len(data) \in Nat
  <2>1. p # 1 => data # Null /\ data \in Seq(PageNo)
    BY <1>0, <1>1, SuccessFacts
  <2> QED BY <2>1, LenProperties
<1>6. p # 1 /\ p > env.last => data' = data
  BY <1>0, <1>1, SuccessFacts
<1>7. p # 1 /\ p <= env.last =>
        /\ Len(data') = Len(data) + 1 /\ data'[Len(data) + 1] = p
        /\ \A k \in 1..Len(data) : data'[k] = data[k]
  BY <1>0, <1>1, SuccessFacts
<1>8. TypeOK'
  <2>1. loaded' \in BOOLEAN /\ refreshing' \in BOOLEAN
    BY <1>3
  <2>4. isend' \in BOOLEAN
    <3>1. isend' = (p >= env.last)
      BY <1>3
    <3> QED BY <3>1
  <2>2. broken' \in BOOLEAN /\ crossed' \in BOOLEAN /\ raced' \in BOOLEAN
    BY <1>1, <1>3 DEF TypeOK
  <2>3. env' \in [last : 0..MaxLast, android : BOOLEAN, emptyView : BOOLEAN]
    BY <1>1 DEF TypeOK
  <2> QED BY <1>1, <1>3, <2>1, <2>2, <2>3, <2>4 DEF TypeOK, PageNo
<1>9. data' = <<>> => env.last = 0
  <2>1. CASE p = 1
    BY <1>2, <1>4, <2>1
  <2>2. CASE p # 1 /\ p > env.last
    BY <1>6, <2>2, <1>1 DEF ListInv
  <2>3. CASE p # 1 /\ p <= env.last
    BY <1>5, <1>7, <2>3
  <2> QED BY <1>1, <1>2, <2>1, <2>2, <2>3 DEF PageNo
<1>10. ListInv'
  BY <1>2, <1>3, <1>8, <1>9 DEF ListInv, EndIsLastPage
<1>11. RowsInv'
  <2>1. CASE p = 1
    BY <1>2, <1>3, <1>4, <2>1 DEF RowsInv
  <2>2. CASE p # 1 /\ p > env.last
    BY <1>1, <1>2, <1>3, <1>5, <1>6, <2>2 DEF RowsInv, Inv, PageNo
  <2>3. CASE p # 1 /\ p <= env.last
    <3>1. data # <<>>
      BY <1>1, <1>2, <2>3 DEF ListInv, PageNo
    <3>2. data[1] = 1 /\ Len(data) >= 1 /\ \A k \in 1..Len(data) : data[k] <= env.last
      BY <1>5, <2>3, <3>1 DEF Inv, RowsInv
    <3> QED BY <1>3, <1>5, <1>7, <2>3, <3>1, <3>2 DEF RowsInv
  <2> QED BY <1>1, <1>2, <2>1, <2>2, <2>3 DEF PageNo
<1>12. OrderInv'
  <2> SUFFICES ASSUME ~raced
               PROVE  /\ Len(inFlight') = 0
                      /\ \A k \in 1..Len(data') : data'[k] = k
                      /\ Len(data') = IF p <= env.last THEN p ELSE env.last
    BY <1>3 DEF OrderInv
  <2>1. Len(inFlight') = 0 /\ (p # 1 => p = pn + 1)
    BY <1>0, <1>1, <1>5 DEF Inv, OrderInv
  <2>2. CASE p = 1
    BY <1>2, <1>4, <2>1, <2>2
  <2>3. CASE p # 1 /\ p > env.last
    BY <1>2, <1>5, <1>6, <2>1, <2>3 DEF Inv, OrderInv, PageNo
  <2>4. CASE p # 1 /\ p <= env.last
    BY <1>2, <1>5, <1>7, <2>1, <2>4 DEF Inv, OrderInv, PageNo
  <2> QED BY <1>1, <1>2, <2>1, <2>2, <2>3, <2>4 DEF PageNo
<1> DEFINE NewCovered(n) ==
             \A q \in 1..n : q <= env.last => \E k \in 1..Len(data') : data'[k] = q
<1>13. ASSUME ~crossed
       PROVE  /\ \A j, k \in 1..Len(inFlight') : inFlight'[j] = 1 => inFlight'[k] = 1
              /\ NewCovered(p)
              /\ \A j \in 1..Len(inFlight') : inFlight'[j] # 1 => NewCovered(inFlight'[j] - 1)
              /\ \A k \in 1..Len(data') : NewCovered(data'[k])
  <2>1. \A j, k \in 1..Len(inFlight') : inFlight'[j] = 1 => inFlight'[k] = 1
    BY <1>1, <1>13 DEF Inv, GapInv
  <2>2. CASE p = 1
    <3>1. \A j \in 1..Len(inFlight') : inFlight'[j] = 1
      BY <1>0, <1>1, <1>13, <2>2 DEF Inv, GapInv
    <3>2. NewCovered(p)
      <4>1. CASE env.last > 0
        <5>1. data' = <<1>> /\ Len(data') = 1 /\ data'[1] = 1
          BY <1>4, <2>2, <4>1
        <5> QED BY <2>2, <5>1
      <4>2. CASE env.last = 0
        BY <2>2, <4>2
      <4> QED BY <1>2, <4>1, <4>2
    <3>3. \A k \in 1..Len(data') : data'[k] = p
      BY <1>2, <1>4, <2>2
    <3> QED BY <2>1, <3>1, <3>2, <3>3
  <2>3. CASE p # 1
    <3>1. data # Null /\ Covered(p - 1) /\ \A k \in 1..Len(data) : Covered(data[k])
      BY <1>0, <1>1, <1>5, <1>13, <2>3 DEF Inv, GapInv
    <3>2. \A k \in 1..Len(data) : k \in 1..Len(data') /\ data'[k] = data[k]
      BY <1>2, <1>5, <1>6, <1>7, <2>3 DEF PageNo
    <3>3. \A n : Covered(n) => NewCovered(n)
      BY <3>2 DEF Covered
    <3>4. p <= env.last => Len(data) + 1 \in 1..Len(data') /\ data'[Len(data) + 1] = p
      BY <1>5, <1>7, <2>3
    <3>5. NewCovered(p)
      <4> SUFFICES ASSUME NEW q \in 1..p, q <= env.last
                   PROVE  \E k \in 1..Len(data') : data'[k] = q
        OBVIOUS
      <4>1. CASE q = p
        BY <3>4, <4>1
      <4>2. CASE q # p
        <5>1. q \in 1..(p - 1) /\ NewCovered(p - 1)
          BY <3>1, <3>3, <4>2 DEF PageNo
        <5> QED BY <5>1
      <4> QED BY <4>1, <4>2
    <3> HIDE DEF NewCovered
    <3>6. \A j \in 1..Len(inFlight') : inFlight'[j] # 1 => NewCovered(inFlight'[j] - 1)
      BY <1>1, <1>13, <3>1, <3>3 DEF Inv, GapInv
    <3>7. ASSUME NEW k \in 1..Len(data') PROVE NewCovered(data'[k])
      <4>1. data'[k] = p \/ (k \in 1..Len(data) /\ data'[k] = data[k])
        BY <1>2, <1>5, <1>6, <1>7, <2>3 DEF PageNo
      <4> QED BY <3>1, <3>3, <3>5, <4>1
    <3> QED BY <2>1, <3>5, <3>6, <3>7
  <2> QED BY <2>2, <2>3
<1>14. GapInv'
  BY <1>3, <1>13 DEF GapInv, Covered
<1> QED BY <1>10, <1>11, <1>12, <1>14 DEF Inv

LEMMA StutterInv == ASSUME Inv, UNCHANGED vars PROVE Inv'
BY DEF vars, Inv, ListInv, TypeOK, EndIsLastPage, ListMounted, RowsInv, OrderInv, GapInv, Covered

LEMMA ListAlways == Init /\ [][Next]_vars => []Inv
<1>1. Init => Inv
  BY InitInv
<1>2. Inv /\ [Next]_vars => Inv'
  BY OnRefreshInv, OnLoadMoreInv, SuccessInv, FailureInv, UnheardInv, StutterInv DEF Next, Answer
<1> QED BY <1>1, <1>2, PTL

LEMMA ListInvariant == Spec => []Inv
BY ListAlways, PTL DEF Spec

-----------------------------------------------------------------------------
(* The state of the page and of RefreshFlatList keeps its types. *)
THEOREM TypeCorrect == Spec => []TypeOK
<1>1. Inv => TypeOK
  BY DEF Inv, ListInv
<1> QED BY <1>1, ListInvariant, PTL

(* However refreshes and load-mores are answered, a list starts with page  *)
(* 1 and ends with page pn, so onLoadMore asks for what comes after it.    *)
THEOREM LastShown == Spec => []PnIsLastShown
<1>1. Inv => PnIsLastShown
  BY DEF Inv, RowsInv, PnIsLastShown
<1> QED BY <1>1, ListInvariant, PTL

(* setIsend announces no end before the last page, unless a request failed. *)
THEOREM EndIsEnd == Spec => []EndIsLastPage
<1>1. Inv => EndIsLastPage
  BY DEF Inv, ListInv
<1> QED BY <1>1, ListInvariant, PTL

(* The spinner of a list never turns without a request under way. *)
THEOREM SpinnerBacked == Spec => []SpinnerHasRequest
<1>1. Inv => SpinnerHasRequest
  BY DEF Inv, ListInv, SpinnerHasRequest
<1> QED BY <1>1, ListInvariant, PTL

(* A list without rows to touch and without a request under way belongs to *)
(* a server without rows, or had a failure.                                *)
THEOREM DeadExplained == Spec => []DeadListExplained
<1>1. Inv => DeadListExplained
  BY DEF Inv, ListInv, DeadListExplained, ListTouchable, ListMounted
<1> QED BY <1>1, ListInvariant, PTL

(* With one request at a time onFetch shows every page once and in order. *)
THEOREM InOrder == Spec => []PagesInOrder
<1>1. ASSUME Inv, ~raced, data # Null PROVE data = [i \in 1..Len(data) |-> i]
  <2>1. data \in Seq(PageNo) /\ \A k \in 1..Len(data) : data[k] = k
    BY <1>1 DEF Inv, ListInv, TypeOK, OrderInv, PageNo
  <2>2. data \in [1..Len(data) -> PageNo]
    BY <2>1, LenProperties
  <2> QED BY <2>1, <2>2
<1>2. Inv => PagesInOrder
  BY <1>1 DEF PagesInOrder
<1> QED BY <1>2, ListInvariant, PTL

(* While no refresh crosses a load-more, no page is skipped, in whatever   *)
(* order the answers come.                                                 *)
THEOREM GapFree == Spec => []NoGap
<1>1. ASSUME Inv, ~crossed, data # Null, NEW q \in Shown PROVE 1..q \subseteq Shown
  <2>1. data \in Seq(PageNo) /\ DOMAIN data = 1..Len(data) /\ env.last \in Nat
    BY <1>1, LenProperties DEF Inv, ListInv, TypeOK, PageNo
  <2>2. PICK k \in 1..Len(data) : data[k] = q
    BY <2>1 DEF Shown
  <2>3. q \in PageNo /\ q <= env.last /\ Covered(q)
    BY <1>1, <2>1, <2>2, ElementOfSeq DEF Inv, RowsInv, GapInv
  <2> SUFFICES ASSUME NEW n \in 1..q PROVE n \in Shown
    OBVIOUS
  <2>4. n <= env.last
    BY <2>1, <2>3 DEF PageNo
  <2> QED BY <2>1, <2>3, <2>4 DEF Covered, Shown
<1>2. Inv => NoGap
  BY <1>1 DEF NoGap
<1> QED BY <1>2, ListInvariant, PTL

-----------------------------------------------------------------------------
(* The weak fairness of Answer, with its condition written out as what     *)
(* lets a request be answered: requests do not stay out for ever.          *)
FairAnswers == []<>(inFlight = <<>>) \/ []<><<Answer>>_vars

(* As requests end, with an answer or an error, and in whatever order, the *)
(* spinner of a list stops: no answer goes unheard while it turns.         *)
THEOREM SpinnerEnds == Init /\ [][Next]_vars /\ FairAnswers => SpinnerStops
<1>1. Inv => (refreshing => ~(inFlight = <<>>))
  BY DEF Inv, ListInv
<1>2. Inv /\ refreshing /\ <<Answer>>_vars => ~refreshing'
  BY DEF Inv, ListInv, Answer, Success, SuccessWith, Failure, Unheard, SetLoaded
<1> QED BY <1>1, <1>2, ListAlways, PTL DEF FairAnswers, SpinnerStops

-----------------------------------------------------------------------------
(* The promise to the reader.  A list that is not ended has pages left, and *)
(* while there is one request at a time a load-more is only out for a list *)
(* that is not ended.                                                      *)
PagesLeft ==
    /\ data # Null /\ ~isend => pn < env.last
    /\ ~raced => \A i \in 1..Len(inFlight) : inFlight[i] # 1 => ~isend

LEMMA PagesLeftInit == Init => PagesLeft
<1> SUFFICES ASSUME Init PROVE PagesLeft
  OBVIOUS
<1>1. data = Null /\ inFlight = <<1>>
  BY DEF Init
<1> QED BY <1>1 DEF PagesLeft

LEMMA PagesLeftStep == ASSUME Inv, PagesLeft, [Next]_vars PROVE PagesLeft'
<1>1. TypeOK /\ OrderInv /\ env.last \in Nat /\ pn \in PageNo
      /\ inFlight \in Seq(PageNo) /\ Len(inFlight) \in Nat
  BY DEF Inv, ListInv, TypeOK, PageNo
<1>2. ASSUME NEW p \in PageNo, Fetch(p), p # 1 => ~isend, UNCHANGED <<env, pn, data, isend>>
      PROVE  PagesLeft'
  <2>1. /\ Len(inFlight') = Len(inFlight) + 1 /\ inFlight'[Len(inFlight) + 1] = p
        /\ ~raced' => Len(inFlight) = 0
    BY <1>1, <1>2, FetchFacts
  <2>2. ~raced' => \A i \in 1..Len(inFlight') : inFlight'[i] = p
    BY <1>1, <2>1
  <2> QED BY <1>2, <2>2 DEF PagesLeft
<1>3. CASE OnRefresh
  BY <1>2, <1>3 DEF OnRefresh, PageNo
<1>4. CASE OnLoadMore
  <2>1. pn + 1 \in PageNo
    BY <1>1 DEF PageNo
  <2> QED BY <1>2, <1>4, <2>1 DEF OnLoadMore
<1>5. CASE Answer
  <2>1. PICK i \in DOMAIN inFlight :
          /\ inFlight' = Without(inFlight, i)
          /\ Success(i) \/ Failure(i) \/ Unheard(i)
          /\ UNCHANGED <<env, crossed, raced>>
    BY <1>5 DEF Answer
  <2>2. i \in 1..Len(inFlight) /\ inFlight[i] \in PageNo /\ Len(inFlight') = Len(inFlight) - 1
    BY <1>1, <2>1, LeftFacts
  <2>3. ~raced' => Len(inFlight') = 0
    BY <1>1, <2>1, <2>2 DEF OrderInv
  <2>4. data' # Null /\ ~isend' => pn' < env.last
    <3>1. CASE Success(i)
      <4>1. PICK p \in PageNo : p = inFlight[i]
        BY <2>2
      <4>2. pn' = p /\ isend' = (p >= env.last)
        BY <1>1, <2>2, <3>1, <4>1, SuccessFacts
      <4>3. ~isend' => ~(p >= env.last)
        BY <4>2, Zenon
      <4>4. p \in Nat /\ (~(p >= env.last) => p < env.last)
        BY <1>1 DEF PageNo
      <4> QED BY <4>2, <4>3, <4>4, Zenon
    <3>2. CASE Failure(i)
      BY <3>2 DEF Failure, SetLoaded
    <3>3. CASE Unheard(i)
      BY <3>3 DEF Unheard, PagesLeft
    <3> QED BY <2>1, <3>1, <3>2, <3>3
  <2> QED BY <2>1, <2>3, <2>4 DEF PagesLeft
<1>6. CASE UNCHANGED vars
  BY <1>6 DEF vars, PagesLeft
<1> QED BY <1>3, <1>4, <1>5, <1>6 DEF Next

(* A sequence that counts is the one the promise speaks of. *)
LEMMA CountsUp ==
    ASSUME NEW s \in Seq(PageNo), NEW n \in Nat, Len(s) = n, \A k \in 1..n : s[k] = k
    PROVE  s = Promise!UpTo(n)
<1>1. s \in [1..n -> PageNo]
  BY LenProperties
<1> QED BY <1>1 DEF Promise!UpTo

(* With one request at a time an answer for page 1 shows that page, and    *)
(* one for a later page adds it to the pages before it.                    *)
LEMMA SuccessPromise ==
    ASSUME Inv, PagesLeft, ~raced, NEW i \in DOMAIN inFlight, Success(i)
    PROVE  Promise!Reload \/ Promise!More
<1>0. TypeOK
  BY DEF Inv, ListInv
<1>1. /\ env.last \in Nat /\ inFlight \in Seq(PageNo) /\ pn \in PageNo
      /\ i \in 1..Len(inFlight) /\ inFlight[i] \in PageNo
  BY <1>0 DEF TypeOK, PageNo
<1>2. PICK p \in PageNo : p = inFlight[i]
  BY <1>1
<1>3. /\ data' \in Seq(PageNo) /\ isend' = (p >= env.last)
      /\ p = 1 /\ env.last > 0 => data' = <<1>>
      /\ p = 1 /\ env.last = 0 => data' = <<>>
      /\ p # 1 => data # Null /\ data \in Seq(PageNo)
  BY <1>0, <1>1, <1>2, SuccessFacts
<1>4. CASE p = 1
  <2>1. isend' = (env.last <= 1)
    BY <1>1, <1>3, <1>4
  <2>2. data' = Promise!UpTo(IF env.last = 0 THEN 0 ELSE 1)
    <3>1. CASE env.last = 0
      <4>1. Len(data') = 0 /\ \A k \in 1..0 : data'[k] = k
        BY <1>3, <1>4, <3>1
      <4> QED BY <1>3, <3>1, <4>1, CountsUp
    <3>2. CASE env.last # 0
      <4>1. data' = <<1>>
        BY <1>1, <1>3, <1>4, <3>2
      <4>2. Len(data') = 1 /\ \A k \in 1..1 : data'[k] = k
        BY <4>1
      <4> QED BY <1>3, <3>2, <4>2, CountsUp
    <3> QED BY <3>1, <3>2
  <2> QED BY <2>1, <2>2 DEF Promise!Reload
<1>5. CASE p # 1
  <2>1. data # Null /\ ~isend /\ p = pn + 1
    BY <1>1, <1>2, <1>3, <1>5 DEF PagesLeft, Inv, OrderInv
  <2>2. pn < env.last /\ pn \in 1..env.last /\ p <= env.last /\ pn \in Nat
    BY <1>1, <2>1 DEF PagesLeft, PageNo
  <2>3. data \in Seq(PageNo) /\ Len(data) = pn /\ \A k \in 1..pn : data[k] = k
    BY <1>3, <1>5, <2>1, <2>2 DEF Inv, OrderInv
  <2>4. data = Promise!UpTo(pn)
    BY <2>2, <2>3, CountsUp
  <2>5. /\ Len(data') = Len(data) + 1 /\ data'[Len(data) + 1] = p
        /\ \A k \in 1..Len(data) : data'[k] = data[k]
    BY <1>0, <1>1, <1>2, <1>5, <2>2, SuccessFacts
  <2>6. data' = Promise!UpTo(pn + 1)
    <3>1. Len(data') = pn + 1 /\ pn + 1 \in Nat
      BY <2>2, <2>3, <2>5
    <3>2. \A k \in 1..(pn + 1) : data'[k] = k
      BY <2>1, <2>2, <2>3, <2>5
    <3> QED BY <1>3, <3>1, <3>2, CountsUp
  <2>7. isend' = (pn + 1 = env.last)
    BY <1>1, <1>3, <2>1, <2>2
  <2> QED BY <2>1, <2>2, <2>4, <2>6, <2>7 DEF Promise!More
<1> QED BY <1>4, <1>5

LEMMA PromiseStep ==
    Inv /\ PagesLeft /\ [Next]_vars => [Promise!Next]_<<env.last, data, isend, raced>>
<1> SUFFICES ASSUME Inv, PagesLeft, [Next]_vars
             PROVE  \/ Promise!Next
                    \/ UNCHANGED <<env.last, data, isend, raced>>
  OBVIOUS
<1>1. env' = env
  BY DEF Next, OnRefresh, OnLoadMore, Answer, vars
<1>2. CASE OnRefresh \/ OnLoadMore
  <2>1. UNCHANGED <<data, isend>> /\ raced' = (raced \/ inFlight # <<>>) /\ raced \in BOOLEAN
    BY <1>2 DEF OnRefresh, OnLoadMore, Fetch, Inv, ListInv, TypeOK
  <2>2. CASE raced'
    BY <1>1, <2>2 DEF Promise!Next
  <2>3. CASE ~raced'
    BY <1>1, <2>1, <2>3
  <2> QED BY <2>2, <2>3
<1>3. CASE Answer
  <2>1. PICK i \in DOMAIN inFlight :
          (Success(i) \/ Failure(i) \/ Unheard(i)) /\ UNCHANGED raced
    BY <1>3 DEF Answer
  <2>2. CASE raced
    BY <1>1, <2>1, <2>2 DEF Promise!Next
  <2>3. CASE ~raced
    <3>1. CASE Success(i)
      BY <1>1, <2>1, <2>3, <3>1, SuccessPromise DEF Promise!Next
    <3>2. CASE Failure(i)
      BY <1>1, <2>1, <2>3, <3>2 DEF Promise!Next, Promise!GiveUp, Failure, SetLoaded
    <3>3. CASE Unheard(i)
      BY <1>1, <2>1, <3>3 DEF Unheard
    <3> QED BY <2>1, <3>1, <3>2, <3>3
  <2> QED BY <2>2, <2>3
<1>4. CASE UNCHANGED vars
  BY <1>4 DEF vars
<1> QED BY <1>2, <1>3, <1>4 DEF Next

(* onFetch, RefreshFlatList and the answers together implement the promise *)
(* to the reader of a list: every step is one of it or is not seen.        *)
THEOREM Implements == Spec => ListKept
<1>1. Init => Promise!Init
  BY DEF Init, Promise!Init
<1>2. Inv /\ PagesLeft /\ [Next]_vars => PagesLeft'
  BY PagesLeftStep
<1>3. Inv /\ PagesLeft /\ [Next]_vars => [Promise!Next]_Promise!pvars
  BY PromiseStep DEF Promise!pvars
<1> QED BY <1>1, <1>2, <1>3, PagesLeftInit, ListInvariant, PTL DEF Spec, ListKept, Promise!Spec
=============================================================================
