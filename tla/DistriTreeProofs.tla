-------------------------- MODULE DistriTreeProofs --------------------------
(***************************************************************************)
(* Proofs about DistriTree, for any number of ranks, calls and trees.      *)
(***************************************************************************)
EXTENDS DistriTree, FunctionTheorems, SequenceTheorems, FiniteSetTheorems, TLAPS

FgLabels == {"idle", "remove", "look", "collect", "stop", "destroyed"}
FgStates == [pc : FgLabels, key : Keys, idx : 0 .. NumProc, found : BOOLEAN]
Req == [s \in Ranks |-> [d \in Ranks |-> request[<<s, d>>]]]
Res == [s \in Ranks |-> [d \in Ranks |-> result[<<s, d>>]]]
Results == [key : Keys, found : BOOLEAN]

(* The ranks whose result a rank has yet to receive.                       *)
Awaited == [r \in Ranks |-> IF fg[r].pc \in {"look", "collect"}
                              THEN {s \in Ranks \ {r} : fg[r].idx <= s} ELSE {}]

(* What a queue of requests holds: no GET; at most one, at the end and for *)
(* key k; so many REMOVEs of k.                                            *)
NoGet(q) == \A i \in 1 .. Len(q) : q[i].op # "GET"
GetLast(q, k) == \A i \in 1 .. Len(q) : q[i].op = "GET" => i = Len(q) /\ q[i].key = k
IsRemove(m, k) == m.op = "REMOVE" /\ m.key = k
Pending(q, k) == Cardinality({i \in 1 .. Len(q) : IsRemove(q[i], k)})

(* How many removes of k rank r has called that rank d has yet to execute. *)
Owed(r, d, k) == IF d # r THEN Pending(Req[r][d], k)
                 ELSE IF fg[r].pc = "remove" /\ fg[r].key = k THEN 1 ELSE 0

(* A GET is the last request of its sender and belongs to the call it is   *)
(* in; it is on its way, or its result is, or neither, but never both.     *)
GetsFit == \A r, s \in Ranks :
    /\ s \in Awaited[r] => GetLast(Req[r][s], fg[r].key)
    /\ s \notin Awaited[r] => NoGet(Req[r][s]) /\ Res[s][r] = <<>>
    /\ Res[s][r] # <<>> => /\ NoGet(Req[r][s])
                           /\ Len(Res[s][r]) = 1 /\ Res[s][r][1].key = fg[r].key

(* A tree has more copies than a rank expects only as long as removes of   *)
(* the rank are on their way there.                                        *)
RemovesPending == \A r, d \in Ranks : \A k \in Keys :
    tree[d][k] <= expected[r][d][k] + Owed(r, d, k)

(* A key that is expected somewhere, or found, here or there, may be found.*)
FoundHoped == \A r \in Ranks :
    /\ Getting(r) => \A d \in Ranks : expected[r][d][fg[r].key] > 0 => hope[r]
    /\ fg[r].pc = "collect" /\ fg[r].found => hope[r]
    /\ \A s \in Ranks : Res[s][r] # <<>> /\ Res[s][r][1].found => hope[r]

(* Whoever holds the key all along answers, or has answered, that it does. *)
HeldIsFound == \A r \in Ranks :
    /\ fg[r].pc = "look" => fg[r].idx = 0
    /\ \A d \in held[r] :
          /\ fg[r].pc \in {"look", "collect"} /\ tree[d][fg[r].key] > 0
          /\ Res[d][r] # <<>> => Res[d][r][1].found
          /\ d # r /\ d < fg[r].idx => fg[r].found
          /\ d = r /\ fg[r].pc = "collect" => fg[r].found

IInv == TypeOK /\ GetsFit /\ RemovesPending /\ FoundHoped /\ HeldIsFound
-----------------------------------------------------------------------------
(* Ranks are the numbers below NumProc.                                    *)
LEMMA RankType == \A r \in Ranks : r \in Nat /\ r < NumProc
  BY NumProcAssumption DEF Ranks

(* Queues without a GET, and a GET put at the end of one.                  *)
LEMMA NoGetFacts ==
    /\ NoGet(<<>>)
    /\ \A q \in Seq(Requests) : NoGet(q) => \A k : GetLast(q, k)
    /\ \A q \in Seq(Requests), m \in Requests :
          NoGet(q) => /\ m.op # "GET" => NoGet(Append(q, m))
                      /\ GetLast(Append(q, m), m.key)
    /\ \A q \in Seq(Requests) : q # <<>> /\ NoGet(q) => NoGet(Tail(q))
  BY DEF NoGet, GetLast

(* Taking the first request of a queue whose GET is the last.              *)
LEMMA GetLastFacts ==
    ASSUME NEW q \in Seq(Requests), q # <<>>, NEW k, GetLast(q, k)
    PROVE  /\ GetLast(Tail(q), k)
           /\ q[1].op = "GET" => q[1].key = k /\ Tail(q) = <<>>
  BY DEF GetLast

(* The REMOVEs in a queue are counted as they come and go.                 *)
LEMMA PendingFacts ==
    ASSUME NEW q \in Seq(Requests), NEW k
    PROVE  /\ Pending(q, k) \in Nat
           /\ \A m \in Requests :
                 Pending(Append(q, m), k) = Pending(q, k) + IF IsRemove(m, k) THEN 1 ELSE 0
           /\ q # <<>> => Pending(Tail(q), k) = Pending(q, k) - IF IsRemove(q[1], k) THEN 1 ELSE 0
           /\ Len(q) = 0 => Pending(q, k) = 0
<1>. DEFINE R(p) == {i \in 1 .. Len(p) : IsRemove(p[i], k)}
<1>0. /\ Len(q) \in Nat
      /\ \A p \in Seq(Requests) : IsFiniteSet(R(p)) /\ Cardinality(R(p)) \in Nat
  <2>1. ASSUME NEW p \in Seq(Requests) PROVE IsFiniteSet(R(p)) /\ Cardinality(R(p)) \in Nat
    <3>1. IsFiniteSet(1 .. Len(p)) /\ R(p) \subseteq 1 .. Len(p)
      BY FS_Interval
    <3>. QED
      BY <3>1, FS_Subset, FS_CardinalityType
  <2>. QED
    BY <2>1
<1>1. ASSUME NEW m \in Requests
      PROVE  Pending(Append(q, m), k) = Pending(q, k) + IF IsRemove(m, k) THEN 1 ELSE 0
  <2>1. R(Append(q, m)) = R(q) \cup IF IsRemove(m, k) THEN {Len(q) + 1} ELSE {}
    <3>1. /\ Len(Append(q, m)) = Len(q) + 1 /\ Append(q, m)[Len(q) + 1] = m
          /\ \A i \in 1 .. Len(q) : Append(q, m)[i] = q[i]
      OBVIOUS
    <3>2. 1 .. (Len(q) + 1) = (1 .. Len(q)) \cup {Len(q) + 1}
      BY <1>0
    <3>. QED
      BY <3>1, <3>2
  <2>2. Len(q) + 1 \notin R(q)
    BY <1>0
  <2>3. Cardinality(R(q) \cup {Len(q) + 1}) = Cardinality(R(q)) + 1
    BY <1>0, <2>2, FS_AddElement
  <2>4. Pending(q, k) = Cardinality(R(q)) /\ Pending(Append(q, m), k) = Cardinality(R(Append(q, m)))
    BY DEF Pending
  <2>5. CASE IsRemove(m, k)
    <3>1. R(Append(q, m)) = R(q) \cup {Len(q) + 1}
      BY <2>1, <2>5, Zenon
    <3>2. Pending(Append(q, m), k) = Pending(q, k) + 1
      BY <2>3, <2>4, <3>1, Zenon
    <3>. QED
      BY <2>5, <3>2, Zenon
  <2>6. CASE ~IsRemove(m, k)
    <3>1. R(Append(q, m)) = R(q) /\ Cardinality(R(q)) + 0 = Cardinality(R(q))
      <4>1. R(Append(q, m)) = R(q) \cup {}
        BY <2>1, <2>6, Zenon
      <4>2. R(q) \cup {} = R(q)
        BY Zenon
      <4>3. Cardinality(R(q)) \in Nat
        BY <1>0
      <4>4. Cardinality(R(q)) + 0 = Cardinality(R(q))
        BY <4>3
      <4>. QED
        BY <4>1, <4>2, <4>4, Zenon
    <3>2. Pending(Append(q, m), k) = Pending(q, k) + 0
      BY <2>4, <3>1, Zenon
    <3>. QED
      BY <2>6, <3>2, Zenon
  <2>. QED
    BY <2>5, <2>6
<1>2. ASSUME q # <<>>
      PROVE  Pending(Tail(q), k) = Pending(q, k) - IF IsRemove(q[1], k) THEN 1 ELSE 0
  <2>. DEFINE S == R(q) \ {1}
              f == [i \in R(Tail(q)) |-> i + 1]
  <2>1. /\ Tail(q) \in Seq(Requests) /\ Len(Tail(q)) = Len(q) - 1 /\ Len(q) >= 1
        /\ \A i \in 1 .. (Len(q) - 1) : Tail(q)[i] = q[i + 1]
    BY <1>2
  <2>2. \A i : i \in R(Tail(q)) <=> i \in 1 .. (Len(q) - 1) /\ IsRemove(q[i + 1], k)
    BY <2>1
  <2>3. f \in Bijection(R(Tail(q)), S)
    <3>1. ASSUME NEW i \in R(Tail(q)) PROVE i + 1 \in S /\ i \in Int
      BY <1>0, <2>2
    <3>2. ASSUME NEW j \in S PROVE j - 1 \in R(Tail(q)) /\ (j - 1) + 1 = j
      BY <1>0, <2>2
    <3>3. f \in [R(Tail(q)) -> S]
      BY <3>1
    <3>4. \A i, j \in R(Tail(q)) : f[i] = f[j] => i = j
      BY <3>1
    <3>5. \A j \in S : \E i \in R(Tail(q)) : f[i] = j
      BY <3>2
    <3>. QED
      BY <3>3, <3>4, <3>5, Fun_IsBij
  <2>4. Cardinality(S) = Cardinality(R(Tail(q)))
    <3>1. IsFiniteSet(R(Tail(q)))
      BY <1>0, <2>1
    <3>2. ExistsBijection(R(Tail(q)), S)
      BY <2>3, Zenon DEF ExistsBijection
    <3>. HIDE DEF R, S
    <3>. QED
      BY <3>1, <3>2, FS_Bijection, Zenon
  <2>5. Cardinality(S) = IF 1 \in R(q) THEN Cardinality(R(q)) - 1 ELSE Cardinality(R(q))
    BY <1>0, FS_RemoveElement
  <2>6. 1 \in R(q) <=> IsRemove(q[1], k)
    BY <1>0, <2>1
  <2>7. /\ Pending(q, k) = Cardinality(R(q)) /\ Pending(Tail(q), k) = Cardinality(R(Tail(q)))
        /\ Cardinality(R(q)) \in Nat
    BY <1>0 DEF Pending
  <2>. HIDE DEF R, S
  <2>. QED
    BY <2>4, <2>5, <2>6, <2>7
<1>3. ASSUME Len(q) = 0 PROVE Pending(q, k) = 0
  <2>1. R(q) = {}
    BY <1>3
  <2>. QED
    BY <2>1, FS_EmptySet DEF Pending
<1>. QED
  BY <1>0, <1>1, <1>2, <1>3 DEF Pending

(* Taking one from a number of copies, if there is one.                    *)
Less(n) == IF n > 0 THEN n - 1 ELSE 0
LEMMA LessFacts ==
    ASSUME NEW a \in Nat, NEW b \in Nat, NEW n \in Nat, a <= b + n
    PROVE  /\ Less(a) \in Nat /\ Less(a) <= a
           /\ Less(a) <= Less(b) + n
           /\ \A m \in Nat : m >= n - 1 => Less(a) <= b + m
  BY DEF Less

(* A queue of results with one element.                                    *)
LEMMA OneElement ==
    ASSUME NEW q \in Seq(Results)
    PROVE  /\ \A e \in Results : q = <<>> =>
                 Append(q, e) # <<>> /\ Len(Append(q, e)) = 1 /\ Append(q, e)[1] = e
           /\ Len(q) = 1 => Tail(q) = <<>> /\ q # <<>>
<1>1. ASSUME NEW e \in Results, q = <<>>
      PROVE  Append(q, e) # <<>> /\ Len(Append(q, e)) = 1 /\ Append(q, e)[1] = e
  <2>1. Len(q) = 0
    BY <1>1
  <2>2. Len(Append(q, e)) = 1 /\ Append(q, e)[1] = e
    BY <2>1
  <2>3. Append(q, e) # <<>>
    BY AppendProperties
  <2>. QED
    BY <2>2, <2>3
<1>2. ASSUME Len(q) = 1
      PROVE  Tail(q) = <<>> /\ q # <<>>
  <2>1. q # <<>>
    BY <1>2
  <2>2. Tail(q) \in Seq(Results) /\ Len(Tail(q)) = 0
    BY <1>2, <2>1
  <2>3. Tail(q) = <<>>
    BY <2>2, EmptySeq
  <2>. QED
    BY <2>1, <2>3
<1>. QED
  BY <1>1, <1>2

(* A queue that the next request empties.                                  *)
LEMMA OneLeft ==
    ASSUME NEW q \in Seq(Requests), q # <<>>, Tail(q) = <<>>
    PROVE  Len(q) = 1
<1>1. Len(Tail(q)) = Len(q) - 1 /\ Len(q) \in Nat
  OBVIOUS
<1>2. Len(Tail(q)) = 0
  BY EmptySeq, Zenon
<1>. QED
  BY <1>1, <1>2

(* At first nothing is sent and all trees are empty.                       *)
LEMMA InitInv == Init => IInv
<1>. SUFFICES ASSUME Init PROVE IInv
  OBVIOUS
<1>1. \A r, s \in Ranks : Req[r][s] = <<>> /\ Res[r][s] = <<>>
  BY DEF Init, Links, Req, Res
<1>2. Idle \in [pc : FgLabels, key : Keys, idx : 0 .. NumProc, found : BOOLEAN] /\ Idle.pc = "idle"
  BY NumProcAssumption, KeysAssumption DEF Idle, FgLabels
<1>3. TypeOK
  <2>1. /\ request \in [Links -> Seq(Requests)]
        /\ result \in [Links -> Seq([key : Keys, found : BOOLEAN])]
        /\ acks \in [Links -> Nat]
    BY DEF Init
  <2>2. fg \in [Ranks -> [pc : FgLabels, key : Keys, idx : 0 .. NumProc, found : BOOLEAN]]
    BY <1>2 DEF Init
  <2>3. /\ tree \in [Ranks -> [Keys -> Nat]] /\ bg \in [Ranks -> {"run", "done"}]
        /\ expected \in [Ranks -> [Ranks -> [Keys -> Nat]]]
        /\ held \in [Ranks -> SUBSET Ranks] /\ hope \in [Ranks -> BOOLEAN]
    BY DEF Init, NoKeys
  <2>4. /\ stops \in [Ranks -> 0 .. NumProc] /\ generation \in [Ranks -> 1 .. MaxGeneration]
        /\ ops \in [Ranks -> Nat]
    BY NumProcAssumption, BoundAssumption DEF Init
  <2>5. mixed \in BOOLEAN
    BY DEF Init
  <2>. QED
    BY <2>1, <2>2, <2>3, <2>4, <2>5 DEF TypeOK, FgLabels
<1>4. GetsFit
  <2>1. \A k : GetLast(<<>>, k)
    BY DEF GetLast
  <2>. QED
    BY <1>1, <2>1, NoGetFacts DEF GetsFit
<1>6. RemovesPending
  <2>. SUFFICES ASSUME NEW r \in Ranks, NEW d \in Ranks, NEW k \in Keys
                PROVE  tree[d][k] <= expected[r][d][k] + Owed(r, d, k)
    BY DEF RemovesPending
  <2>1. Req[r][d] \in Seq(Requests)
    <3>1. Req[r][d] = <<>> /\ <<>> \in Seq(Requests)
      BY <1>1
    <3>. QED
      BY <3>1, Zenon
  <2>2. Owed(r, d, k) \in Nat
    BY <2>1, PendingFacts DEF Owed
  <2>3. tree[d][k] = 0 /\ expected[r][d][k] = 0
    BY DEF Init, NoKeys
  <2>. QED
    BY <2>2, <2>3
<1>5. FoundHoped /\ HeldIsFound
  BY <1>1, <1>2 DEF FoundHoped, HeldIsFound, Init, Getting
<1>. QED
  BY <1>3, <1>4, <1>5, <1>6 DEF IInv
-----------------------------------------------------------------------------
(* What a step does to the channels                                        *)

(* Send appends to the queues from r to the ranks in "to" only.            *)
LEMMA SendEffect ==
    ASSUME TypeOK, NEW r \in Ranks, NEW to, NEW m \in Requests, Send(r, to, m)
    PROVE  /\ request' \in [Links -> Seq(Requests)]
           /\ \A s, d \in Ranks : Req'[s][d] =
                IF s = r /\ d \in to THEN Append(Req[s][d], m) ELSE Req[s][d]
<1>1. request \in [Links -> Seq(Requests)]
  BY DEF TypeOK
<1>2. request' \in [Links -> Seq(Requests)]
  BY <1>1 DEF Send, Links
<1>3. \A s, d \in Ranks : Req[s][d] = request[<<s, d>>] /\ Req'[s][d] = request'[<<s, d>>]
  BY DEF Req
<1>4. \A s, d \in Ranks : request'[<<s, d>>] =
         IF s = r /\ d \in to THEN Append(request[<<s, d>>], m) ELSE request[<<s, d>>]
  BY DEF Send, Links
<1>. QED
  BY <1>2, <1>3, <1>4

(* What a rank sends is a request.                                         *)
LEMMA MessageType ==
    ASSUME TypeOK, NEW r \in Ranks, NEW op \in {"GET", "REMOVE", "STOP"}, NEW k \in Keys
    PROVE  Message(r, op, k) \in Requests /\ Message(r, op, k).op = op /\ Message(r, op, k).key = k
  BY DEF TypeOK, Message, Requests

(* Takes removes the first request from one queue only.                    *)
LEMMA TakeEffect ==
    ASSUME TypeOK, NEW r \in Ranks, NEW s \in Ranks, NEW op, Takes(r, s, op)
    PROVE  /\ request' \in [Links -> Seq(Requests)]
           /\ Req[s][r] # <<>> /\ Req[s][r] \in Seq(Requests)
           /\ Head(Req[s][r]) = Req[s][r][1] /\ Req[s][r][1].op = op
           /\ Req[s][r][1] \in Requests
           /\ Req'[s][r] = Tail(Req[s][r])
           /\ \A t, d \in Ranks : ~(t = s /\ d = r) => Req'[t][d] = Req[t][d]
           /\ mixed' \in BOOLEAN
<1>1. request \in [Links -> Seq(Requests)] /\ mixed \in BOOLEAN
  BY DEF TypeOK
<1>2. \A t, d \in Ranks : Req[t][d] = request[<<t, d>>] /\ Req'[t][d] = request'[<<t, d>>]
  BY DEF Req
<1>3. <<s, r>> \in Links /\ request[<<s, r>>] \in Seq(Requests)
  BY <1>1 DEF Links
<1>4. /\ request[<<s, r>>] # <<>> /\ Head(request[<<s, r>>]).op = op
      /\ request' = [request EXCEPT ![<<s, r>>] = Tail(@)]
  BY DEF Takes
<1>5. Tail(request[<<s, r>>]) \in Seq(Requests)
  BY <1>3, <1>4
<1>6. /\ request' \in [Links -> Seq(Requests)]
      /\ request'[<<s, r>>] = Tail(request[<<s, r>>])
      /\ \A t, d \in Ranks : ~(t = s /\ d = r) => request'[<<t, d>>] = request[<<t, d>>]
  BY <1>1, <1>3, <1>4, <1>5 DEF Links
<1>7. /\ Head(request[<<s, r>>]) = request[<<s, r>>][1]
      /\ request[<<s, r>>][1] \in Requests
  BY <1>3, <1>4
<1>8. mixed' \in BOOLEAN
  BY <1>1, Zenon DEF Takes, Delivered
<1>9. Req[s][r] = request[<<s, r>>] /\ Req'[s][r] = request'[<<s, r>>]
  BY <1>2
<1>10. ASSUME NEW t \in Ranks, NEW d \in Ranks, ~(t = s /\ d = r)
       PROVE  Req'[t][d] = Req[t][d]
  <2>1. Req[t][d] = request[<<t, d>>] /\ Req'[t][d] = request'[<<t, d>>]
    BY <1>2
  <2>2. request'[<<t, d>>] = request[<<t, d>>]
    BY <1>6, <1>10
  <2>. QED
    BY <2>1, <2>2, Zenon
<1>. QED
  BY <1>3, <1>4, <1>6, <1>7, <1>8, <1>9, <1>10, Zenon

(* A rank in no call is in a state of the type.                            *)
LEMMA IdleType == Idle \in FgStates /\ Idle.pc = "idle" /\ Idle.idx = 0
  BY NumProcAssumption, KeysAssumption DEF Idle, FgLabels, FgStates

(* Serving a GET moves it from one queue to an answer in another.          *)
LEMMA ServeGetEffect ==
    ASSUME TypeOK, NEW r \in Ranks, NEW s \in Ranks, ServeGet(r, s)
    PROVE  /\ Takes(r, s, "GET") /\ Req[s][r][1].key \in Keys
           /\ result' \in [Links -> Seq(Results)]
           /\ Res'[r][s] = Append(Res[r][s], [key |-> Req[s][r][1].key,
                                              found |-> tree[r][Req[s][r][1].key] > 0])
           /\ \A t, d \in Ranks : ~(t = r /\ d = s) => Res'[t][d] = Res[t][d]
<1>. DEFINE k == Req[s][r][1].key
            e == [key |-> k, found |-> tree[r][k] > 0]
<1>1. Takes(r, s, "GET")
  BY DEF ServeGet
<1>2. Req[s][r][1] \in Requests /\ Head(Req[s][r]) = Req[s][r][1]
  BY <1>1, TakeEffect
<1>3. k \in Keys
  BY <1>2 DEF Requests
<1>4. e \in Results
  BY <1>3 DEF Results
<1>5. result \in [Links -> Seq(Results)] /\ <<r, s>> \in Links
  BY DEF TypeOK, Results, Links
<1>6. result' = [result EXCEPT ![<<r, s>>] = Append(@, e)]
  BY <1>2 DEF ServeGet, Req
<1>. HIDE DEF e
<1>7. /\ result' \in [Links -> Seq(Results)]
      /\ Res'[r][s] = Append(Res[r][s], e)
      /\ \A t, d \in Ranks : ~(t = r /\ d = s) => Res'[t][d] = Res[t][d]
  BY <1>4, <1>5, <1>6 DEF Links, Res
<1>. QED
  BY <1>1, <1>3, <1>7 DEF e

(* The bags of keys.                                                       *)
LEMMA BagTypes ==
    ASSUME NEW bag \in [Keys -> Nat], NEW k \in Keys
    PROVE  /\ Plus(bag, k) \in [Keys -> Nat] /\ Minus(bag, k) \in [Keys -> Nat]
           /\ NoKeys \in [Keys -> Nat] /\ \A x \in Keys : NoKeys[x] = 0
           /\ \A x \in Keys : Plus(bag, k)[x] = IF x = k THEN bag[x] + 1 ELSE bag[x]
           /\ \A x \in Keys : Minus(bag, k)[x] = IF x = k THEN Less(bag[x]) ELSE bag[x]
  BY DEF Plus, Minus, NoKeys, Less

(* An insert adds one, and the others know.                                *)
LEMMA InsertEffect ==
    ASSUME TypeOK, NEW r \in Ranks, NEW k \in Keys, Insert(r, k)
    PROVE  /\ tree' \in [Ranks -> [Keys -> Nat]]
           /\ expected' \in [Ranks -> [Ranks -> [Keys -> Nat]]]
           /\ \A e \in Ranks, x \in Keys :
                 tree'[e][x] = IF e = r /\ x = k THEN tree[e][x] + 1 ELSE tree[e][x]
           /\ \A t, e \in Ranks, x \in Keys : expected'[t][e][x] =
                 IF e = r /\ x = k THEN expected[t][e][x] + 1 ELSE expected[t][e][x]
<1>. DEFINE B == [Keys -> Nat]
<1>1. tree \in [Ranks -> B] /\ expected \in [Ranks -> [Ranks -> B]]
  BY DEF TypeOK
<1>2. \A bag \in B : /\ Plus(bag, k) \in B
                     /\ \A x \in Keys : Plus(bag, k)[x] = IF x = k THEN bag[x] + 1 ELSE bag[x]
  BY BagTypes
<1>3. /\ tree' = [tree EXCEPT ![r] = Plus(@, k)]
      /\ expected' = [t \in Ranks |-> [expected[t] EXCEPT ![r] = Plus(@, k)]]
  BY DEF Insert
<1>. HIDE DEF B
<1>4. tree' \in [Ranks -> B] /\ \A e \in Ranks : tree'[e] = IF e = r THEN Plus(tree[e], k) ELSE tree[e]
  BY <1>1, <1>2, <1>3
<1>5. ASSUME NEW t \in Ranks
      PROVE  /\ expected'[t] \in [Ranks -> B]
             /\ \A e \in Ranks : expected'[t][e] =
                   IF e = r THEN Plus(expected[t][e], k) ELSE expected[t][e]
  <2>1. expected'[t] = [expected[t] EXCEPT ![r] = Plus(@, k)] /\ expected[t] \in [Ranks -> B]
    BY <1>1, <1>3
  <2>2. Plus(expected[t][r], k) \in B
    BY <1>2, <2>1
  <2>. QED
    BY <2>1, <2>2
<1>6. expected' \in [Ranks -> [Ranks -> B]]
  BY <1>3, <1>5
<1>7. \A e \in Ranks, x \in Keys :
         tree'[e][x] = IF e = r /\ x = k THEN tree[e][x] + 1 ELSE tree[e][x]
  BY <1>1, <1>2, <1>4
<1>8. \A t, e \in Ranks, x \in Keys : expected'[t][e][x] =
         IF e = r /\ x = k THEN expected[t][e][x] + 1 ELSE expected[t][e][x]
  BY <1>1, <1>2, <1>5
<1>. QED
  BY <1>4, <1>6, <1>7, <1>8 DEF B

(* A rank that calls remove expects a copy less in every tree.             *)
LEMMA RemoveSendEffect ==
    ASSUME TypeOK, NEW r \in Ranks, NEW k \in Keys, RemoveSend(r, k)
    PROVE  /\ expected' \in [Ranks -> [Ranks -> [Keys -> Nat]]]
           /\ \A t, e \in Ranks, x \in Keys : expected'[t][e][x] =
                 IF t = r /\ x = k THEN Less(expected[t][e][x]) ELSE expected[t][e][x]
<1>. DEFINE B == [Keys -> Nat]
            E == [d \in Ranks |-> Minus(expected[r][d], k)]
<1>1. expected \in [Ranks -> [Ranks -> B]]
  BY DEF TypeOK
<1>2. \A bag \in B : /\ Minus(bag, k) \in B
                     /\ \A x \in Keys : Minus(bag, k)[x] = IF x = k THEN Less(bag[x]) ELSE bag[x]
  BY BagTypes
<1>3. expected' = [expected EXCEPT ![r] = E]
  BY DEF RemoveSend
<1>. HIDE DEF B
<1>4. E \in [Ranks -> B] /\ \A d \in Ranks : E[d] = Minus(expected[r][d], k)
  BY <1>1, <1>2
<1>. HIDE DEF E
<1>5. /\ expected' \in [Ranks -> [Ranks -> B]]
      /\ \A t \in Ranks : expected'[t] = IF t = r THEN E ELSE expected[t]
  BY <1>1, <1>3, <1>4
<1>6. \A t, e \in Ranks, x \in Keys : expected'[t][e][x] =
         IF t = r /\ x = k THEN Less(expected[t][e][x]) ELSE expected[t][e][x]
  BY <1>1, <1>2, <1>4, <1>5
<1>. QED
  BY <1>5, <1>6 DEF B

(* A remove takes one copy.                                                *)
LEMMA TakeCopyEffect ==
    ASSUME TypeOK, NEW d \in Ranks, NEW k \in Keys, NEW s \in Ranks, TakeCopy(d, k, s)
    PROVE  /\ tree' \in [Ranks -> [Keys -> Nat]]
           /\ expected' \in [Ranks -> [Ranks -> [Keys -> Nat]]]
           /\ held' \in [Ranks -> SUBSET Ranks]
           /\ \A e \in Ranks, x \in Keys :
                 tree'[e][x] = IF e = d /\ x = k THEN Less(tree[e][x]) ELSE tree[e][x]
           /\ \A t, e \in Ranks, x \in Keys : expected'[t][e][x] =
                 IF t # s /\ e = d /\ x = k THEN Less(expected[t][e][x]) ELSE expected[t][e][x]
<1>1. /\ tree \in [Ranks -> [Keys -> Nat]] /\ held \in [Ranks -> SUBSET Ranks]
      /\ expected \in [Ranks -> [Ranks -> [Keys -> Nat]]]
  BY DEF TypeOK
<1>2. /\ tree' \in [Ranks -> [Keys -> Nat]]
      /\ \A e \in Ranks : tree'[e] = IF e = d THEN Minus(tree[e], k) ELSE tree[e]
  BY <1>1, BagTypes DEF TakeCopy
<1>3. /\ expected' \in [Ranks -> [Ranks -> [Keys -> Nat]]]
      /\ \A t, e \in Ranks : expected'[t][e] =
            IF t # s /\ e = d THEN Minus(expected[t][e], k) ELSE expected[t][e]
  <2>1. ASSUME NEW t \in Ranks
        PROVE  /\ expected'[t] \in [Ranks -> [Keys -> Nat]]
               /\ \A e \in Ranks : expected'[t][e] =
                     IF t # s /\ e = d THEN Minus(expected[t][e], k) ELSE expected[t][e]
    <3>1. Minus(expected[t][d], k) \in [Keys -> Nat]
      <4>1. expected[t][d] \in [Keys -> Nat]
        BY <1>1
      <4>. QED
        BY <4>1, BagTypes
    <3>2. expected'[t] = IF t = s THEN expected[t]
                         ELSE [expected[t] EXCEPT ![d] = Minus(@, k)]
      BY DEF TakeCopy
    <3>. QED
      BY <1>1, <3>1, <3>2
  <2>2. expected' = [t \in Ranks |-> expected'[t]]
    BY DEF TakeCopy
  <2>. QED
    BY <2>1, <2>2
<1>. DEFINE B == [Keys -> Nat]
<1>4. \A t, e \in Ranks : tree[e] \in B /\ expected[t][e] \in B
  BY <1>1
<1>5. \A bag \in B, x \in Keys : Minus(bag, k)[x] = IF x = k THEN Less(bag[x]) ELSE bag[x]
  BY BagTypes
<1>. HIDE DEF B
<1>6. held' \in [Ranks -> SUBSET Ranks]
  BY <1>1 DEF TakeCopy
<1>7. \A e \in Ranks, x \in Keys :
         tree'[e][x] = IF e = d /\ x = k THEN Less(tree[e][x]) ELSE tree[e][x]
  BY <1>2, <1>4, <1>5
<1>8. \A t, e \in Ranks, x \in Keys : expected'[t][e][x] =
         IF t # s /\ e = d /\ x = k THEN Less(expected[t][e][x]) ELSE expected[t][e][x]
  BY <1>3, <1>4, <1>5
<1>. QED
  BY <1>2, <1>3, <1>6, <1>7, <1>8

(* When it was the last, whoever gets the key may miss it.                 *)
LEMMA HeldTaken ==
    ASSUME TypeOK, NEW d \in Ranks, NEW k \in Keys, NEW s \in Ranks, TakeCopy(d, k, s)
    PROVE  \A t \in Ranks : held'[t] =
              IF fg[t].key = k /\ Less(tree[d][k]) = 0 THEN held[t] \ {d} ELSE held[t]
<1>1. tree'[d][k] = Less(tree[d][k])
  BY TakeCopyEffect
<1>. QED
  BY <1>1 DEF TakeCopy

(* Every queue between two ranks holds requests, or results.               *)
LEMMA ChannelTypes ==
    ASSUME TypeOK, NEW r \in Ranks, NEW s \in Ranks
    PROVE  /\ Req[r][s] \in Seq(Requests) /\ Res[r][s] \in Seq(Results)
           /\ fg[r] \in FgStates
  BY DEF TypeOK, Links, Results, FgStates, FgLabels, Req, Res

(* Every step keeps the types.                                             *)
LEMMA TypeKept ==
    ASSUME TypeOK, [Next]_vars
    PROVE  TypeOK'
<1>. USE NumProcAssumption, BoundAssumption, IdleType DEF TypeOK, FgStates, FgLabels
<1>1. CASE UNCHANGED vars
  BY <1>1 DEF vars, channels, ghosts
<1>2. ASSUME NEW r \in Ranks, Begin(r) PROVE TypeOK'
  <2>1. ASSUME NEW k \in Keys, Insert(r, k) PROVE TypeOK'
    <3>1. hope' \in [Ranks -> BOOLEAN]
      BY <2>1 DEF Insert, Getting
    <3>3. tree' \in [Ranks -> [Keys -> Nat]] /\ expected' \in [Ranks -> [Ranks -> [Keys -> Nat]]]
      BY <2>1, InsertEffect
    <3>2. ops' \in [Ranks -> Nat]
      BY <2>1 DEF Insert, Calls
    <3>. QED
      BY <2>1, <3>1, <3>2, <3>3 DEF Insert, channels
  <2>2. ASSUME NEW k \in Keys, RemoveSend(r, k) PROVE TypeOK'
    <3>1. request' \in [Links -> Seq(Requests)]
      BY <2>2, SendEffect, MessageType DEF RemoveSend, Others
    <3>. QED
      <4>1. fg' \in [Ranks -> FgStates]
        BY <2>2 DEF RemoveSend
      <4>3. expected' \in [Ranks -> [Ranks -> [Keys -> Nat]]]
        BY <2>2, RemoveSendEffect
      <4>2. ops' \in [Ranks -> Nat]
        <5>1. /\ ops \in [Ranks -> Nat]
              /\ ops' = [ops EXCEPT ![r] = @ + 1]
          BY <2>2 DEF RemoveSend, Calls
        <5>. HIDE DEF TypeOK
        <5>. QED
          BY <5>1
      <4>. QED
        BY <2>2, <3>1, <4>1, <4>2, <4>3 DEF RemoveSend
  <2>3. ASSUME NEW k \in Keys, GetSend(r, k) PROVE TypeOK'
    <3>1. request' \in [Links -> Seq(Requests)]
      BY <2>3, SendEffect, MessageType DEF GetSend, Others
    <3>. QED
      <4>1. fg' \in [Ranks -> FgStates]
        BY <2>3 DEF GetSend
      <4>2. held' \in [Ranks -> SUBSET Ranks] /\ hope' \in [Ranks -> BOOLEAN]
        BY <2>3 DEF GetSend
      <4>3. ops' \in [Ranks -> Nat]
        <5>1. /\ ops \in [Ranks -> Nat]
              /\ ops' = [ops EXCEPT ![r] = @ + 1]
          BY <2>3 DEF GetSend, Calls
        <5>. HIDE DEF TypeOK
        <5>. QED
          BY <5>1
      <4>. QED
        BY <2>3, <3>1, <4>1, <4>2, <4>3 DEF GetSend
  <2>4. CASE StopSend(r)
    <3>1. request' \in [Links -> Seq(Requests)]
      BY <2>4, SendEffect, MessageType DEF StopSend
    <3>. QED
      BY <2>4, <3>1 DEF StopSend, Idle, ghosts
  <2>5. CASE Construct(r)
    <3>1. fg' \in [Ranks -> FgStates] /\ bg' \in [Ranks -> {"run", "done"}]
      BY <2>5 DEF Construct
    <3>2. /\ tree' \in [Ranks -> [Keys -> Nat]] /\ held' \in [Ranks -> SUBSET Ranks]
          /\ expected' \in [Ranks -> [Ranks -> [Keys -> Nat]]]
      BY <2>5, BagTypes DEF Construct, NoKeys
    <3>3. generation' \in [Ranks -> 1 .. MaxGeneration]
      BY <2>5 DEF Construct
    <3>4. stops' \in [Ranks -> 0 .. NumProc] /\ ops' \in [Ranks -> Nat]
      BY <2>5 DEF Construct
    <3>. QED
      BY <2>5, <3>1, <3>2, <3>3, <3>4 DEF Construct, channels
  <2>. QED
    BY <1>2, <2>1, <2>2, <2>3, <2>4, <2>5 DEF Begin
<1>3. ASSUME NEW r \in Ranks, Continue(r) PROVE TypeOK'
  <2>1. CASE RemoveLocal(r)
    <3>1. fg[r].key \in Keys
      OBVIOUS
    <3>2. /\ tree' \in [Ranks -> [Keys -> Nat]] /\ held' \in [Ranks -> SUBSET Ranks]
          /\ expected' \in [Ranks -> [Ranks -> [Keys -> Nat]]]
      BY <2>1, <3>1, TakeCopyEffect DEF RemoveLocal
    <3>. QED
      BY <2>1, <3>2 DEF RemoveLocal, channels
  <2>2. CASE GetLocal(r)
    <3>1. fg' \in [Ranks -> FgStates]
      <4>1. (tree[r][fg[r].key] > 0) \in BOOLEAN
        OBVIOUS
      <4>. QED
        BY <2>2, <4>1 DEF GetLocal
    <3>. QED
      BY <2>2, <3>1 DEF GetLocal, channels, ghosts
  <2>3. CASE GetReceive(r)
    <3>. DEFINE s == fg[r].idx
    <3>1. s \in Nat /\ s + 1 \in 0 .. NumProc /\ s \in Ranks
      <4>1. s \in 0 .. NumProc /\ s < NumProc
        BY <2>3 DEF GetReceive
      <4>. HIDE DEF TypeOK, s
      <4>. QED
        BY <4>1 DEF Ranks
    <3>2. CASE s = r
      <4>1. fg' = [fg EXCEPT ![r].idx = s + 1] /\ UNCHANGED result
        BY <2>3, <3>2 DEF GetReceive
      <4>2. fg' \in [Ranks -> FgStates]
        BY <3>1, <4>1
      <4>. QED
        BY <2>3, <4>1, <4>2 DEF GetReceive, ghosts
    <3>3. CASE s # r
      <4>1. Res[s][r] \in Seq(Results) /\ Res[s][r] # <<>>
        BY <2>3, <3>1, <3>3 DEF GetReceive, Links, Results, Res
      <4>2. Head(Res[s][r]) \in Results /\ Tail(Res[s][r]) \in Seq(Results)
        BY <4>1
      <4>3. Combine(fg[r].found, Head(Res[s][r]).found) \in BOOLEAN
        BY DEF Combine
      <4>4. fg' = [fg EXCEPT ![r] = [@ EXCEPT !.idx = s + 1,
                       !.found = Combine(fg[r].found, Head(Res[s][r]).found)]]
        BY <2>3, <3>1, <3>3 DEF GetReceive, Res
      <4>6. fg' \in [Ranks -> FgStates]
        BY <3>1, <4>3, <4>4
      <4>5. result' \in [Links -> Seq(Results)]
        BY <2>3, <3>1, <3>3, <4>2 DEF GetReceive, Results, Res
      <4>. QED
        BY <2>3, <4>6, <4>5 DEF GetReceive, ghosts, Results
    <3>. QED
      BY <3>2, <3>3
  <2>4. CASE GetReturn(r)
    BY <2>4 DEF GetReturn, Idle, channels
  <2>5. CASE AckReceive(r)
    <3>1. fg[r].idx \in Ranks /\ fg[r].idx + 1 \in 0 .. NumProc
      <4>1. fg[r].idx \in 0 .. NumProc /\ fg[r].idx < NumProc
        BY <2>5 DEF AckReceive
      <4>. HIDE DEF TypeOK
      <4>. QED
        BY <4>1 DEF Ranks
    <3>2. acks' \in [Links -> Nat]
      <4>1. /\ acks \in [Links -> Nat] /\ acks[<<fg[r].idx, r>>] > 0
            /\ acks' = [acks EXCEPT ![<<fg[r].idx, r>>] = @ - 1]
        BY <2>5 DEF AckReceive, AckArrived
      <4>. HIDE DEF TypeOK
      <4>. QED
        BY <3>1, <4>1 DEF Links
    <3>3. fg' \in [Ranks -> FgStates]
      BY <2>5, <3>1 DEF AckReceive
    <3>. QED
      BY <2>5, <3>2, <3>3 DEF AckReceive, ghosts
  <2>6. CASE Join(r)
    BY <2>6 DEF Join, channels, ghosts
  <2>. QED
    BY <1>3, <2>1, <2>2, <2>3, <2>4, <2>5, <2>6 DEF Continue
<1>4. ASSUME NEW r \in Ranks, Background(r) PROVE TypeOK'
  <2>1. CASE Exit(r)
    BY <2>1 DEF Exit, channels, ghosts
  <2>2. ASSUME NEW s \in Ranks, ServeGet(r, s) PROVE TypeOK'
    BY <2>2, ServeGetEffect, TakeEffect DEF ServeGet, Results
  <2>3. ASSUME NEW s \in Ranks, ServeRemove(r, s) PROVE TypeOK'
    <3>1. Takes(r, s, "REMOVE")
      BY <2>3 DEF ServeRemove
    <3>2. Head(request[<<s, r>>]) = Req[s][r][1] /\ Req[s][r][1].key \in Keys
      <4>1. Req[s][r][1] \in Requests /\ Head(Req[s][r]) = Req[s][r][1]
        BY <3>1, TakeEffect
      <4>2. Req[s][r] = request[<<s, r>>]
        BY DEF Req
      <4>. HIDE DEF TypeOK
      <4>. QED
        BY <4>1, <4>2 DEF Requests
    <3>3. /\ tree' \in [Ranks -> [Keys -> Nat]] /\ held' \in [Ranks -> SUBSET Ranks]
          /\ expected' \in [Ranks -> [Ranks -> [Keys -> Nat]]]
      BY <2>3, <3>2, TakeCopyEffect DEF ServeRemove
    <3>. QED
      BY <2>3, <3>1, <3>3, TakeEffect DEF ServeRemove
  <2>4. ASSUME NEW s \in Ranks, ServeStop(r, s) PROVE TypeOK'
    <3>1. Takes(r, s, "STOP")
      BY <2>4 DEF ServeStop
    <3>2. stops' \in [Ranks -> 0 .. NumProc]
      <4>1. stops[r] < NumProc
        BY <3>1 DEF Takes, StopsNeeded
      <4>2. stops' = [stops EXCEPT ![r] = @ + 1] /\ stops \in [Ranks -> 0 .. NumProc]
        BY <2>4 DEF ServeStop
      <4>. HIDE DEF TypeOK
      <4>. QED
        BY <4>1, <4>2
    <3>3. acks' \in [Links -> Nat]
      <4>1. acks' = [acks EXCEPT ![<<r, s>>] = @ + 1] /\ acks \in [Links -> Nat]
        BY <2>4 DEF ServeStop
      <4>. HIDE DEF TypeOK
      <4>. QED
        BY <4>1 DEF Links
    <3>. QED
      BY <2>4, <3>1, <3>2, <3>3, TakeEffect DEF ServeStop
  <2>. QED
    BY <1>4, <2>1, <2>2, <2>3, <2>4 DEF Background
<1>. QED
  BY <1>1, <1>2, <1>3, <1>4 DEF Next, AllExited
-----------------------------------------------------------------------------
(* GetsFit                                                                 *)

(* A step that leaves the channels alone, and the gets under way.          *)
LEMMA GetsFitUndisturbed ==
    ASSUME GetsFit, UNCHANGED <<Req, Res, Awaited>>,
           \A r \in Ranks : Awaited[r] # {} => fg'[r].key = fg[r].key
    PROVE  GetsFit'
  BY DEF GetsFit

(* A rank that is in no get sends a request to some ranks.                 *)
LEMMA SendKeepsGetsFit ==
    ASSUME TypeOK, GetsFit, NEW r \in Ranks, NEW to, NEW m \in Requests,
           Send(r, to, m), Awaited[r] = {}, UNCHANGED Res,
           \A t \in Ranks \ {r} : fg'[t] = fg[t] /\ Awaited'[t] = Awaited[t],
           IF m.op = "GET" THEN Awaited'[r] = to /\ m.key = fg'[r].key ELSE Awaited'[r] = {}
    PROVE  GetsFit'
<1>1. \A t, s \in Ranks : Req'[t][s] =
         IF t = r /\ s \in to THEN Append(Req[t][s], m) ELSE Req[t][s]
  BY SendEffect
<1>2. ASSUME NEW s \in Ranks
      PROVE  /\ s \in Awaited'[r] => GetLast(Req'[r][s], fg'[r].key)
             /\ s \notin Awaited'[r] => NoGet(Req'[r][s])
             /\ Res'[s][r] = <<>>
  <2>1. NoGet(Req[r][s]) /\ Res[s][r] = <<>> /\ Req[r][s] \in Seq(Requests)
    BY ChannelTypes DEF GetsFit
  <2>. QED
    BY <1>1, <2>1, NoGetFacts
<1>3. ASSUME NEW t \in Ranks, NEW s \in Ranks, t # r
      PROVE  Req'[t][s] = Req[t][s] /\ fg'[t] = fg[t] /\ Awaited'[t] = Awaited[t]
  BY <1>1, <1>3
<1>. QED
  BY <1>2, <1>3 DEF GetsFit

(* A request other than a GET is taken.                                    *)
LEMMA TakeKeepsGetsFit ==
    ASSUME TypeOK, GetsFit, NEW r \in Ranks, NEW s \in Ranks, NEW op, Takes(r, s, op),
           op # "GET", UNCHANGED <<fg, Res, Awaited>>
    PROVE  GetsFit'
<1>1. /\ Req[s][r] \in Seq(Requests) /\ Req[s][r] # <<>>
      /\ Req'[s][r] = Tail(Req[s][r])
      /\ \A t, d \in Ranks : ~(t = s /\ d = r) => Req'[t][d] = Req[t][d]
  BY TakeEffect
<1>2. /\ r \in Awaited[s] => GetLast(Req'[s][r], fg[s].key)
      /\ NoGet(Req[s][r]) => NoGet(Req'[s][r])
  BY <1>1, GetLastFacts, NoGetFacts DEF GetsFit
<1>. QED
  BY <1>1, <1>2 DEF GetsFit

(* A GET is taken and answered.                                            *)
LEMMA ServeGetKeepsGetsFit ==
    ASSUME TypeOK, GetsFit, NEW r \in Ranks, NEW s \in Ranks, ServeGet(r, s),
           UNCHANGED <<fg, Awaited>>
    PROVE  /\ GetsFit'
           /\ Req[s][r][1].key = fg[s].key /\ Tail(Req[s][r]) = <<>>
           /\ Res'[r][s] # <<>> /\ Res'[r][s][1].found = (tree[r][fg[s].key] > 0)
<1>0. Takes(r, s, "GET")
  BY DEF ServeGet
<1>1. /\ Req[s][r] \in Seq(Requests) /\ Req[s][r] # <<>> /\ Req[s][r][1].op = "GET"
      /\ Req'[s][r] = Tail(Req[s][r])
      /\ \A t, d \in Ranks : ~(t = s /\ d = r) => Req'[t][d] = Req[t][d]
  BY <1>0, TakeEffect
<1>2. ~NoGet(Req[s][r])
  BY <1>1 DEF NoGet
<1>3. r \in Awaited[s] /\ GetLast(Req[s][r], fg[s].key) /\ Res[r][s] = <<>>
  BY <1>2 DEF GetsFit
<1>4. Req[s][r][1].key = fg[s].key /\ Req'[s][r] = <<>>
  BY <1>1, <1>3, GetLastFacts
<1>5. /\ Res'[r][s] # <<>> /\ Len(Res'[r][s]) = 1 /\ Res'[r][s][1].key = fg[s].key
      /\ Res'[r][s][1].found = (tree[r][fg[s].key] > 0)
  <2>. DEFINE e == [key |-> Req[s][r][1].key, found |-> tree[r][Req[s][r][1].key] > 0]
  <2>1. Res'[r][s] = Append(Res[r][s], e) /\ e \in Results
    BY ServeGetEffect DEF Results
  <2>2. Res[r][s] \in Seq(Results)
    BY ChannelTypes
  <2>3. e.key = fg[s].key /\ e.found = (tree[r][fg[s].key] > 0)
    BY <1>4
  <2>. HIDE DEF e
  <2>. QED
    BY <1>3, <2>1, <2>2, <2>3, OneElement
<1>6. \A t, d \in Ranks : ~(t = r /\ d = s) => Res'[t][d] = Res[t][d]
  BY ServeGetEffect
<1>7. GetsFit'
  <2>1. NoGet(Req'[s][r]) /\ GetLast(Req'[s][r], fg[s].key)
    BY <1>4, NoGetFacts DEF GetLast
  <2>. QED
    BY <1>1, <1>3, <1>5, <1>6, <2>1 DEF GetsFit
<1>. QED
  BY <1>1, <1>4, <1>5, <1>7
-----------------------------------------------------------------------------
(* What the invariant says of a rank that is in no get                     *)

(* A rank in no get awaits no result, and none is on its way to it.        *)
LEMMA OutsideGets ==
    ASSUME IInv, NEW r \in Ranks, fg[r].pc \notin {"look", "collect"}
    PROVE  Awaited[r] = {} /\ held[r] = {} /\ \A s \in Ranks : Res[s][r] = <<>>
  BY DEF IInv, GetsFit, HeldIsFound, Awaited, TypeOK

(* Copies are numbers, and so is what is owed.                             *)
LEMMA CopyTypes ==
    ASSUME TypeOK, NEW r \in Ranks, NEW d \in Ranks, NEW k \in Keys
    PROVE  tree[d][k] \in Nat /\ expected[r][d][k] \in Nat /\ Owed(r, d, k) \in Nat
<1>1. Owed(r, d, k) \in Nat
  BY ChannelTypes, PendingFacts DEF Owed
<1>. QED
  BY <1>1 DEF TypeOK

(* Where nothing is owed a tree has no more than is expected.              *)
LEMMA NothingOwed ==
    ASSUME IInv, NEW r \in Ranks, NEW d \in Ranks, NEW k \in Keys, Owed(r, d, k) = 0
    PROVE  tree[d][k] > 0 => expected[r][d][k] > 0
  BY CopyTypes DEF IInv, RemovesPending

(* A rank owes its own tree nothing, but in a remove.                      *)
LEMMA OwnRemoves ==
    ASSUME NEW r \in Ranks, fg[r].pc # "remove", NEW k \in Keys
    PROVE  Owed(r, r, k) = 0
  BY DEF Owed

(* What is owed stays when no remove is sent, begun or executed.           *)
OtherThanRemove(p, q) ==
    \/ p = q
    \/ \E m \in Requests : m.op # "REMOVE" /\ p = Append(q, m)
    \/ q # <<>> /\ q[1].op # "REMOVE" /\ p = Tail(q)

LEMMA OwedKept ==
    ASSUME TypeOK, \A t, e \in Ranks : OtherThanRemove(Req'[t][e], Req[t][e]),
           \A t \in Ranks : fg'[t] = fg[t] \/ (fg[t].pc # "remove" /\ fg'[t].pc # "remove"),
           NEW r \in Ranks, NEW d \in Ranks, NEW k \in Keys
    PROVE  Owed(r, d, k)' = Owed(r, d, k)
<1>1. Pending(Req'[r][d], k) = Pending(Req[r][d], k)
  <2>1. Req[r][d] \in Seq(Requests) /\ OtherThanRemove(Req'[r][d], Req[r][d])
    BY ChannelTypes
  <2>2. Pending(Req[r][d], k) \in Nat
    BY <2>1, PendingFacts
  <2>3. ASSUME NEW m \in Requests, m.op # "REMOVE"
        PROVE  Pending(Append(Req[r][d], m), k) = Pending(Req[r][d], k)
    BY <2>1, <2>2, <2>3, PendingFacts DEF IsRemove
  <2>4. Req[r][d] # <<>> /\ Req[r][d][1].op # "REMOVE"
           => Pending(Tail(Req[r][d]), k) = Pending(Req[r][d], k)
    BY <2>1, <2>2, PendingFacts DEF IsRemove
  <2>5. CASE Req'[r][d] = Req[r][d]
    BY <2>5, Zenon
  <2>6. CASE \E m \in Requests : m.op # "REMOVE" /\ Req'[r][d] = Append(Req[r][d], m)
    <3>1. PICK m \in Requests : m.op # "REMOVE" /\ Req'[r][d] = Append(Req[r][d], m)
      BY <2>6
    <3>2. Pending(Append(Req[r][d], m), k) = Pending(Req[r][d], k)
      BY <2>3, <3>1
    <3>. QED
      BY <3>1, <3>2, Zenon
  <2>7. CASE Req[r][d] # <<>> /\ Req[r][d][1].op # "REMOVE" /\ Req'[r][d] = Tail(Req[r][d])
    BY <2>4, <2>7, Zenon
  <2>8. \/ Req'[r][d] = Req[r][d]
        \/ \E m \in Requests : m.op # "REMOVE" /\ Req'[r][d] = Append(Req[r][d], m)
        \/ Req[r][d] # <<>> /\ Req[r][d][1].op # "REMOVE" /\ Req'[r][d] = Tail(Req[r][d])
    BY <2>1, Zenon DEF OtherThanRemove
  <2>. QED
    BY <2>5, <2>6, <2>7, <2>8, Zenon
<1>2. fg'[r] = fg[r] \/ (fg[r].pc # "remove" /\ fg'[r].pc # "remove")
  OBVIOUS
<1>. QED
  BY <1>1, <1>2 DEF Owed

(* A step that takes no copy away and adds none, and begins no remove ...  *)
LEMMA PendingKept ==
    ASSUME RemovesPending, TypeOK, UNCHANGED <<tree, expected>>,
           \A t, e \in Ranks : OtherThanRemove(Req'[t][e], Req[t][e]),
           \A t \in Ranks : fg'[t] = fg[t] \/ (fg[t].pc # "remove" /\ fg'[t].pc # "remove")
    PROVE  RemovesPending'
<1>1. \A r, d \in Ranks, k \in Keys : Owed(r, d, k)' = Owed(r, d, k)
  BY OwedKept
<1>. QED
  BY <1>1 DEF RemovesPending

(* ... and one in which a rank takes a copy, for itself or for another.    *)
LEMMA TakenIsPaid ==
    ASSUME IInv, NEW d \in Ranks, NEW k \in Keys, NEW s \in Ranks, TakeCopy(d, k, s),
           \A t, e \in Ranks, x \in Keys :
              /\ Owed(t, e, x)' \in Nat
              /\ ~(t = s /\ e = d /\ x = k) => Owed(t, e, x)' = Owed(t, e, x),
           Owed(s, d, k)' >= Owed(s, d, k) - 1
    PROVE  RemovesPending'
<1>. SUFFICES ASSUME NEW t \in Ranks, NEW e \in Ranks, NEW x \in Keys
              PROVE  tree'[e][x] <= expected'[t][e][x] + Owed(t, e, x)'
  BY DEF RemovesPending
<1>1. /\ tree[e][x] \in Nat /\ expected[t][e][x] \in Nat /\ Owed(t, e, x) \in Nat
      /\ tree[e][x] <= expected[t][e][x] + Owed(t, e, x)
  BY CopyTypes DEF IInv, RemovesPending
<1>2. /\ tree'[e][x] = IF e = d /\ x = k THEN Less(tree[e][x]) ELSE tree[e][x]
      /\ expected'[t][e][x] = IF t # s /\ e = d /\ x = k THEN Less(expected[t][e][x])
                              ELSE expected[t][e][x]
  BY TakeCopyEffect DEF IInv
<1>3. CASE ~(e = d /\ x = k)
  BY <1>1, <1>2, <1>3
<1>4. CASE e = d /\ x = k /\ t # s
  <2>1. Less(tree[e][x]) <= Less(expected[t][e][x]) + Owed(t, e, x)
    BY <1>1, LessFacts
  <2>2. Owed(t, e, x)' = Owed(t, e, x)
    BY <1>4
  <2>3. tree'[e][x] = Less(tree[e][x]) /\ expected'[t][e][x] = Less(expected[t][e][x])
    BY <1>2, <1>4
  <2>. QED
    BY <2>1, <2>2, <2>3, Zenon
<1>5. CASE e = d /\ x = k /\ t = s
  <2>1. Owed(t, e, x)' \in Nat /\ Owed(t, e, x)' >= Owed(t, e, x) - 1
    BY <1>5
  <2>2. Less(tree[e][x]) <= expected[t][e][x] + Owed(t, e, x)'
    BY <1>1, <2>1, LessFacts
  <2>3. tree'[e][x] = Less(tree[e][x]) /\ expected'[t][e][x] = expected[t][e][x]
    BY <1>2, <1>5
  <2>. QED
    BY <2>2, <2>3, Zenon
<1>. QED
  BY <1>3, <1>4, <1>5

(* Nothing more is hoped for when expectations shrink.                     *)
LEMMA HopeKept ==
    ASSUME FoundHoped, TypeOK, UNCHANGED <<Res, hope>>,
           \A t \in Ranks : fg'[t] = fg[t] \/ (~Getting(t)' /\ ~Getting(t)),
           \A t, e \in Ranks, x \in Keys : expected'[t][e][x] > 0 => expected[t][e][x] > 0
    PROVE  FoundHoped'
<1>. SUFFICES ASSUME NEW t \in Ranks
              PROVE  /\ Getting(t)' => \A d \in Ranks : expected'[t][d][fg'[t].key] > 0 => hope[t]
                     /\ fg'[t].pc = "collect" /\ fg'[t].found => hope[t]
                     /\ \A s \in Ranks : Res[s][t] # <<>> /\ Res[s][t][1].found => hope[t]
  BY DEF FoundHoped
<1>1. \A s \in Ranks : Res[s][t] # <<>> /\ Res[s][t][1].found => hope[t]
  BY DEF FoundHoped
<1>2. CASE fg'[t] = fg[t]
  <2>1. fg[t].key \in Keys
    BY DEF TypeOK
  <2>. QED
    BY <1>1, <1>2, <2>1 DEF FoundHoped, Getting
<1>3. CASE ~Getting(t)'
  BY <1>1, <1>3 DEF Getting
<1>. QED
  BY <1>2, <1>3

(* Those who have held the key all the time are ranks.                     *)
LEMMA HeldAreRanks == IInv => \A r \in Ranks : held[r] \subseteq Ranks
  BY DEF IInv, TypeOK

(* Which results a rank awaits after a step.                               *)
LEMMA AwaitedNext ==
    \A r, s \in Ranks :
       s \in Awaited'[r] <=> fg'[r].pc \in {"look", "collect"} /\ s # r /\ fg'[r].idx <= s
  BY DEF Awaited

Protocol == GetsFit /\ RemovesPending /\ FoundHoped /\ HeldIsFound

(* Insert changes one tree, and what is expected of it; it sends nothing.  *)
LEMMA InsertKept ==
    ASSUME IInv, NEW r \in Ranks, NEW k \in Keys, Insert(r, k)
    PROVE  Protocol'
<1>0. TypeOK
  BY DEF IInv
<1>1. UNCHANGED <<Req, Res, Awaited, fg, held>>
  BY DEF Insert, channels, Req, Res, Awaited
<1>2. GetsFit'
  BY <1>1, GetsFitUndisturbed DEF IInv
<1>3. \A e \in Ranks, x \in Keys :
         tree'[e][x] = IF e = r /\ x = k THEN tree[e][x] + 1 ELSE tree[e][x]
  BY <1>0, InsertEffect
<1>4. \A t, e \in Ranks, x \in Keys : expected'[t][e][x] =
         IF e = r /\ x = k THEN expected[t][e][x] + 1 ELSE expected[t][e][x]
  BY <1>0, InsertEffect
<1>5. \A t \in Ranks : hope'[t] = (hope[t] \/ (Getting(t) /\ fg[t].key = k))
  BY DEF Insert
<1>6. RemovesPending'
  <2>. SUFFICES ASSUME NEW t \in Ranks, NEW e \in Ranks, NEW x \in Keys
                PROVE  tree'[e][x] <= expected'[t][e][x] + Owed(t, e, x)'
    BY DEF RemovesPending
  <2>1. Owed(t, e, x)' = Owed(t, e, x)
    BY <1>1 DEF Owed
  <2>2. tree[e][x] <= expected[t][e][x] + Owed(t, e, x)
    BY DEF IInv, RemovesPending
  <2>. QED
    BY <1>0, <1>3, <1>4, <2>1, <2>2, CopyTypes
<1>7. FoundHoped'
  <2>. SUFFICES ASSUME NEW t \in Ranks
                PROVE  /\ Getting(t) => \A d \in Ranks : expected'[t][d][fg[t].key] > 0 => hope'[t]
                       /\ fg[t].pc = "collect" /\ fg[t].found => hope'[t]
                       /\ \A s \in Ranks : Res[s][t] # <<>> /\ Res[s][t][1].found => hope'[t]
    BY <1>1 DEF FoundHoped, Getting
  <2>1. fg[t].key \in Keys
    BY <1>0 DEF TypeOK
  <2>2. ASSUME Getting(t), NEW d \in Ranks, expected'[t][d][fg[t].key] > 0 PROVE hope'[t]
    <3>1. CASE fg[t].key = k
      BY <1>5, <2>2, <3>1
    <3>2. CASE fg[t].key # k
      <4>1. expected[t][d][fg[t].key] > 0
        BY <1>4, <2>1, <2>2, <3>2
      <4>. QED
        BY <1>5, <2>2, <4>1 DEF IInv, FoundHoped
    <3>. QED
      BY <3>1, <3>2
  <2>. QED
    BY <1>5, <2>2 DEF IInv, FoundHoped
<1>8. HeldIsFound'
  <2>1. \A e \in Ranks, x \in Keys : tree[e][x] > 0 => tree'[e][x] > 0
    BY <1>0, <1>3, CopyTypes
  <2>2. \A t \in Ranks : fg[t].key \in Keys
    BY <1>0 DEF TypeOK
  <2>. QED
    BY <1>1, <2>1, <2>2, HeldAreRanks DEF IInv, HeldIsFound
<1>. QED
  BY <1>2, <1>6, <1>7, <1>8 DEF Protocol

(* A remove begins: it is owed by all ranks, the own one included.         *)
LEMMA RemoveSendKept ==
    ASSUME IInv, NEW r \in Ranks, NEW k \in Keys, RemoveSend(r, k)
    PROVE  Protocol'
<1>. DEFINE m == Message(r, "REMOVE", k)
<1>1. TypeOK /\ m \in Requests /\ m.op = "REMOVE" /\ m.key = k
  BY MessageType DEF IInv
<1>. HIDE DEF m
<1>2. fg[r].pc = "idle" /\ Send(r, Others(r), m)
  BY DEF RemoveSend, Calls, m
<1>3. UNCHANGED <<Res, tree, held, hope>>
  BY DEF RemoveSend, Res
<1>4. /\ fg'[r].pc = "remove" /\ fg'[r].key = k
      /\ \A t \in Ranks \ {r} : fg'[t] = fg[t]
  BY <1>1 DEF RemoveSend, TypeOK
<1>5. Awaited'[r] = {} /\ \A t \in Ranks \ {r} : Awaited'[t] = Awaited[t]
  BY <1>4 DEF Awaited
<1>6. Awaited[r] = {} /\ held[r] = {} /\ \A s \in Ranks : Res[s][r] = <<>>
  BY <1>2, OutsideGets
<1>7. GetsFit'
  BY <1>1, <1>2, <1>3, <1>4, <1>5, <1>6, SendKeepsGetsFit DEF IInv
<1>8. \A t, e \in Ranks, x \in Keys : expected'[t][e][x] =
         IF t = r /\ x = k THEN Less(expected[t][e][x]) ELSE expected[t][e][x]
  BY <1>1, RemoveSendEffect
<1>9. RemovesPending'
  <2>. SUFFICES ASSUME NEW t \in Ranks, NEW e \in Ranks, NEW x \in Keys
                PROVE  tree[e][x] <= expected'[t][e][x] + Owed(t, e, x)'
    BY <1>3 DEF RemovesPending
  <2>1. /\ tree[e][x] \in Nat /\ expected[t][e][x] \in Nat /\ Owed(t, e, x) \in Nat
        /\ tree[e][x] <= expected[t][e][x] + Owed(t, e, x)
    BY <1>1, CopyTypes DEF IInv, RemovesPending
  <2>2. \A s, d \in Ranks : Req'[s][d] =
          IF s = r /\ d # r THEN Append(Req[s][d], m) ELSE Req[s][d]
    BY <1>1, <1>2, SendEffect DEF Others
  <2>3. Owed(t, e, x)' = Owed(t, e, x) + IF t = r /\ x = k THEN 1 ELSE 0
    <3>1. CASE e # t /\ t = r
      <4>1. Pending(Append(Req[t][e], m), x) = Pending(Req[t][e], x) + IF x = k THEN 1 ELSE 0
        BY <1>1, ChannelTypes, PendingFacts DEF IsRemove
      <4>2. Req'[t][e] = Append(Req[t][e], m)
        BY <2>2, <3>1
      <4>. QED
        BY <3>1, <4>1, <4>2 DEF Owed
    <3>2. CASE e # t /\ t # r
      <4>1. Owed(t, e, x)' = Owed(t, e, x)
        BY <2>2, <3>2 DEF Owed
      <4>. QED
        BY <2>1, <3>2, <4>1
    <3>3. CASE e = t /\ t = r
      BY <1>2, <1>4, <3>3 DEF Owed
    <3>4. CASE e = t /\ t # r
      <4>1. Owed(t, e, x)' = Owed(t, e, x)
        BY <1>4, <3>4 DEF Owed
      <4>. QED
        BY <2>1, <3>4, <4>1
    <3>. QED
      BY <3>1, <3>2, <3>3, <3>4
  <2>4. Less(expected[t][e][x]) >= expected[t][e][x] - 1 /\ Less(expected[t][e][x]) \in Nat
    BY <2>1 DEF Less
  <2>. QED
    BY <1>8, <2>1, <2>3, <2>4
<1>10. FoundHoped'
  <2>1. \A t, e \in Ranks, x \in Keys : expected'[t][e][x] > 0 => expected[t][e][x] > 0
    BY <1>1, <1>8, CopyTypes DEF Less
  <2>2. \A t \in Ranks : fg'[t] = fg[t] \/ (~Getting(t)' /\ ~Getting(t))
    BY <1>2, <1>4 DEF Getting
  <2>. QED
    BY <1>1, <1>3, <2>1, <2>2, HopeKept DEF IInv
<1>11. HeldIsFound'
  BY <1>3, <1>4, <1>6 DEF IInv, HeldIsFound
<1>. QED
  BY <1>7, <1>9, <1>10, <1>11 DEF Protocol

(* A copy is taken from the tree of a rank.                                *)
LEMMA CopyLeaves ==
    ASSUME IInv, NEW d \in Ranks, NEW k \in Keys, NEW s \in Ranks, TakeCopy(d, k, s),
           UNCHANGED <<Res, hope>>,
           \A t \in Ranks : fg'[t] = fg[t] \/ (held[t] = {} /\ ~Getting(t)' /\ ~Getting(t))
    PROVE  HeldIsFound' /\ FoundHoped'
<1>0. TypeOK /\ \A t \in Ranks : fg[t].key \in Keys
  BY DEF IInv, TypeOK
<1>1. \A e \in Ranks, x \in Keys :
         tree'[e][x] = IF e = d /\ x = k THEN Less(tree[e][x]) ELSE tree[e][x]
  BY <1>0, TakeCopyEffect
<1>2. \A t \in Ranks : held'[t] =
         IF fg[t].key = k /\ Less(tree[d][k]) = 0 THEN held[t] \ {d} ELSE held[t]
  BY <1>0, HeldTaken
<1>3. ASSUME NEW t \in Ranks, NEW e \in held'[t]
      PROVE  e \in held[t] /\ tree'[e][fg[t].key] > 0
  <2>1. e \in held[t] /\ e \in Ranks
    BY <1>2, <1>3, HeldAreRanks
  <2>2. tree[e][fg[t].key] > 0
    BY <2>1 DEF IInv, HeldIsFound
  <2>3. CASE e = d /\ fg[t].key = k
    <3>1. Less(tree[d][k]) # 0 /\ Less(tree[d][k]) \in Nat
      <4>1. Less(tree[d][k]) # 0
        BY <1>2, <1>3, <2>3
      <4>2. tree[d][k] \in Nat
        BY <1>0, CopyTypes
      <4>. QED
        BY <4>1, <4>2 DEF Less
    <3>. QED
      BY <1>0, <1>1, <2>1, <2>3, <3>1
  <2>4. CASE ~(e = d /\ fg[t].key = k)
    BY <1>0, <1>1, <2>1, <2>2, <2>4
  <2>. QED
    BY <2>3, <2>4
<1>4. \A t \in Ranks : fg'[t].pc = "look" => fg'[t].idx = 0
  BY DEF IInv, HeldIsFound, Getting
<1>5. HeldIsFound'
  BY <1>3, <1>4 DEF IInv, HeldIsFound
<1>6. FoundHoped'
  <2>1. \A t, e \in Ranks, x \in Keys : expected'[t][e][x] > 0 => expected[t][e][x] > 0
    <3>1. \A t, e \in Ranks, x \in Keys : expected'[t][e][x] =
             IF t # s /\ e = d /\ x = k THEN Less(expected[t][e][x]) ELSE expected[t][e][x]
      BY <1>0, TakeCopyEffect
    <3>. QED
      BY <1>0, <3>1, CopyTypes DEF Less
  <2>. QED
    BY <1>0, <2>1, HopeKept DEF IInv
<1>. QED
  BY <1>5, <1>6

(* The remove then takes a copy out of the rank's own tree.                *)
LEMMA RemoveLocalKept ==
    ASSUME IInv, NEW r \in Ranks, RemoveLocal(r)
    PROVE  Protocol'
<1>1. UNCHANGED <<Req, Res, hope>> /\ fg[r].pc = "remove" /\ TypeOK /\ fg[r].key \in Keys
  BY DEF RemoveLocal, channels, Req, Res, IInv, TypeOK
<1>2. /\ fg'[r].pc = "idle" /\ fg'[r].key = fg[r].key
      /\ \A t \in Ranks \ {r} : fg'[t] = fg[t]
  BY DEF RemoveLocal, IInv, TypeOK
<1>3. UNCHANGED Awaited
  BY <1>1, <1>2 DEF Awaited
<1>4. GetsFit'
  BY <1>1, <1>2, <1>3, GetsFitUndisturbed DEF IInv, Awaited
<1>5. held[r] = {}
  BY <1>1, OutsideGets
<1>6. HeldIsFound' /\ FoundHoped'
  <2>1. \A t \in Ranks : fg'[t] = fg[t] \/ (held[t] = {} /\ ~Getting(t)' /\ ~Getting(t))
    BY <1>1, <1>2, <1>5 DEF Getting
  <2>. QED
    BY <1>1, <2>1, CopyLeaves DEF RemoveLocal
<1>7. RemovesPending'
  <2>0. PICK k \in Keys : k = fg[r].key
    BY <1>1
  <2>1. ASSUME NEW t \in Ranks, NEW e \in Ranks, NEW x \in Keys
        PROVE  /\ Owed(t, e, x)' \in Nat
               /\ ~(t = r /\ e = r /\ x = k) => Owed(t, e, x)' = Owed(t, e, x)
    <3>1. CASE e # t
      <4>1. Owed(t, e, x)' = Owed(t, e, x)
        BY <1>1, <3>1 DEF Owed
      <4>. QED
        BY <1>1, <4>1, CopyTypes
    <3>2. CASE e = t
      BY <1>1, <1>2, <2>0, <3>2 DEF Owed
    <3>. QED
      BY <3>1, <3>2
  <2>2. Owed(r, r, k)' >= Owed(r, r, k) - 1
    <3>1. Owed(r, r, k) = 1 /\ Owed(r, r, k)' = 0
      BY <1>1, <1>2, <2>0 DEF Owed
    <3>. QED
      BY <3>1
  <2>3. TakeCopy(r, k, r)
    BY <2>0 DEF RemoveLocal
  <2>4. \A t, e \in Ranks, x \in Keys :
            /\ Owed(t, e, x)' \in Nat
            /\ ~(t = r /\ e = r /\ x = k) => Owed(t, e, x)' = Owed(t, e, x)
    BY <2>1, Zenon
  <2>. QED
    BY <2>2, <2>3, <2>4, TakenIsPaid
<1>. QED
  BY <1>4, <1>6, <1>7 DEF Protocol

(* A get begins: its GET is the last request to every other rank.          *)
LEMMA GetSendKept ==
    ASSUME IInv, NEW r \in Ranks, NEW k \in Keys, GetSend(r, k)
    PROVE  Protocol'
<1>. DEFINE m == Message(r, "GET", k)
<1>1. TypeOK /\ m \in Requests /\ m.op = "GET" /\ m.key = k
  BY MessageType DEF IInv
<1>. HIDE DEF m
<1>2. fg[r].pc = "idle" /\ Send(r, Others(r), m)
  BY DEF GetSend, Calls, m
<1>3. UNCHANGED <<Res, tree, expected>>
  BY DEF GetSend, Res
<1>4. /\ fg'[r].pc = "look" /\ fg'[r].key = k /\ fg'[r].idx = 0
      /\ \A t \in Ranks \ {r} : fg'[t] = fg[t] /\ held'[t] = held[t]
      /\ held'[r] = {d \in Ranks : tree[d][k] > 0}
      /\ hope'[r] = (\E d \in Ranks : expected[r][d][k] > 0)
      /\ \A t \in Ranks \ {r} : hope'[t] = hope[t]
  BY <1>1 DEF GetSend, TypeOK
<1>5. Awaited'[r] = Others(r) /\ \A t \in Ranks \ {r} : Awaited'[t] = Awaited[t]
  <2>1. \A s \in Ranks : 0 <= s
    BY RankType
  <2>. QED
    BY <1>4, <2>1 DEF Awaited, Others
<1>6. Awaited[r] = {} /\ \A s \in Ranks : Res[s][r] = <<>>
  BY <1>2, OutsideGets
<1>7. GetsFit'
  BY <1>1, <1>2, <1>3, <1>4, <1>5, <1>6, SendKeepsGetsFit DEF IInv
<1>8. RemovesPending'
  <2>1. \A s, d \in Ranks : Req'[s][d] =
          IF s = r /\ d # r THEN Append(Req[s][d], m) ELSE Req[s][d]
    BY <1>1, <1>2, SendEffect DEF Others
  <2>2. \A s, d \in Ranks : OtherThanRemove(Req'[s][d], Req[s][d])
    BY <1>1, <2>1 DEF OtherThanRemove
  <2>3. \A t \in Ranks : fg'[t] = fg[t] \/ (fg[t].pc # "remove" /\ fg'[t].pc # "remove")
    BY <1>2, <1>4
  <2>. QED
    BY <1>1, <1>3, <2>2, <2>3, PendingKept DEF IInv
<1>9. FoundHoped'
  BY <1>3, <1>4, <1>6 DEF IInv, FoundHoped, Getting
<1>10. HeldIsFound'
  BY <1>3, <1>4, <1>6, RankType DEF IInv, HeldIsFound
<1>. QED
  BY <1>7, <1>8, <1>9, <1>10 DEF Protocol

(* The get looks into its own tree.                                        *)
LEMMA GetLocalKept ==
    ASSUME IInv, NEW r \in Ranks, GetLocal(r)
    PROVE  Protocol'
<1>1. UNCHANGED <<Req, Res, tree, expected, hope, held>> /\ fg[r].pc = "look" /\ TypeOK
  BY DEF GetLocal, channels, ghosts, Req, Res, IInv
<1>2. /\ fg'[r].pc = "collect" /\ fg'[r].key = fg[r].key /\ fg'[r].idx = fg[r].idx
      /\ fg'[r].found = (tree[r][fg[r].key] > 0)
      /\ \A t \in Ranks \ {r} : fg'[t] = fg[t]
  BY DEF GetLocal, IInv, TypeOK
<1>3. UNCHANGED Awaited
  BY <1>1, <1>2 DEF Awaited
<1>4. GetsFit'
  BY <1>1, <1>2, <1>3, GetsFitUndisturbed DEF IInv
<1>5. \A t, d \in Ranks : OtherThanRemove(Req'[t][d], Req[t][d])
  BY <1>1 DEF OtherThanRemove
<1>6. RemovesPending'
  BY <1>1, <1>2, <1>5, PendingKept DEF IInv
<1>7. FoundHoped'
  <2>1. tree[r][fg[r].key] > 0 => hope[r]
    <3>1. fg[r].key \in Keys /\ Owed(r, r, fg[r].key) = 0
      BY <1>1, OwnRemoves DEF TypeOK
    <3>. QED
      BY <1>1, <3>1, NothingOwed DEF IInv, FoundHoped, Getting
  <2>. QED
    BY <1>1, <1>2, <2>1 DEF IInv, FoundHoped, Getting
<1>8. HeldIsFound'
  <2>1. fg[r].idx = 0 /\ \A d \in held[r] : d \in Ranks
    BY <1>1 DEF IInv, HeldIsFound, TypeOK
  <2>. QED
    <3>1. \A d \in Ranks : ~(d < 0)
      BY RankType
    <3>2. ASSUME NEW d \in held'[r]
          PROVE  /\ tree'[d][fg'[r].key] > 0
                 /\ Res'[d][r] # <<>> => Res'[d][r][1].found
                 /\ ~(d < fg'[r].idx)
                 /\ d = r => fg'[r].found
      BY <1>1, <1>2, <2>1, <3>1, <3>2 DEF IInv, HeldIsFound
    <3>3. ASSUME NEW t \in Ranks \ {r}
          PROVE  fg'[t] = fg[t] /\ held'[t] = held[t]
      BY <1>1, <1>2
    <3>. QED
      BY <1>1, <1>2, <3>2, <3>3 DEF IInv, HeldIsFound
<1>. QED
  BY <1>4, <1>6, <1>7, <1>8 DEF Protocol

(* The get receives the next result.                                       *)
LEMMA GetReceiveKept ==
    ASSUME IInv, NEW r \in Ranks, GetReceive(r)
    PROVE  Protocol'
<1>. DEFINE s == fg[r].idx
<1>0. TypeOK /\ fg \in [Ranks -> FgStates] /\ \A t \in Ranks : held[t] \subseteq Ranks
  BY DEF IInv, TypeOK, FgStates, FgLabels
<1>1. s \in Ranks /\ s \in Nat /\ UNCHANGED <<Req, tree, expected, hope, held>> /\ fg[r].pc = "collect"
  <2>1. s \in 0 .. NumProc /\ s < NumProc
    BY <1>0 DEF GetReceive, FgStates
  <2>. QED
    BY <2>1, NumProcAssumption DEF GetReceive, ghosts, Req, Ranks
<1>2. /\ fg'[r].pc = "collect" /\ fg'[r].key = fg[r].key /\ fg'[r].idx = s + 1
      /\ \A t \in Ranks \ {r} : fg'[t] = fg[t]
      /\ fg'[r].found = IF s = r THEN fg[r].found ELSE fg[r].found \/ Res[s][r][1].found
  <2>1. CASE s = r
    BY <1>0, <1>1, <2>1 DEF GetReceive, FgStates
  <2>2. CASE s # r
    <3>1. Res[s][r] \in Seq(Results) /\ Res[s][r] = result[<<s, r>>] /\ Res[s][r] # <<>>
      BY <1>0, <1>1, <2>2, ChannelTypes DEF GetReceive, Res
    <3>2. Head(result[<<s, r>>]) = Res[s][r][1]
      BY <3>1
    <3>. QED
      BY <1>0, <1>1, <2>2, <3>2 DEF GetReceive, FgStates, Combine
  <2>. QED
    BY <2>1, <2>2
<1>3. /\ \A t, d \in Ranks : ~(t = s /\ d = r) => Res'[t][d] = Res[t][d]
      /\ s # r => Res[s][r] # <<>> /\ Res'[s][r] = Tail(Res[s][r])
  <2>1. CASE s = r
    BY <2>1 DEF GetReceive, Res
  <2>2. CASE s # r
    <3>1. result' = [result EXCEPT ![<<s, r>>] = Tail(@)] /\ result[<<s, r>>] # <<>>
      BY <2>2 DEF GetReceive
    <3>2. \A l \in Links : result'[l] = IF l = <<s, r>> THEN Tail(result[l]) ELSE result[l]
      BY <1>0, <3>1 DEF TypeOK
    <3>. QED
      BY <1>1, <2>2, <3>1, <3>2 DEF Res, Links
  <2>. QED
    BY <2>1, <2>2
<1>4. s # r => Res[s][r] # <<>> /\ Res'[s][r] = Tail(Res[s][r])
  BY <1>3
<1>5. s # r => Res'[s][r] = <<>> /\ NoGet(Req[r][s])
  <2>1. s # r => Len(Res[s][r]) = 1 /\ NoGet(Req[r][s])
    BY <1>1, <1>4 DEF IInv, GetsFit
  <2>. QED
    BY <1>0, <1>1, <1>4, <2>1, ChannelTypes, OneElement
<1>6. s = r => UNCHANGED Res
  BY <1>1 DEF GetReceive, Res
<1>7. /\ Awaited'[r] = Awaited[r] \ {s}
      /\ \A t \in Ranks \ {r} : Awaited'[t] = Awaited[t]
  <2>1. /\ Awaited[r] = {t \in Ranks \ {r} : s <= t}
        /\ Awaited'[r] = {t \in Ranks \ {r} : s + 1 <= t}
    BY <1>1, <1>2 DEF Awaited
  <2>2. \A t \in Ranks : s + 1 <= t <=> s <= t /\ t # s
    BY <1>1, RankType
  <2>3. \A t \in Ranks \ {r} : Awaited'[t] = Awaited[t]
    BY <1>2 DEF Awaited
  <2>. QED
    BY <2>1, <2>2, <2>3
<1>8. GetsFit'
  <2>1. ASSUME NEW d \in Ranks, d # s
        PROVE  (d \in Awaited'[r] <=> d \in Awaited[r]) /\ Res'[d][r] = Res[d][r]
    BY <1>1, <1>3, <1>7, <2>1
  <2>2. CASE s = r
    <3>1. r \notin Awaited[r]
      BY DEF Awaited
    <3>. QED
      BY <1>1, <1>2, <1>6, <1>7, <2>2, <3>1 DEF IInv, GetsFit
  <2>3. CASE s # r
    BY <1>1, <1>2, <1>3, <1>5, <1>7, <2>1, <2>3 DEF IInv, GetsFit
  <2>. QED
    BY <2>2, <2>3
<1>9. RemovesPending'
  <2>1. \A t, d \in Ranks : OtherThanRemove(Req'[t][d], Req[t][d])
    BY <1>1 DEF OtherThanRemove
  <2>. QED
    BY <1>0, <1>1, <1>2, <2>1, PendingKept DEF IInv
<1>10. FoundHoped'
  <2>1. fg'[r].found => hope[r]
    BY <1>1, <1>2, <1>4 DEF IInv, FoundHoped
  <2>2. \A t, d \in Ranks : Res'[d][t] # <<>> => Res'[d][t] = Res[d][t]
    BY <1>1, <1>3, <1>5, <1>6
  <2>3. \A t \in Ranks : fg'[t].key = fg[t].key
    BY <1>2
  <2>. QED
    BY <1>1, <1>2, <2>1, <2>2, <2>3 DEF IInv, FoundHoped, Getting
<1>11. HeldIsFound'
  <2>1. \A t, d \in Ranks : Res'[d][t] # <<>> => Res'[d][t] = Res[d][t]
    BY <1>1, <1>3, <1>5, <1>6
  <2>2. ASSUME NEW d \in held[r]
        PROVE  /\ d # r /\ d < s + 1 => fg'[r].found
               /\ d = r => fg'[r].found
    <3>1. d \in Ranks /\ (d < s + 1 <=> d < s \/ d = s)
      BY <1>0, <1>1, RankType
    <3>2. /\ Res[d][r] # <<>> => Res[d][r][1].found
          /\ d # r /\ d < s => fg[r].found
          /\ d = r => fg[r].found
      BY <1>1 DEF IInv, HeldIsFound
    <3>. QED
      BY <1>2, <1>4, <3>1, <3>2
  <2>3. ASSUME NEW t \in Ranks \ {r}
        PROVE  fg'[t] = fg[t]
    BY <1>2
  <2>. QED
    BY <1>0, <1>1, <1>2, <2>1, <2>2, <2>3 DEF IInv, HeldIsFound
<1>. QED
  BY <1>8, <1>9, <1>10, <1>11 DEF Protocol

(* The get returns with all results received.                              *)
LEMMA GetReturnKept ==
    ASSUME IInv, NEW r \in Ranks, GetReturn(r)
    PROVE  Protocol'
<1>1. /\ UNCHANGED <<Req, Res, tree, expected>> /\ TypeOK
      /\ fg[r].pc = "collect" /\ fg[r].idx = NumProc
  BY DEF GetReturn, channels, Req, Res, IInv
<1>2. /\ fg'[r].pc = "idle" /\ held'[r] = {}
      /\ \A t \in Ranks \ {r} : fg'[t] = fg[t] /\ held'[t] = held[t] /\ hope'[t] = hope[t]
  BY IdleType DEF GetReturn, IInv, TypeOK
<1>3. UNCHANGED Awaited /\ Awaited[r] = {}
  <2>1. \A t \in Ranks : ~(NumProc <= t)
    BY RankType, NumProcAssumption
  <2>2. Awaited[r] = {}
    BY <1>1, <2>1 DEF Awaited
  <2>. QED
    BY <1>2, <2>2 DEF Awaited
<1>4. GetsFit'
  BY <1>1, <1>2, <1>3, GetsFitUndisturbed DEF IInv
<1>5. \A t, d \in Ranks : OtherThanRemove(Req'[t][d], Req[t][d])
  BY <1>1 DEF OtherThanRemove
<1>6. RemovesPending'
  BY <1>1, <1>2, <1>5, PendingKept DEF IInv
<1>7. FoundHoped'
  BY <1>1, <1>2, <1>3 DEF IInv, FoundHoped, GetsFit, Getting
<1>8. HeldIsFound'
  BY <1>1, <1>2 DEF IInv, HeldIsFound
<1>. QED
  BY <1>4, <1>6, <1>7, <1>8 DEF Protocol

(* A rank that is destroying its tree, before and after the step.          *)
LEMMA StoppingKept ==
    ASSUME IInv, NEW r \in Ranks, UNCHANGED <<Res, tree, expected, held, hope>>, GetsFit',
           fg[r].pc \in {"idle", "stop"}, fg'[r].pc \in {"stop", "destroyed"},
           \A t \in Ranks \ {r} : fg'[t] = fg[t],
           \A t, d \in Ranks : OtherThanRemove(Req'[t][d], Req[t][d])
    PROVE  Protocol'
<1>1. held[r] = {} /\ \A s \in Ranks : Res[s][r] = <<>>
  BY OutsideGets
<1>2. \A t \in Ranks : fg'[t] = fg[t] \/ (fg[t].pc # "remove" /\ fg'[t].pc # "remove")
  OBVIOUS
<1>3. RemovesPending'
  BY <1>2, PendingKept DEF IInv
<1>4. FoundHoped' /\ HeldIsFound'
  BY <1>1 DEF IInv, FoundHoped, HeldIsFound, Getting
<1>. QED
  BY <1>3, <1>4 DEF Protocol

(* The destructor sends STOP to every rank.                                *)
LEMMA StopSendKept ==
    ASSUME IInv, NEW r \in Ranks, StopSend(r)
    PROVE  Protocol'
<1>. DEFINE m == Message(r, "STOP", fg[r].key)
<1>1. TypeOK /\ m \in Requests /\ m.op = "STOP"
  <2>1. fg[r].key \in Keys /\ TypeOK
    BY DEF IInv, TypeOK
  <2>. QED
    BY <2>1, MessageType
<1>. HIDE DEF m
<1>2. fg[r].pc = "idle" /\ Send(r, Ranks, m)
  BY DEF StopSend, m
<1>3. UNCHANGED <<Res, tree, expected, held, hope>>
  BY DEF StopSend, ghosts, Res
<1>4. fg'[r].pc = "stop" /\ \A t \in Ranks \ {r} : fg'[t] = fg[t]
  BY <1>1 DEF StopSend, TypeOK, Idle
<1>5. Awaited'[r] = {} /\ \A t \in Ranks \ {r} : Awaited'[t] = Awaited[t]
  BY <1>4 DEF Awaited
<1>6. Awaited[r] = {}
  BY <1>2, OutsideGets
<1>7. GetsFit'
  BY <1>1, <1>2, <1>3, <1>4, <1>5, <1>6, SendKeepsGetsFit DEF IInv
<1>8. \A t, d \in Ranks : OtherThanRemove(Req'[t][d], Req[t][d])
  <2>1. \A t, d \in Ranks : Req'[t][d] = IF t = r THEN Append(Req[t][d], m) ELSE Req[t][d]
    BY <1>1, <1>2, SendEffect
  <2>. QED
    BY <1>1, <2>1 DEF OtherThanRemove
<1>. QED
  BY <1>2, <1>3, <1>4, <1>7, <1>8, StoppingKept

(* The destructor receives an answer, or joins the background thread.      *)
LEMMA AckReceiveKept ==
    ASSUME IInv, NEW r \in Ranks, AckReceive(r) \/ Join(r)
    PROVE  Protocol'
<1>1. UNCHANGED <<Req, Res, tree, expected, held, hope>> /\ fg[r].pc = "stop"
  BY DEF AckReceive, Join, ghosts, channels, Req, Res
<1>2. fg'[r].pc \in {"stop", "destroyed"} /\ \A t \in Ranks \ {r} : fg'[t] = fg[t]
  BY DEF AckReceive, Join, IInv, TypeOK
<1>3. UNCHANGED Awaited /\ Awaited[r] = {}
  BY <1>1, <1>2 DEF Awaited
<1>4. GetsFit'
  BY <1>1, <1>2, <1>3, GetsFitUndisturbed DEF IInv
<1>5. \A t, d \in Ranks : OtherThanRemove(Req'[t][d], Req[t][d])
  BY <1>1 DEF OtherThanRemove
<1>. QED
  BY <1>1, <1>2, <1>4, <1>5, StoppingKept

(* The next tree begins empty.                                             *)
LEMMA ConstructKept ==
    ASSUME IInv, NEW r \in Ranks, Construct(r)
    PROVE  Protocol'
<1>1. UNCHANGED <<Req, Res, hope>> /\ fg[r].pc = "destroyed" /\ TypeOK
  BY DEF Construct, channels, Req, Res, IInv
<1>2. /\ fg'[r].pc = "idle" /\ tree'[r] = NoKeys
      /\ \A t \in Ranks \ {r} : fg'[t] = fg[t] /\ tree'[t] = tree[t]
      /\ \A t \in Ranks : held'[t] = held[t] \ {r}
  BY IdleType DEF Construct, IInv, TypeOK
<1>3. UNCHANGED Awaited /\ Awaited[r] = {}
  BY <1>1, <1>2 DEF Awaited
<1>4. GetsFit'
  BY <1>1, <1>2, <1>3, GetsFitUndisturbed DEF IInv
<1>5. held[r] = {} /\ \A s \in Ranks : Res[s][r] = <<>>
  BY <1>1, OutsideGets
<1>6. \A t, e \in Ranks : expected'[t][e] = IF e = r THEN NoKeys ELSE expected[t][e]
  BY <1>1 DEF Construct, TypeOK
<1>9. RemovesPending'
  <2>. SUFFICES ASSUME NEW t \in Ranks, NEW e \in Ranks, NEW x \in Keys
                PROVE  tree'[e][x] <= expected'[t][e][x] + Owed(t, e, x)'
    BY DEF RemovesPending
  <2>1. Owed(t, e, x)' = Owed(t, e, x)
    BY <1>1, <1>2 DEF Owed
  <2>2. Owed(t, e, x) \in Nat /\ tree[e][x] <= expected[t][e][x] + Owed(t, e, x)
    BY <1>1, CopyTypes DEF IInv, RemovesPending
  <2>3. CASE e = r
    <3>1. tree'[e][x] = 0 /\ expected'[t][e][x] = 0
      BY <1>2, <1>6, <2>3 DEF NoKeys
    <3>. QED
      BY <2>1, <2>2, <3>1
  <2>4. CASE e # r
    BY <1>2, <1>6, <2>1, <2>2, <2>4
  <2>. QED
    BY <2>3, <2>4
<1>7. FoundHoped'
  <2>1. \A t, e \in Ranks, x \in Keys : expected'[t][e][x] > 0 => expected[t][e][x] > 0
    BY <1>6 DEF NoKeys
  <2>2. \A t \in Ranks : fg'[t] = fg[t] \/ (~Getting(t)' /\ ~Getting(t))
    BY <1>1, <1>2 DEF Getting
  <2>. QED
    BY <1>1, <2>1, <2>2, HopeKept DEF IInv
<1>8. HeldIsFound'
  <2>1. held'[r] = {}
    BY <1>2, <1>5
  <2>2. ASSUME NEW t \in Ranks \ {r}, NEW d \in held'[t]
        PROVE  d \in held[t] /\ tree'[d] = tree[d]
    BY <1>2, <2>2, HeldAreRanks
  <2>. QED
    BY <1>1, <1>2, <2>1, <2>2 DEF IInv, HeldIsFound
<1>. QED
  BY <1>4, <1>7, <1>8, <1>9 DEF Protocol

(* A background thread answers a GET.                                      *)
LEMMA ServeGetKept ==
    ASSUME IInv, NEW r \in Ranks, NEW s \in Ranks, ServeGet(r, s)
    PROVE  Protocol'
<1>1. UNCHANGED <<fg, tree, expected, held, hope, Awaited>> /\ Takes(r, s, "GET") /\ TypeOK /\ GetsFit
  BY DEF ServeGet, IInv, Awaited
<1>2. /\ GetsFit'
      /\ Req[s][r][1].key = fg[s].key /\ Tail(Req[s][r]) = <<>>
      /\ Res'[r][s] # <<>> /\ Res'[r][s][1].found = (tree[r][fg[s].key] > 0)
  BY <1>1, ServeGetKeepsGetsFit
<1>3. /\ Req[s][r] \in Seq(Requests) /\ Req[s][r] # <<>> /\ Req[s][r][1].op = "GET"
      /\ Req'[s][r] = Tail(Req[s][r])
      /\ \A t, d \in Ranks : ~(t = s /\ d = r) => Req'[t][d] = Req[t][d]
      /\ \A t, d \in Ranks : ~(t = r /\ d = s) => Res'[t][d] = Res[t][d]
  <2>1. /\ Req[s][r] \in Seq(Requests) /\ Req[s][r] # <<>> /\ Req[s][r][1].op = "GET"
        /\ Req'[s][r] = Tail(Req[s][r])
        /\ \A t, d \in Ranks : ~(t = s /\ d = r) => Req'[t][d] = Req[t][d]
    BY <1>1, TakeEffect
  <2>2. \A t, d \in Ranks : ~(t = r /\ d = s) => Res'[t][d] = Res[t][d]
    BY <1>1, ServeGetEffect
  <2>. QED
    BY <2>1, <2>2
<1>4. s # r
  <2>1. ~NoGet(Req[s][r])
    BY <1>3 DEF NoGet
  <2>. QED
    BY <1>1, <2>1 DEF GetsFit, Awaited
<1>5. tree[r][fg[s].key] > 0 => hope[s]
  <2>1. fg[s].key \in Keys
    BY <1>1 DEF TypeOK
  <2>2. Owed(s, r, fg[s].key) = 0
    <3>1. Pending(Tail(Req[s][r]), fg[s].key) = 0
      BY <1>2, <1>3, PendingFacts, EmptySeq
    <3>2. ~IsRemove(Req[s][r][1], fg[s].key)
      BY <1>3 DEF IsRemove
    <3>3. Pending(Req[s][r], fg[s].key) = 0
      BY <1>3, <3>1, <3>2, PendingFacts
    <3>. QED
      BY <1>4, <3>3 DEF Owed
  <2>3. Getting(s)
    <3>1. ~NoGet(Req[s][r])
      BY <1>3 DEF NoGet
    <3>. QED
      BY <1>1, <3>1 DEF GetsFit, Awaited, Getting
  <2>. QED
    BY <2>1, <2>2, <2>3, NothingOwed DEF IInv, FoundHoped
<1>6. RemovesPending'
  <2>1. \A t, d \in Ranks : OtherThanRemove(Req'[t][d], Req[t][d])
    BY <1>3 DEF OtherThanRemove
  <2>. QED
    BY <1>1, <2>1, PendingKept DEF IInv
<1>7. FoundHoped'
  <2>1. \A t, d \in Ranks : Res'[d][t] # <<>> /\ Res'[d][t][1].found => hope[t]
    <3>1. ASSUME NEW t \in Ranks, NEW d \in Ranks, ~(d = r /\ t = s)
          PROVE  Res'[d][t] # <<>> /\ Res'[d][t][1].found => hope[t]
      BY <1>3, <3>1 DEF IInv, FoundHoped
    <3>2. Res'[r][s][1].found => hope[s]
      BY <1>2, <1>5
    <3>. QED
      BY <3>1, <3>2
  <2>2. UNCHANGED <<fg, expected, hope>>
    BY <1>1
  <2>. QED
    BY <2>1, <2>2 DEF IInv, FoundHoped, Getting
<1>8. HeldIsFound'
  <2>1. r \in held[s] => Res'[r][s][1].found
    BY <1>2 DEF IInv, HeldIsFound
  <2>2. \A t \in Ranks, d \in Ranks : ~(d = r /\ t = s) => Res'[d][t] = Res[d][t]
    BY <1>3
  <2>. QED
    BY <1>1, <2>1, <2>2, HeldAreRanks DEF IInv, HeldIsFound
<1>. QED
  BY <1>2, <1>6, <1>7, <1>8 DEF Protocol

(* A background thread removes a key: one REMOVE less is pending.          *)
LEMMA ServeRemoveKept ==
    ASSUME IInv, NEW r \in Ranks, NEW s \in Ranks, ServeRemove(r, s)
    PROVE  Protocol'
<1>1. UNCHANGED <<fg, hope, Res, Awaited>> /\ Takes(r, s, "REMOVE") /\ TypeOK
  BY DEF ServeRemove, IInv, Awaited, Res
<1>2. /\ Req[s][r] \in Seq(Requests) /\ Req[s][r] # <<>>
      /\ Head(Req[s][r]) = Req[s][r][1]
      /\ Req'[s][r] = Tail(Req[s][r])
      /\ \A t, d \in Ranks : ~(t = s /\ d = r) => Req'[t][d] = Req[t][d]
  BY <1>1, TakeEffect
<1>3. GetsFit'
  BY <1>1, TakeKeepsGetsFit DEF IInv
<1>0. PICK k \in Keys : k = Req[s][r][1].key
  <2>1. Req[s][r][1] \in Requests
    BY <1>1, TakeEffect
  <2>. QED
    BY <2>1 DEF Requests
<1>4. TakeCopy(r, k, s)
  <2>1. Head(request[<<s, r>>]).key = k
    BY <1>0, <1>2 DEF Req
  <2>. QED
    BY <2>1 DEF ServeRemove
<1>5. \A x : IsRemove(Req[s][r][1], x) => x = k
  BY <1>0 DEF IsRemove
<1>8. \A x : /\ Pending(Tail(Req[s][r]), x) \in Nat
            /\ Pending(Tail(Req[s][r]), x) =
                  Pending(Req[s][r], x) - IF IsRemove(Req[s][r][1], x) THEN 1 ELSE 0
  <2>. DEFINE q == Req[s][r]
  <2>1. q \in Seq(Requests) /\ q # <<>> /\ Tail(q) \in Seq(Requests)
    BY <1>2
  <2>. HIDE DEF q
  <2>2. \A x : /\ Pending(Tail(q), x) \in Nat
              /\ Pending(Tail(q), x) = Pending(q, x) - IF IsRemove(q[1], x) THEN 1 ELSE 0
    BY <2>1, PendingFacts
  <2>. QED
    BY <2>2, Zenon DEF q
<1>6. HeldIsFound' /\ FoundHoped'
  BY <1>1, <1>4, CopyLeaves
<1>7. RemovesPending'
  <2>1. ASSUME NEW t \in Ranks, NEW e \in Ranks, NEW x \in Keys
        PROVE  /\ Owed(t, e, x)' \in Nat
               /\ Owed(t, e, x)' >= Owed(t, e, x) - 1
               /\ ~(t = s /\ e = r /\ x = k) => Owed(t, e, x)' = Owed(t, e, x)
    <3>0. Owed(t, e, x) \in Nat
      BY <1>1, CopyTypes
    <3>1. CASE t = s /\ e = r /\ e # t
      <4>3. Owed(t, e, x)' = Pending(Tail(Req[s][r]), x) /\ Owed(t, e, x) = Pending(Req[s][r], x)
        BY <1>2, <3>1 DEF Owed
      <4>. QED
        <5>. DEFINE a == Pending(Tail(Req[s][r]), x)
                    b == Pending(Req[s][r], x)
                    c == IsRemove(Req[s][r][1], x)
        <5>1. a \in Nat /\ b \in Nat /\ a = b - (IF c THEN 1 ELSE 0) /\ (c => x = k)
          BY <1>5, <1>8, <3>0, <4>3
        <5>2. Owed(t, e, x)' = a /\ Owed(t, e, x) = b
          BY <4>3
        <5>. HIDE DEF a, b, c
        <5>3. a >= b - 1 /\ (x # k => a = b)
          BY <5>1
        <5>. QED
          BY <3>1, <5>1, <5>2, <5>3, Zenon
    <3>2. CASE ~(t = s /\ e = r /\ e # t)
      <4>1. Owed(t, e, x)' = Owed(t, e, x)
        BY <1>1, <1>2, <3>2 DEF Owed
      <4>. QED
        BY <3>0, <4>1
    <3>. QED
      BY <3>1, <3>2
  <2>2. \A t, e \in Ranks, x \in Keys :
            /\ Owed(t, e, x)' \in Nat
            /\ ~(t = s /\ e = r /\ x = k) => Owed(t, e, x)' = Owed(t, e, x)
    BY <2>1, Zenon
  <2>3. Owed(s, r, k)' >= Owed(s, r, k) - 1
    BY <1>4, <2>1, Zenon
  <2>. QED
    BY <1>4, <2>2, <2>3, TakenIsPaid
<1>. QED
  BY <1>3, <1>6, <1>7 DEF Protocol

(* A background thread counts a STOP and answers it.                       *)
LEMMA ServeStopKept ==
    ASSUME IInv, NEW r \in Ranks, NEW s \in Ranks, ServeStop(r, s)
    PROVE  Protocol'
<1>1. UNCHANGED <<fg, tree, expected, held, hope, Res, Awaited>> /\ Takes(r, s, "STOP") /\ TypeOK
  BY DEF ServeStop, IInv, Awaited, Res
<1>2. /\ Req[s][r] \in Seq(Requests) /\ Req[s][r] # <<>> /\ Req[s][r][1].op = "STOP"
      /\ Req'[s][r] = Tail(Req[s][r])
      /\ \A t, d \in Ranks : ~(t = s /\ d = r) => Req'[t][d] = Req[t][d]
  BY <1>1, TakeEffect
<1>3. GetsFit'
  BY <1>1, TakeKeepsGetsFit DEF IInv
<1>4. \A t, d \in Ranks : OtherThanRemove(Req'[t][d], Req[t][d])
  BY <1>2 DEF OtherThanRemove
<1>5. RemovesPending'
  BY <1>1, <1>4, PendingKept DEF IInv
<1>6. FoundHoped' /\ HeldIsFound'
  BY <1>1 DEF IInv, FoundHoped, HeldIsFound, Getting
<1>. QED
  BY <1>3, <1>5, <1>6 DEF Protocol

(* A step that none of the invariant's state takes part in.                *)
LEMMA NothingMoves ==
    ASSUME IInv, UNCHANGED <<request, result, fg, tree, expected, held, hope>>
    PROVE  Protocol'
<1>1. UNCHANGED <<Req, Res, Awaited>>
  BY DEF Req, Res, Awaited
<1>2. GetsFit' /\ RemovesPending'
  BY <1>1 DEF IInv, GetsFit, RemovesPending, Owed
<1>3. FoundHoped' /\ HeldIsFound'
  BY <1>1 DEF IInv, FoundHoped, HeldIsFound, Getting
<1>. QED
  BY <1>2, <1>3 DEF Protocol
-----------------------------------------------------------------------------
(* The invariant holds for any number of ranks, keys, calls and trees.     *)
THEOREM Invariance == Spec => []IInv
<1>1. Init => IInv
  BY InitInv
<1>2. ASSUME IInv, [Next]_vars
      PROVE  IInv'
  <2>1. TypeOK'
    BY <1>2, TypeKept DEF IInv
  <2>2. Protocol'
    <3>1. CASE UNCHANGED vars
      BY <1>2, <3>1, NothingMoves DEF vars, channels, ghosts
    <3>2. ASSUME NEW r \in Ranks, Begin(r) PROVE Protocol'
      BY <1>2, <3>2, StopSendKept, ConstructKept, InsertKept, RemoveSendKept, GetSendKept
         DEF Begin
    <3>3. ASSUME NEW r \in Ranks, Continue(r) PROVE Protocol'
      BY <1>2, <3>3, RemoveLocalKept, GetLocalKept, GetReceiveKept, GetReturnKept,
         AckReceiveKept DEF Continue
    <3>4. ASSUME NEW r \in Ranks, Background(r) PROVE Protocol'
      <4>1. Exit(r) => Protocol'
        BY <1>2, NothingMoves DEF Exit, channels, ghosts
      <4>. QED
        BY <1>2, <3>4, <4>1, ServeGetKept, ServeRemoveKept, ServeStopKept DEF Background
    <3>. QED
      BY <1>2, <3>1, <3>2, <3>3, <3>4 DEF Next, AllExited
  <2>. QED
    BY <2>1, <2>2 DEF IInv, Protocol
<1>. QED
  BY <1>1, <1>2, PTL DEF Spec

(* Types: no rank counts more STOPs than there are ranks, and each call is *)
(* at one of its own steps.                                                *)
THEOREM TypeCorrect == Spec => []TypeOK
<1>1. IInv => TypeOK
  BY DEF IInv
<1>. QED
  BY <1>1, Invariance, PTL

(* A get does not miss a key that some rank held from its call to its      *)
(* return, however requests and results of all the ranks interleave.       *)
THEOREM GetsMissNothing == Spec => []GetMissesNothing
<1>1. IInv => GetMissesNothing
  BY RankType, HeldAreRanks DEF IInv, HeldIsFound, GetMissesNothing, AtReturn
<1>. QED
  BY <1>1, Invariance, PTL

(* A result on its way belongs to the get that its receiver is in.         *)
THEOREM ResultsBelong == Spec => []ResultsAreForThisGet
<1>1. IInv => ResultsAreForThisGet
  <2>. SUFFICES ASSUME IInv, NEW r \in Ranks, NEW s \in Ranks
                PROVE  /\ Len(Res[s][r]) <= 1
                       /\ \A i \in DOMAIN Res[s][r] :
                             /\ fg[r].pc \in {"look", "collect"} /\ fg[r].idx <= s
                             /\ Res[s][r][i].key = fg[r].key
    BY DEF ResultsAreForThisGet, Res
  <2>1. Res[s][r] \in Seq(Results)
    BY ChannelTypes DEF IInv
  <2>2. CASE Res[s][r] = <<>>
    BY <2>2
  <2>3. CASE Res[s][r] # <<>>
    <3>1. s \in Awaited[r] /\ Len(Res[s][r]) = 1 /\ Res[s][r][1].key = fg[r].key
      BY <2>3 DEF IInv, GetsFit
    <3>2. \A i \in DOMAIN Res[s][r] : i = 1
      BY <2>1, <3>1
    <3>. QED
      BY <3>1, <3>2 DEF Awaited
  <2>. QED
    BY <2>2, <2>3
<1>. QED
  BY <1>1, Invariance, PTL

(* A get finds a key only if it might have done so had every remove of its *)
(* rank been executed everywhere when it was called, although remove waits *)
(* for no other rank and trees may have several copies of a key.           *)
THEOREM RemovesAreRead == Spec => []ReadsItsRemoves
<1>1. IInv => ReadsItsRemoves
  BY DEF IInv, FoundHoped, ReadsItsRemoves, AtReturn
<1>. QED
  BY <1>1, Invariance, PTL
-----------------------------------------------------------------------------
(***************************************************************************)
(* What the background threads have done when they stop, as long as no     *)
(* request goes to another tree than the one it was meant for.             *)
(***************************************************************************)
Ended == {"stop", "destroyed"}

(* A rank with its tree number g, and pc, has sent the STOP of tree h.     *)
Ahead(g, pc, h) == g > h \/ (g = h /\ pc \in Ended)

(* What a queue of requests holds: only of later trees than h; of h or     *)
(* later trees; the STOP of h.                                             *)
AllAfter(q, h) == \A i \in 1 .. Len(q) : q[i].gen > h
NotBefore(q, h) == \A i \in 1 .. Len(q) : q[i].gen >= h
HasStop(q, h) == \E i \in 1 .. Len(q) : q[i].op = "STOP" /\ q[i].gen = h

(* A STOP is the last request of its tree.                                 *)
Ordered(q) == \A i, j \in 1 .. Len(q) : i < j =>
    q[i].gen <= q[j].gen /\ (q[i].op = "STOP" => q[i].gen < q[j].gen)

(* The requests a rank has sent are of its trees up to now.                *)
SentBy(q, g, pc) == \A i \in 1 .. Len(q) :
    q[i].gen <= g /\ (q[i].op = "STOP" => Ahead(g, pc, q[i].gen))

(* The ranks whose STOP a rank has counted.                                *)
Taken == [r \in Ranks |-> {s \in Ranks :
    Ahead(generation[s], fg[s].pc, generation[r]) /\ AllAfter(Req[s][r], generation[r])}]

QueuesOrdered == \A s, r \in Ranks :
    Ordered(Req[s][r]) /\ SentBy(Req[s][r], generation[s], fg[s].pc)

Joined == \A r \in Ranks : fg[r].pc = "destroyed" => bg[r] = "done"

(* Nobody builds the next tree before all have begun to stop this one, so  *)
(* no request comes too late.                                              *)
NobodyLate == \A s, r \in Ranks :
    /\ generation[s] < generation[r] => generation[r] = generation[s] + 1 /\ fg[s].pc \in Ended
    /\ NotBefore(Req[s][r], generation[r])

(* A STOP that has been sent is on its way, or it has been counted and     *)
(* with it all that came before it.                                        *)
StopsUnderWay == \A s, r \in Ranks : \A h \in 1 .. MaxGeneration :
    h >= generation[r] /\ Ahead(generation[s], fg[s].pc, h)
        => HasStop(Req[s][r], h) \/ (h = generation[r] /\ AllAfter(Req[s][r], h))

StopsCounted == \A r \in Ranks :
    stops[r] = Cardinality(Taken[r]) /\ (bg[r] = "done" => Taken[r] = Ranks)

InStep == NobodyLate /\ StopsUnderWay /\ StopsCounted
SInv == Joined /\ QueuesOrdered /\ (~mixed => InStep)
-----------------------------------------------------------------------------
(* What a queue holds after a request is put at its end.                   *)
LEMMA AppendFacts ==
    ASSUME NEW q \in Seq(Requests), NEW m \in Requests, NEW h \in Nat
    PROVE  /\ AllAfter(Append(q, m), h) <=> AllAfter(q, h) /\ m.gen > h
           /\ NotBefore(q, h) /\ m.gen >= h => NotBefore(Append(q, m), h)
           /\ HasStop(q, h) => HasStop(Append(q, m), h)
           /\ m.op = "STOP" /\ m.gen = h => HasStop(Append(q, m), h)
<1>1. /\ Len(q) \in Nat /\ Len(Append(q, m)) = Len(q) + 1
      /\ \A i \in 1 .. Len(q) : Append(q, m)[i] = q[i]
      /\ Append(q, m)[Len(q) + 1] = m
  OBVIOUS
<1>2. \A i \in 1 .. Len(q) + 1 : i \in 1 .. Len(q) \/ i = Len(q) + 1
  BY <1>1
<1>3. 1 .. Len(q) \subseteq 1 .. Len(q) + 1 /\ Len(q) + 1 \in 1 .. Len(q) + 1
  BY <1>1
<1>. QED
  BY <1>1, <1>2, <1>3 DEF AllAfter, NotBefore, HasStop

(* A request of the tree its sender has now keeps a queue in order.        *)
LEMMA AppendOrdered ==
    ASSUME NEW q \in Seq(Requests), NEW m \in Requests, NEW pc, NEW next,
           Ordered(q), SentBy(q, m.gen, pc), pc \notin Ended,
           m.op = "STOP" => next \in Ended
    PROVE  Ordered(Append(q, m)) /\ SentBy(Append(q, m), m.gen, next)
<1>1. /\ Len(q) \in Nat /\ Len(Append(q, m)) = Len(q) + 1
      /\ \A i \in 1 .. Len(q) : Append(q, m)[i] = q[i] /\ q[i] \in Requests
      /\ Append(q, m)[Len(q) + 1] = m
  OBVIOUS
<1>2. \A i \in 1 .. Len(q) + 1 : i \in 1 .. Len(q) \/ i = Len(q) + 1
  BY <1>1
<1>3. m.gen \in Nat /\ \A i \in 1 .. Len(q) : q[i].gen \in Nat
  BY <1>1 DEF Requests
<1>4. \A i \in 1 .. Len(q) : q[i].gen <= m.gen /\ (q[i].op = "STOP" => q[i].gen < m.gen)
  BY <1>3 DEF SentBy, Ahead
<1>5. Ordered(Append(q, m))
  BY <1>1, <1>2, <1>3, <1>4 DEF Ordered
<1>6. SentBy(Append(q, m), m.gen, next)
  BY <1>1, <1>2, <1>3, <1>4 DEF SentBy, Ahead
<1>. QED
  BY <1>5, <1>6

(* What a queue holds after its first request is taken.                    *)
LEMMA TailFacts ==
    ASSUME NEW q \in Seq(Requests), q # <<>>, NEW h \in Nat
    PROVE  /\ AllAfter(q, h) => AllAfter(Tail(q), h) /\ q[1].gen > h
           /\ NotBefore(q, h) => NotBefore(Tail(q), h)
           /\ HasStop(q, h) /\ ~(q[1].op = "STOP" /\ q[1].gen = h) => HasStop(Tail(q), h)
<1>1. /\ Len(q) \in Nat \ {0} /\ Len(Tail(q)) = Len(q) - 1
      /\ \A i \in 1 .. Len(q) - 1 : Tail(q)[i] = q[i + 1]
  OBVIOUS
<1>2. AllAfter(q, h) => AllAfter(Tail(q), h) /\ q[1].gen > h
  BY <1>1 DEF AllAfter
<1>3. NotBefore(q, h) => NotBefore(Tail(q), h)
  BY <1>1 DEF NotBefore
<1>4. HasStop(q, h) /\ ~(q[1].op = "STOP" /\ q[1].gen = h) => HasStop(Tail(q), h)
  <2>. SUFFICES ASSUME HasStop(q, h), ~(q[1].op = "STOP" /\ q[1].gen = h)
                PROVE  HasStop(Tail(q), h)
    OBVIOUS
  <2>1. PICK i \in 1 .. Len(q) : q[i].op = "STOP" /\ q[i].gen = h
    BY DEF HasStop
  <2>2. i # 1 /\ i - 1 \in 1 .. Len(q) - 1 /\ (i - 1) + 1 = i
    BY <1>1, <2>1
  <2>3. Tail(q)[i - 1] = q[i] /\ i - 1 \in 1 .. Len(Tail(q))
    BY <1>1, <2>2
  <2>. QED
    BY <2>1, <2>3 DEF HasStop
<1>. QED
  BY <1>2, <1>3, <1>4

(* Taking the first request keeps a queue in order; if it is a STOP,       *)
(* it was the last of its tree.                                            *)
LEMMA TailOrdered ==
    ASSUME NEW q \in Seq(Requests), q # <<>>, NEW g, NEW pc, Ordered(q), SentBy(q, g, pc)
    PROVE  /\ Ordered(Tail(q)) /\ SentBy(Tail(q), g, pc)
           /\ q[1].op = "STOP" => AllAfter(Tail(q), q[1].gen) /\ Ahead(g, pc, q[1].gen)
<1>1. /\ Len(q) \in Nat \ {0} /\ Len(Tail(q)) = Len(q) - 1
      /\ \A i \in 1 .. Len(q) - 1 : Tail(q)[i] = q[i + 1]
      /\ \A i \in 1 .. Len(q) : q[i] \in Requests
  OBVIOUS
<1>2. \A i \in 1 .. Len(q) : q[i].gen \in Nat
  BY <1>1 DEF Requests
<1>3. Ordered(Tail(q))
  BY <1>1 DEF Ordered
<1>4. SentBy(Tail(q), g, pc)
  BY <1>1 DEF SentBy
<1>5. q[1].op = "STOP" => AllAfter(Tail(q), q[1].gen)
  BY <1>1, <1>2 DEF Ordered, AllAfter
<1>6. q[1].op = "STOP" => Ahead(g, pc, q[1].gen)
  BY <1>1 DEF SentBy
<1>. QED
  BY <1>3, <1>4, <1>5, <1>6

(* A queue with the STOP of a tree is not only of later trees.             *)
LEMMA StopIsNotAfter == \A q : \A h \in Nat : HasStop(q, h) => ~AllAfter(q, h)
  BY DEF HasStop, AllAfter

(* Requests carry tree numbers, which are natural numbers.                 *)
LEMMA GensAreNat ==
    ASSUME NEW q \in Seq(Requests), NEW i \in 1 .. Len(q)
    PROVE  q[i].gen \in Nat
<1>1. q[i] \in Requests
  OBVIOUS
<1>. QED
  BY <1>1, BoundAssumption DEF Requests

(* So are the numbers of the trees the ranks have.                         *)
LEMMA GenerationType ==
    TypeOK => \A r \in Ranks : generation[r] \in 1 .. MaxGeneration /\ generation[r] \in Nat
  BY BoundAssumption DEF TypeOK

(* There are NumProc ranks.                                                *)
LEMMA RanksCounted == IsFiniteSet(Ranks) /\ Cardinality(Ranks) = NumProc
<1>1. NumProc - 1 \in Int /\ 0 \in Int /\ 0 <= NumProc - 1
  BY NumProcAssumption
<1>2. IsFiniteSet(0 .. (NumProc - 1)) /\ Cardinality(0 .. (NumProc - 1)) = NumProc - 1 - 0 + 1
  BY <1>1, FS_Interval
<1>. QED
  BY <1>2, NumProcAssumption DEF Ranks

(* Who is in Taken[r].                                                     *)
LEMMA TakenIs == \A r, s \in Ranks :
    s \in Taken[r] <=> /\ Ahead(generation[s], fg[s].pc, generation[r])
                       /\ AllAfter(Req[s][r], generation[r])
  BY DEF Taken

(* At first nobody has sent or counted a STOP.                             *)
LEMMA StopInit == Init => SInv
<1>. SUFFICES ASSUME Init PROVE SInv
  OBVIOUS
<1>1. \A r, s \in Ranks : Req[r][s] = <<>>
  BY DEF Init, Links, Req
<1>2. \A r \in Ranks : fg[r].pc = "idle" /\ generation[r] = 1 /\ stops[r] = 0 /\ bg[r] = "run"
  BY IdleType DEF Init
<1>3. Joined
  BY <1>2 DEF Joined
<1>4. Len(<<>>) = 0
  OBVIOUS
<1>5. QueuesOrdered
  <2>1. Ordered(<<>>) /\ SentBy(<<>>, 1, "idle")
    BY <1>4 DEF Ordered, SentBy
  <2>. QED
    BY <1>1, <1>2, <2>1 DEF QueuesOrdered
<1>6. NobodyLate
  <2>1. NotBefore(<<>>, 1)
    BY <1>4 DEF NotBefore
  <2>. QED
    BY <1>1, <1>2, <2>1 DEF NobodyLate
<1>7. ASSUME NEW h \in Nat, h >= 1 PROVE ~Ahead(1, "idle", h)
  BY <1>7 DEF Ahead, Ended
<1>8. StopsUnderWay
  BY <1>2, <1>7 DEF StopsUnderWay
<1>9. StopsCounted
  <2>1. \A r \in Ranks : Taken[r] = {}
    BY <1>2, <1>7 DEF Taken
  <2>. QED
    BY <1>2, <2>1, FS_EmptySet DEF StopsCounted
<1>. QED
  BY <1>3, <1>5, <1>6, <1>8, <1>9 DEF SInv, InStep
-----------------------------------------------------------------------------
(* A step that neither stops a tree nor sends or takes a request.          *)
LEMMA CallKept ==
    ASSUME SInv, TypeOK, UNCHANGED <<Req, generation, stops, bg, mixed>>, Joined',
           \A s \in Ranks : fg'[s].pc \in Ended <=> fg[s].pc \in Ended
    PROVE  SInv'
<1>1. \A s \in Ranks, h \in Nat :
         Ahead(generation'[s], fg'[s].pc, h) <=> Ahead(generation[s], fg[s].pc, h)
  BY DEF Ahead
<1>2. QueuesOrdered'
  <2>1. ASSUME NEW s \in Ranks, NEW r \in Ranks
        PROVE  SentBy(Req[s][r], generation[s], fg'[s].pc)
    BY DEF SInv, QueuesOrdered, SentBy, Ahead
  <2>. QED
    BY <2>1 DEF SInv, QueuesOrdered
<1>3. UNCHANGED Taken
  <2>1. \A r \in Ranks : Taken'[r] = Taken[r]
    BY <1>1, GenerationType DEF Taken
  <2>. QED
    BY <2>1 DEF Taken
<1>4. ~mixed' => InStep'
  <2>. SUFFICES ASSUME ~mixed' PROVE InStep'
    OBVIOUS
  <2>1. InStep
    BY DEF SInv
  <2>2. NobodyLate'
    BY <2>1 DEF InStep, NobodyLate
  <2>3. StopsUnderWay'
    BY <1>1, <2>1, BoundAssumption DEF InStep, StopsUnderWay
  <2>4. StopsCounted'
    BY <1>3, <2>1 DEF InStep, StopsCounted
  <2>. QED
    BY <2>2, <2>3, <2>4 DEF InStep
<1>. QED
  BY <1>2, <1>4 DEF SInv

(* A rank begins a call with a request to others, or stops with one to all.*)
LEMMA SendKept ==
    ASSUME SInv, TypeOK, NEW r \in Ranks, NEW to, NEW m \in Requests, Send(r, to, m),
           m.gen = generation[r], UNCHANGED <<generation, stops, bg, mixed>>,
           fg[r].pc = "idle", \A s \in Ranks \ {r} : fg'[s] = fg[s],
           fg'[r].pc # "destroyed",
           fg'[r].pc = "stop" <=> m.op = "STOP",
           m.op = "STOP" => to = Ranks
    PROVE  SInv'
<1>1. \A s, d \in Ranks : Req'[s][d] =
         IF s = r /\ d \in to THEN Append(Req[s][d], m) ELSE Req[s][d]
  BY SendEffect
<1>2. \A s, d \in Ranks : Req[s][d] \in Seq(Requests)
  BY ChannelTypes
<1>3. Joined'
  BY DEF SInv, Joined
<1>4. fg[r].pc \notin Ended /\ (fg'[r].pc \in Ended <=> m.op = "STOP")
  BY DEF Ended
<1>5. QueuesOrdered'
  <2>1. ASSUME NEW d \in Ranks
        PROVE  Ordered(Req'[r][d]) /\ SentBy(Req'[r][d], generation[r], fg'[r].pc)
    <3>1. Ordered(Req[r][d]) /\ SentBy(Req[r][d], m.gen, fg[r].pc)
      BY DEF SInv, QueuesOrdered
    <3>2. CASE d \in to
      BY <1>1, <1>2, <1>4, <3>1, <3>2, AppendOrdered
    <3>3. CASE d \notin to
      <4>1. fg'[r].pc \notin Ended
        BY <1>4, <3>3
      <4>2. SentBy(Req[r][d], m.gen, fg'[r].pc)
        BY <1>4, <3>1, <4>1 DEF SentBy, Ahead
      <4>. QED
        BY <1>1, <3>1, <3>3, <4>2
    <3>. QED
      BY <3>2, <3>3
  <2>2. ASSUME NEW s \in Ranks \ {r}, NEW d \in Ranks
        PROVE  Req'[s][d] = Req[s][d] /\ fg'[s] = fg[s]
    BY <1>1
  <2>. QED
    BY <2>1, <2>2 DEF SInv, QueuesOrdered
<1>6. ASSUME ~mixed' PROVE InStep'
  <2>1. InStep
    BY <1>6 DEF SInv
  <2>2. \A d \in Ranks : m.gen >= generation[d] /\ generation[d] \in Nat /\ m.gen \in Nat
    BY <1>4, <2>1, GenerationType DEF InStep, NobodyLate
  <2>3. NobodyLate'
    <3>1. ASSUME NEW s \in Ranks, NEW d \in Ranks
          PROVE  NotBefore(Req'[s][d], generation[d])
      BY <1>1, <1>2, <2>1, <2>2, AppendFacts DEF InStep, NobodyLate
    <3>2. ASSUME NEW s \in Ranks, NEW d \in Ranks, generation[s] < generation[d]
          PROVE  generation[d] = generation[s] + 1 /\ fg'[s].pc \in Ended
      BY <1>4, <2>1, <3>2 DEF InStep, NobodyLate
    <3>. QED
      BY <3>1, <3>2 DEF NobodyLate
  <2>4. ASSUME NEW s \in Ranks \ {r}, NEW d \in Ranks
        PROVE  Req'[s][d] = Req[s][d] /\ fg'[s] = fg[s]
    BY <1>1
  <2>5. StopsUnderWay'
    <3>1. ASSUME NEW d \in Ranks, NEW h \in 1 .. MaxGeneration, h >= generation[d],
                 Ahead(generation[r], fg'[r].pc, h)
          PROVE  \/ HasStop(Req'[r][d], h)
                 \/ h = generation[d] /\ AllAfter(Req'[r][d], h)
      <4>. h \in Nat
        BY BoundAssumption
      <4>1. CASE h = generation[r]
        <5>1. m.op = "STOP" /\ d \in to
          BY <1>4, <4>1, <3>1, <2>2 DEF Ahead
        <5>. QED
          BY <1>1, <1>2, <4>1, <5>1, AppendFacts
      <4>2. CASE h # generation[r]
        <5>1. Ahead(generation[r], fg[r].pc, h) /\ m.gen > h
          BY <3>1, <4>2, <2>2 DEF Ahead
        <5>2. HasStop(Req[r][d], h) \/ (h = generation[d] /\ AllAfter(Req[r][d], h))
          BY <2>1, <3>1, <5>1 DEF InStep, StopsUnderWay
        <5>. QED
          BY <1>1, <1>2, <5>1, <5>2, AppendFacts
      <4>. QED
        BY <4>1, <4>2
    <3>. QED
      BY <2>1, <2>4, <3>1 DEF InStep, StopsUnderWay
  <2>6. StopsCounted'
    <3>1. ASSUME NEW d \in Ranks
          PROVE  r \in Taken'[d] <=> r \in Taken[d]
      <4>1. r \in Taken'[d] <=> /\ Ahead(generation[r], fg'[r].pc, generation[d])
                                /\ AllAfter(Req'[r][d], generation[d])
        BY DEF Taken
      <4>2. CASE generation[d] = generation[r]
        <5>1. ~Ahead(generation[r], fg[r].pc, generation[d])
          BY <1>4, <2>2, <4>2 DEF Ahead
        <5>2. Ahead(generation[r], fg'[r].pc, generation[d]) => m.op = "STOP" /\ d \in to
          BY <1>4, <2>2, <4>2 DEF Ahead
        <5>3. d \in to => ~AllAfter(Req'[r][d], generation[d])
          BY <1>1, <1>2, <2>2, <4>2, AppendFacts
        <5>. QED
          BY <4>1, <5>1, <5>2, <5>3, TakenIs
      <4>3. CASE generation[d] # generation[r]
        <5>1. m.gen > generation[d]
          BY <2>2, <4>3
        <5>2. AllAfter(Req'[r][d], generation[d]) <=> AllAfter(Req[r][d], generation[d])
          BY <1>1, <1>2, <2>2, <5>1, AppendFacts
        <5>3. Ahead(generation[r], fg'[r].pc, generation[d])
              /\ Ahead(generation[r], fg[r].pc, generation[d])
          BY <5>1 DEF Ahead
        <5>. QED
          BY <4>1, <5>2, <5>3, TakenIs
      <4>. QED
        BY <4>2, <4>3
    <3>2. ASSUME NEW d \in Ranks, NEW s \in Ranks \ {r}
          PROVE  s \in Taken'[d] <=> s \in Taken[d]
      BY <2>4 DEF Taken
    <3>3. \A d \in Ranks : Taken'[d] \subseteq Ranks /\ Taken[d] \subseteq Ranks
      BY DEF Taken
    <3>4. ASSUME NEW d \in Ranks PROVE Taken'[d] = Taken[d]
      <4>1. \A s \in Ranks : s \in Taken'[d] <=> s \in Taken[d]
        BY <3>1, <3>2
      <4>. QED
        BY <3>3, <4>1
    <3>. QED
      BY <2>1, <3>4 DEF InStep, StopsCounted
  <2>. QED
    BY <2>3, <2>5, <2>6 DEF InStep
<1>. QED
  BY <1>3, <1>5, <1>6 DEF SInv

(* A rank whose background thread has stopped builds the next tree.        *)
LEMMA NextTreeKept ==
    ASSUME SInv, TypeOK, NEW r \in Ranks, Construct(r)
    PROVE  SInv'
<1>. DEFINE g == generation[r]
<1>1. UNCHANGED <<Req, mixed>> /\ fg[r].pc = "destroyed" /\ g < MaxGeneration
  BY DEF Construct, channels, Req
<1>2. /\ fg'[r].pc = "idle" /\ generation'[r] = g + 1 /\ stops'[r] = 0 /\ bg'[r] = "run"
      /\ \A s \in Ranks \ {r} : /\ fg'[s] = fg[s] /\ generation'[s] = generation[s]
                               /\ stops'[s] = stops[s] /\ bg'[s] = bg[s]
  BY IdleType DEF Construct, TypeOK
<1>3. g \in Nat /\ g + 1 \in 1 .. MaxGeneration /\ g + 1 \in Nat
  BY <1>1, GenerationType, BoundAssumption
<1>. HIDE DEF g
<1>4. Joined' /\ bg[r] = "done"
  BY <1>1, <1>2 DEF SInv, Joined
<1>5. \A s \in Ranks, h \in Nat :
         Ahead(generation'[s], fg'[s].pc, h) <=> Ahead(generation[s], fg[s].pc, h)
  BY <1>1, <1>2, <1>3 DEF Ahead, Ended, g
<1>6. QueuesOrdered'
  <2>1. ASSUME NEW s \in Ranks, NEW d \in Ranks
        PROVE  Ordered(Req'[s][d]) /\ SentBy(Req'[s][d], generation'[s], fg'[s].pc)
    <3>1. /\ Req'[s][d] = Req[s][d] /\ Ordered(Req[s][d])
          /\ SentBy(Req[s][d], generation[s], fg[s].pc)
      BY <1>1 DEF SInv, QueuesOrdered
    <3>2. Req[s][d] \in Seq(Requests) /\ generation[s] \in Nat
      BY ChannelTypes, GenerationType
    <3>3. \A i \in 1 .. Len(Req[s][d]) : Req[s][d][i].gen \in Nat
      BY <3>2, GensAreNat
    <3>4. generation[s] <= generation'[s] /\ generation'[s] \in Nat
      BY <1>2, <1>3, <3>2 DEF g
    <3>5. \A i \in 1 .. Len(Req[s][d]) : Req[s][d][i].gen <= generation'[s]
      BY <3>1, <3>2, <3>3, <3>4 DEF SentBy
    <3>6. SentBy(Req[s][d], generation'[s], fg'[s].pc)
      BY <1>5, <3>1, <3>3, <3>5 DEF SentBy
    <3>. QED
      BY <3>1, <3>6
  <2>. QED
    BY <2>1 DEF QueuesOrdered
<1>7. ASSUME ~mixed' PROVE InStep'
  <2>1. InStep
    BY <1>1, <1>7 DEF SInv
  <2>2. Taken[r] = Ranks
    BY <1>4, <2>1 DEF InStep, StopsCounted
  <2>3. \A s \in Ranks : Ahead(generation[s], fg[s].pc, g) /\ AllAfter(Req[s][r], g)
    BY <2>2, TakenIs DEF g
  <2>4. NobodyLate'
    <3>1. ASSUME NEW s \in Ranks PROVE NotBefore(Req[s][r], g + 1)
      <4>1. Req[s][r] \in Seq(Requests)
        BY ChannelTypes
      <4>2. \A i \in 1 .. Len(Req[s][r]) : Req[s][r][i].gen \in Nat
        BY <4>1, GensAreNat
      <4>. QED
        BY <1>3, <2>3, <4>2 DEF AllAfter, NotBefore
    <3>2. ASSUME NEW s \in Ranks \ {r}, generation[s] < g + 1
          PROVE  g = generation[s] /\ fg[s].pc \in Ended
      BY <1>3, <2>3, <3>2, GenerationType DEF Ahead
    <3>3. ASSUME NEW d \in Ranks \ {r} PROVE ~(g + 1 < generation[d])
      <4>1. g < generation[d] => generation[d] = g + 1
        BY <2>1 DEF InStep, NobodyLate, g
      <4>. QED
        BY <1>3, <4>1, GenerationType
    <3>4. ASSUME NEW s \in Ranks, NEW d \in Ranks
          PROVE  NotBefore(Req'[s][d], generation'[d])
      BY <1>1, <1>2, <2>1, <3>1 DEF InStep, NobodyLate
    <3>5. ASSUME NEW s \in Ranks, NEW d \in Ranks, generation'[s] < generation'[d]
          PROVE  generation'[d] = generation'[s] + 1 /\ fg'[s].pc \in Ended
      <4>1. s # r
        BY <1>2, <1>3, <3>3, <3>5
      <4>2. CASE d = r
        BY <1>2, <3>2, <3>5, <4>1, <4>2
      <4>3. CASE d # r
        BY <1>2, <2>1, <3>5, <4>1, <4>3 DEF InStep, NobodyLate
      <4>. QED
        BY <4>2, <4>3
    <3>. QED
      BY <3>4, <3>5 DEF NobodyLate
  <2>5. ASSUME NEW s \in Ranks, NEW h \in 1 .. MaxGeneration, h >= g + 1,
               Ahead(generation[s], fg[s].pc, h)
        PROVE  HasStop(Req[s][r], h)
    <3>1. h >= g /\ h # g
      BY <1>3, <2>5, BoundAssumption
    <3>. QED
      BY <2>1, <2>5, <3>1 DEF InStep, StopsUnderWay, g
  <2>6. StopsUnderWay'
    <3>1. ASSUME NEW s \in Ranks, NEW d \in Ranks, NEW h \in 1 .. MaxGeneration,
                 h >= generation'[d], Ahead(generation'[s], fg'[s].pc, h)
          PROVE  \/ HasStop(Req'[s][d], h)
                 \/ h = generation'[d] /\ AllAfter(Req'[s][d], h)
      <4>1. Ahead(generation[s], fg[s].pc, h) /\ Req'[s][d] = Req[s][d]
        BY <1>1, <1>5, <3>1, BoundAssumption
      <4>2. CASE d = r
        BY <1>2, <2>5, <3>1, <4>1, <4>2
      <4>3. CASE d # r
        BY <1>2, <2>1, <3>1, <4>1, <4>3 DEF InStep, StopsUnderWay
      <4>. QED
        BY <4>2, <4>3
    <3>. QED
      BY <3>1 DEF StopsUnderWay
  <2>7. StopsCounted'
    <3>1. Taken'[r] = {}
      <4>1. ASSUME NEW s \in Ranks, s \in Taken'[r] PROVE FALSE
        <5>1. Ahead(generation'[s], fg'[s].pc, g + 1) /\ AllAfter(Req[s][r], g + 1)
          BY <1>1, <1>2, <4>1 DEF Taken
        <5>2. Ahead(generation[s], fg[s].pc, g + 1)
          BY <1>3, <1>5, <5>1
        <5>3. HasStop(Req[s][r], g + 1)
          BY <1>3, <2>5, <5>2
        <5>. QED
          BY <1>3, <5>1, <5>3, StopIsNotAfter
      <4>2. Taken'[r] \subseteq Ranks
        BY DEF Taken
      <4>. QED
        BY <4>1, <4>2
    <3>2. ASSUME NEW d \in Ranks \ {r} PROVE Taken'[d] = Taken[d]
      BY <1>1, <1>2, <1>5, GenerationType DEF Taken
    <3>. QED
      BY <1>2, <2>1, <3>1, <3>2, FS_EmptySet DEF InStep, StopsCounted
  <2>. QED
    BY <2>4, <2>6, <2>7 DEF InStep
<1>. QED
  BY <1>4, <1>6, <1>7 DEF SInv

(* A background thread takes a request, and counts it if it is a STOP.     *)
LEMMA TakeKept ==
    ASSUME SInv, TypeOK, NEW r \in Ranks, NEW s \in Ranks, NEW op, Takes(r, s, op),
           UNCHANGED <<fg, generation, bg>>,
           \A d \in Ranks : stops'[d] = IF d = r /\ op = "STOP" THEN stops[d] + 1 ELSE stops[d]
    PROVE  SInv'
<1>. DEFINE q == Req[s][r]
            g == generation[r]
<1>1. /\ q \in Seq(Requests) /\ q # <<>> /\ q[1].op = op /\ q[1] \in Requests
      /\ Req'[s][r] = Tail(q)
      /\ \A t, d \in Ranks : ~(t = s /\ d = r) => Req'[t][d] = Req[t][d]
  BY TakeEffect
<1>2. bg[r] = "run" /\ (~mixed' => ~mixed /\ q[1].gen = g)
  <2>1. Head(request[<<s, r>>]) = q[1]
    BY TakeEffect DEF Req
  <2>. QED
    BY <2>1 DEF Takes, Delivered
<1>3. g \in 1 .. MaxGeneration /\ g \in Nat
  BY GenerationType
<1>. HIDE DEF q, g
<1>4. Joined'
  BY DEF SInv, Joined
<1>5. /\ Ordered(Tail(q)) /\ SentBy(Tail(q), generation[s], fg[s].pc)
      /\ q[1].op = "STOP" => /\ AllAfter(Tail(q), q[1].gen)
                             /\ Ahead(generation[s], fg[s].pc, q[1].gen)
  <2>1. Ordered(q) /\ SentBy(q, generation[s], fg[s].pc)
    BY DEF SInv, QueuesOrdered, q
  <2>. QED
    BY <1>1, <2>1, TailOrdered
<1>6. QueuesOrdered'
  BY <1>1, <1>5 DEF SInv, QueuesOrdered
<1>7. ASSUME ~mixed' PROVE InStep'
  <2>1. InStep /\ q[1].gen = g
    BY <1>2, <1>7 DEF SInv
  <2>2. ~AllAfter(q, g)
    BY <1>1, <1>3, <2>1, TailFacts
  <2>3. NobodyLate'
    <3>1. NotBefore(Tail(q), g)
      BY <1>1, <1>3, <2>1, TailFacts DEF InStep, NobodyLate, q, g
    <3>2. ASSUME NEW t \in Ranks, NEW d \in Ranks
          PROVE  NotBefore(Req'[t][d], generation[d])
      BY <1>1, <2>1, <3>1 DEF InStep, NobodyLate, g
    <3>. QED
      BY <2>1, <3>2 DEF InStep, NobodyLate
  <2>4. ASSUME NEW h \in 1 .. MaxGeneration, h >= g, Ahead(generation[s], fg[s].pc, h)
        PROVE  /\ HasStop(Tail(q), h) \/ (h = g /\ AllAfter(Tail(q), h))
               /\ op # "STOP" => HasStop(Tail(q), h)
    <3>. h \in Nat
      BY BoundAssumption
    <3>1. HasStop(q, h) \/ (h = g /\ AllAfter(q, h))
      BY <2>1, <2>4 DEF InStep, StopsUnderWay, q, g
    <3>2. HasStop(q, h)
      BY <2>2, <3>1
    <3>3. CASE q[1].op = "STOP" /\ q[1].gen = h
      BY <1>1, <1>5, <2>1, <3>3
    <3>4. CASE ~(q[1].op = "STOP" /\ q[1].gen = h)
      BY <1>1, <3>2, <3>4, TailFacts
    <3>. QED
      BY <3>3, <3>4
  <2>5. StopsUnderWay'
    <3>1. ASSUME NEW t \in Ranks, NEW d \in Ranks, NEW h \in 1 .. MaxGeneration,
                 h >= generation[d], Ahead(generation[t], fg[t].pc, h)
          PROVE  \/ HasStop(Req'[t][d], h)
                 \/ h = generation[d] /\ AllAfter(Req'[t][d], h)
      <4>1. CASE t = s /\ d = r
        BY <1>1, <2>4, <3>1, <4>1 DEF g
      <4>2. CASE ~(t = s /\ d = r)
        BY <1>1, <2>1, <3>1, <4>2 DEF InStep, StopsUnderWay
      <4>. QED
        BY <4>1, <4>2
    <3>. QED
      BY <3>1 DEF StopsUnderWay
  <2>6. \A d \in Ranks \ {r} : Taken'[d] = Taken[d]
    BY <1>1 DEF Taken
  <2>7. \A t \in Ranks \ {s} : t \in Taken'[r] <=> t \in Taken[r]
    BY <1>1 DEF Taken
  <2>8. s \notin Taken[r]
    BY <2>2, TakenIs DEF q, g
  <2>9. s \in Taken'[r] <=> op = "STOP"
    <3>1. s \in Taken'[r] <=> Ahead(generation[s], fg[s].pc, g) /\ AllAfter(Tail(q), g)
      BY <1>1 DEF Taken, g
    <3>2. op # "STOP" /\ Ahead(generation[s], fg[s].pc, g) => ~AllAfter(Tail(q), g)
      BY <1>3, <2>4, StopIsNotAfter
    <3>. QED
      BY <1>1, <1>5, <2>1, <3>1, <3>2
  <2>10. Taken'[r] \subseteq Ranks /\ Taken[r] \subseteq Ranks
    BY DEF Taken
  <2>11. Taken'[r] = IF op = "STOP" THEN Taken[r] \cup {s} ELSE Taken[r]
    BY <2>7, <2>8, <2>9, <2>10
  <2>12. StopsCounted'
    <3>1. IsFiniteSet(Taken[r])
      BY <2>10, RanksCounted, FS_Subset
    <3>2. Cardinality(Taken[r] \cup {s}) = Cardinality(Taken[r]) + 1
      BY <2>8, <3>1, FS_AddElement
    <3>3. stops'[r] = Cardinality(Taken'[r])
      BY <2>1, <2>11, <3>2 DEF InStep, StopsCounted
    <3>. QED
      BY <1>2, <2>1, <2>6, <3>3 DEF InStep, StopsCounted
  <2>. QED
    BY <2>3, <2>5, <2>12 DEF InStep
<1>. QED
  BY <1>4, <1>6, <1>7 DEF SInv

(* A background thread leaves when it has counted as many STOPs as ranks.  *)
LEMMA ExitKept ==
    ASSUME SInv, TypeOK, NEW r \in Ranks, Exit(r)
    PROVE  SInv'
<1>1. UNCHANGED <<Req, fg, generation, stops, mixed>> /\ stops[r] = NumProc
  BY DEF Exit, channels, ghosts, Req, StopsNeeded
<1>2. bg'[r] = "done" /\ \A s \in Ranks \ {r} : bg'[s] = bg[s]
  BY DEF Exit, TypeOK
<1>3. Joined' /\ QueuesOrdered'
  BY <1>1, <1>2 DEF SInv, Joined, QueuesOrdered
<1>4. UNCHANGED Taken
  BY <1>1 DEF Taken
<1>5. ASSUME ~mixed' PROVE InStep'
  <2>1. InStep
    BY <1>1, <1>5 DEF SInv
  <2>2. Taken[r] \subseteq Ranks /\ Cardinality(Taken[r]) = Cardinality(Ranks)
    BY <1>1, <2>1, RanksCounted DEF InStep, StopsCounted, Taken
  <2>3. Taken[r] = Ranks
    BY <2>2, RanksCounted, FS_Subset
  <2>. QED
    BY <1>1, <1>2, <1>4, <2>1, <2>3 DEF InStep, NobodyLate, StopsUnderWay, StopsCounted
<1>. QED
  BY <1>3, <1>5 DEF SInv
-----------------------------------------------------------------------------
(* The invariant about stopping holds for any number of ranks and trees.   *)
THEOREM StopInvariance == Spec => []SInv
<1>1. ASSUME SInv, TypeOK, [Next]_vars
      PROVE  SInv'
  <2>1. CASE UNCHANGED vars
    <3>1. UNCHANGED <<Req, fg, generation, stops, bg, mixed>>
      BY <2>1 DEF vars, channels, ghosts, Req
    <3>. QED
      BY <1>1, <3>1, CallKept DEF SInv, Joined
  <2>2. ASSUME NEW r \in Ranks, Begin(r) PROVE SInv'
    <3>1. ASSUME NEW k \in Keys, Insert(r, k) PROVE SInv'
      <4>1. UNCHANGED <<Req, fg, generation, stops, bg, mixed>>
        BY <3>1 DEF Insert, channels, Req
      <4>. QED
        BY <1>1, <4>1, CallKept DEF SInv, Joined
    <3>2. ASSUME NEW k \in Keys, RemoveSend(r, k) PROVE SInv'
      <4>. DEFINE m == Message(r, "REMOVE", k)
      <4>1. m \in Requests /\ m.op = "REMOVE" /\ m.gen = generation[r]
        BY <1>1, MessageType DEF Message
      <4>2. Send(r, Others(r), m) /\ fg[r].pc = "idle"
        BY <3>2 DEF RemoveSend, Calls
      <4>3. UNCHANGED <<generation, stops, bg, mixed>>
        BY <3>2 DEF RemoveSend
      <4>4. fg'[r].pc = "remove" /\ \A s \in Ranks \ {r} : fg'[s] = fg[s]
        BY <1>1, <3>2 DEF RemoveSend, TypeOK
      <4>. HIDE DEF m
      <4>. QED
        BY <1>1, <4>1, <4>2, <4>3, <4>4, SendKept
    <3>3. ASSUME NEW k \in Keys, GetSend(r, k) PROVE SInv'
      <4>. DEFINE m == Message(r, "GET", k)
      <4>1. m \in Requests /\ m.op = "GET" /\ m.gen = generation[r]
        BY <1>1, MessageType DEF Message
      <4>2. Send(r, Others(r), m) /\ fg[r].pc = "idle"
        BY <3>3 DEF GetSend, Calls
      <4>3. UNCHANGED <<generation, stops, bg, mixed>>
        BY <3>3 DEF GetSend
      <4>4. fg'[r].pc = "look" /\ \A s \in Ranks \ {r} : fg'[s] = fg[s]
        BY <1>1, <3>3 DEF GetSend, TypeOK
      <4>. HIDE DEF m
      <4>. QED
        BY <1>1, <4>1, <4>2, <4>3, <4>4, SendKept
    <3>4. CASE StopSend(r)
      <4>. DEFINE m == Message(r, "STOP", fg[r].key)
      <4>1. m \in Requests /\ m.op = "STOP" /\ m.gen = generation[r]
        <5>1. fg[r].key \in Keys
          BY <1>1 DEF TypeOK
        <5>. QED
          BY <1>1, <5>1, MessageType DEF Message
      <4>2. Send(r, Ranks, m) /\ fg[r].pc = "idle"
        BY <3>4 DEF StopSend
      <4>3. UNCHANGED <<generation, stops, bg, mixed>>
        BY <3>4 DEF StopSend, ghosts
      <4>4. fg'[r].pc = "stop" /\ \A s \in Ranks \ {r} : fg'[s] = fg[s]
        BY <1>1, <3>4 DEF StopSend, TypeOK, Idle
      <4>. HIDE DEF m
      <4>. QED
        BY <1>1, <4>1, <4>2, <4>3, <4>4, SendKept
    <3>. QED
      BY <1>1, <2>2, <3>1, <3>2, <3>3, <3>4, NextTreeKept DEF Begin
  <2>3. ASSUME NEW r \in Ranks, Continue(r) PROVE SInv'
    <3>1. UNCHANGED <<Req, generation, stops, bg, mixed>>
      BY <2>3 DEF Continue, RemoveLocal, GetLocal, GetReceive, GetReturn, AckReceive, Join,
                  channels, ghosts, Req
    <3>2. \A s \in Ranks : /\ fg'[s].pc \in Ended <=> fg[s].pc \in Ended
                           /\ fg'[s].pc = "destroyed" /\ fg[s].pc # "destroyed" => bg[s] = "done"
      <4>1. \A s \in Ranks \ {r} : fg'[s] = fg[s]
        BY <1>1, <2>3 DEF Continue, RemoveLocal, GetLocal, GetReceive, GetReturn, AckReceive,
                          Join, TypeOK
      <4>2. RemoveLocal(r) => fg[r].pc = "remove" /\ fg'[r].pc = "idle"
        BY <1>1 DEF RemoveLocal, TypeOK
      <4>3. GetLocal(r) => fg[r].pc = "look" /\ fg'[r].pc = "collect"
        BY <1>1 DEF GetLocal, TypeOK
      <4>4. GetReceive(r) => fg[r].pc = "collect" /\ fg'[r].pc = "collect"
        BY <1>1 DEF GetReceive, TypeOK
      <4>5. GetReturn(r) => fg[r].pc = "collect" /\ fg'[r].pc = "idle"
        BY <1>1, IdleType DEF GetReturn, TypeOK
      <4>6. AckReceive(r) => fg[r].pc = "stop" /\ fg'[r].pc = "stop"
        BY <1>1 DEF AckReceive, TypeOK
      <4>7. Join(r) => fg[r].pc = "stop" /\ fg'[r].pc = "destroyed" /\ bg[r] = "done"
        BY <1>1 DEF Join, TypeOK
      <4>. QED
        BY <2>3, <4>1, <4>2, <4>3, <4>4, <4>5, <4>6, <4>7 DEF Continue, Ended
    <3>3. Joined'
      BY <1>1, <3>1, <3>2 DEF SInv, Joined
    <3>. QED
      BY <1>1, <3>1, <3>2, <3>3, CallKept
  <2>4. ASSUME NEW r \in Ranks, Background(r) PROVE SInv'
    <3>1. ASSUME NEW s \in Ranks, ServeGet(r, s) PROVE SInv'
      <4>1. Takes(r, s, "GET") /\ UNCHANGED <<fg, generation, bg, stops>>
        BY <3>1 DEF ServeGet
      <4>. QED
        BY <1>1, <4>1, TakeKept
    <3>2. ASSUME NEW s \in Ranks, ServeRemove(r, s) PROVE SInv'
      <4>1. Takes(r, s, "REMOVE") /\ UNCHANGED <<fg, generation, bg, stops>>
        BY <3>2 DEF ServeRemove
      <4>. QED
        BY <1>1, <4>1, TakeKept
    <3>3. ASSUME NEW s \in Ranks, ServeStop(r, s) PROVE SInv'
      <4>1. /\ Takes(r, s, "STOP") /\ UNCHANGED <<fg, generation, bg>>
            /\ \A d \in Ranks : stops'[d] = IF d = r THEN stops[d] + 1 ELSE stops[d]
        BY <1>1, <3>3 DEF ServeStop, TypeOK
      <4>. QED
        BY <1>1, <4>1, TakeKept
    <3>. QED
      BY <1>1, <2>4, <3>1, <3>2, <3>3, ExitKept DEF Background
  <2>. QED
    BY <1>1, <2>1, <2>2, <2>3, <2>4 DEF Next, AllExited
<1>. QED
  BY <1>1, StopInit, TypeCorrect, PTL DEF Spec

(* While no request strays, a background thread that has stopped has left  *)
(* none of its tree behind, for any number of ranks and trees.             *)
THEOREM NothingIsLeft == Spec => []NothingLeftAtStop
<1>1. SInv /\ TypeOK => NothingLeftAtStop
  <2>. SUFFICES ASSUME SInv, TypeOK, ~mixed, NEW r \in Ranks, NEW s \in Ranks, bg[r] = "done"
                PROVE  \A i \in DOMAIN Req[s][r] : Req[s][r][i].gen > generation[r]
    BY DEF NothingLeftAtStop, Req
  <2>1. AllAfter(Req[s][r], generation[r])
    BY TakenIs DEF SInv, InStep, StopsCounted
  <2>2. \A i \in DOMAIN Req[s][r] : i \in 1 .. Len(Req[s][r])
    BY ChannelTypes
  <2>. QED
    BY <2>1, <2>2 DEF AllAfter
<1>. QED
  BY <1>1, StopInvariance, TypeCorrect, PTL

(* While no request strays, a tree whose background thread has stopped has *)
(* no copy more than if the removes of any one rank of that generation had *)
(* been executed there when they were called.                              *)
THEOREM RemovesArrive == Spec => []RemovesReachEveryTree
<1>1. SInv /\ IInv => RemovesReachEveryTree
  <2>. SUFFICES ASSUME SInv, IInv, ~mixed, NEW r \in Ranks, NEW d \in Ranks,
                       bg[d] = "done", generation[d] = generation[r], NEW k \in Keys
                PROVE  tree[d][k] <= expected[r][d][k]
    BY DEF RemovesReachEveryTree
  <2>1. /\ Ahead(generation[r], fg[r].pc, generation[d])
        /\ AllAfter(Req[r][d], generation[d])
    BY TakenIs DEF SInv, InStep, StopsCounted
  <2>2. Req[r][d] \in Seq(Requests) /\ generation[r] \in Nat
    BY ChannelTypes, GenerationType DEF IInv
  <2>3. ASSUME NEW i \in 1 .. Len(Req[r][d]) PROVE FALSE
    <3>1. Req[r][d][i].gen > generation[r]
      BY <2>1 DEF AllAfter
    <3>2. Req[r][d][i].gen <= generation[r]
      BY DEF SInv, QueuesOrdered, SentBy
    <3>. QED
      BY <2>2, <3>1, <3>2, GensAreNat
  <2>4. Len(Req[r][d]) = 0
    BY <2>2, <2>3
  <2>5. fg[r].pc # "remove"
    BY <2>1, <2>2 DEF Ahead, Ended
  <2>6. Owed(r, d, k) = 0
    BY <2>2, <2>4, <2>5, PendingFacts DEF Owed
  <2>. QED
    BY <2>6, CopyTypes DEF IInv, RemovesPending
<1>. QED
  BY <1>1, StopInvariance, Invariance, PTL

(* While no request strays, a background thread leaves only when it has    *)
(* the STOP of every process for its tree, as distriTree.hpp:53 says.      *)
THEOREM CountsEveryProcess == Spec => [](~mixed => TerminatesOnAllStops)
<1>1. SInv /\ TypeOK => (~mixed => TerminatesOnAllStops)
  <2>. SUFFICES ASSUME SInv, TypeOK, ~mixed, NEW r \in Ranks, NEW s \in Ranks, bg[r] = "done"
                PROVE  /\ \/ generation[s] > generation[r]
                          \/ generation[s] = generation[r] /\ fg[s].pc \in {"stop", "destroyed"}
                       /\ \A i \in DOMAIN Req[s][r] : Req[s][r][i].gen # generation[r]
    BY DEF TerminatesOnAllStops, Req
  <2>1. /\ Ahead(generation[s], fg[s].pc, generation[r])
        /\ AllAfter(Req[s][r], generation[r])
    BY TakenIs DEF SInv, InStep, StopsCounted
  <2>2. \A i \in DOMAIN Req[s][r] : i \in 1 .. Len(Req[s][r])
    BY ChannelTypes
  <2>3. ASSUME NEW i \in 1 .. Len(Req[s][r]) PROVE Req[s][r][i].gen # generation[r]
    <3>1. Req[s][r][i].gen > generation[r]
      BY <2>1 DEF AllAfter
    <3>. QED
      BY <3>1, ChannelTypes, GensAreNat, GenerationType
  <2>. QED
    BY <2>1, <2>2, <2>3 DEF Ahead, Ended
<1>. QED
  BY <1>1, StopInvariance, TypeCorrect, PTL
=============================================================================
