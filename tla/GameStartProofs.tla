-------------------------- MODULE GameStartProofs --------------------------
(***************************************************************************)
(* Proofs about GameStart, for any number of games and whatever the roles  *)
(* in them.  IInv is inductive: the table of requests, what MAIN has asked *)
(* for, how far GAME is with it, and the stages of a game's life in the    *)
(* backend, from "configure" to a running game and back.                   *)
(***************************************************************************)
EXTENDS GameStart, SequenceTheorems, TLAPS

-----------------------------------------------------------------------------
(* The table of requests *)

\* Nobody has two requests of a kind under way.
Distinct(T) ==
    \A i \in DOMAIN T : \A j \in DOMAIN T :
        T[i].op = T[j].op /\ T[i].who = T[j].who => i = j

\* The main loop asks for a reset only, and waits for it.
MainLast(T) ==
    \A i \in DOMAIN T : T[i].who = "main" => i = Len(T) /\ T[i].op = "reset"

Table(T) == T \in Seq(Requests) /\ Distinct(T) /\ MainLast(T)

Named(r, op, who) == r.op = op /\ r.who = who
NoneNamed(S, op, who) == \A r \in S : ~Named(r, op, who)
NoMain(S) == \A r \in S : r.who # "main"

\* What a sequence of requests holds.
LEMMA InRange ==
    ASSUME NEW T \in Seq(Requests)
    PROVE  /\ Len(T) \in Nat /\ DOMAIN T = 1..Len(T)
           /\ \A i \in 1..Len(T) : T[i] \in Requests /\ T[i] \in Range(T)
           /\ \A r \in Range(T) : \E i \in 1..Len(T) : r = T[i]
           /\ Range(T) \subseteq Requests
<1>1. Len(T) \in Nat /\ DOMAIN T = 1..Len(T) /\ \A i \in 1..Len(T) : T[i] \in Requests
    BY LenProperties, ElementOfSeq
<1> QED BY <1>1 DEF Range

\* A request is appended to the table,
LEMMA TableAppend ==
    ASSUME NEW T, Table(T), NEW x \in Requests, NoneNamed(Range(T), x.op, x.who),
           NoMain(Range(T)), x.who = "main" => x.op = "reset"
    PROVE  Table(Append(T, x)) /\ Range(Append(T, x)) = Range(T) \cup {x}
<1> DEFINE A == Append(T, x)
<1>0. T \in Seq(Requests) /\ Distinct(T) /\ MainLast(T)
    BY DEF Table
<1>1. /\ Len(T) \in Nat /\ A \in Seq(Requests) /\ Len(A) = Len(T) + 1
      /\ \A i \in 1..Len(T) : A[i] = T[i]
      /\ A[Len(T) + 1] = x
    BY <1>0, AppendProperties, LenProperties
<1>2. DOMAIN A = 1..(Len(T) + 1) /\ DOMAIN T = 1..Len(T)
    BY <1>0, <1>1, LenProperties
<1>3. \A i \in 1..Len(T) : T[i] \in Range(T)
    BY <1>0, InRange
<1>4. \A r \in Range(T) : \E i \in 1..Len(T) : r = T[i]
    BY <1>0, InRange
<1> HIDE DEF A
<1>5. \A i \in 1..Len(T) : ~Named(T[i], x.op, x.who) /\ T[i].who # "main"
    BY <1>3 DEF NoneNamed, NoMain
<1>6. Distinct(A)
    <2> SUFFICES ASSUME NEW i \in 1..(Len(T) + 1), NEW j \in 1..(Len(T) + 1),
                        A[i].op = A[j].op, A[i].who = A[j].who
                 PROVE  i = j
        BY <1>2 DEF Distinct
    <2>1. CASE i \in 1..Len(T) /\ j \in 1..Len(T)
        BY <2>1, <1>0, <1>1, <1>2 DEF Distinct
    <2>2. CASE i = Len(T) + 1 /\ j \in 1..Len(T)
        BY <2>2, <1>1, <1>5 DEF Named
    <2>3. CASE j = Len(T) + 1 /\ i \in 1..Len(T)
        BY <2>3, <1>1, <1>5 DEF Named
    <2> QED BY <2>1, <2>2, <2>3, <1>1
<1>7. MainLast(A)
    <2> SUFFICES ASSUME NEW i \in 1..(Len(T) + 1), A[i].who = "main"
                 PROVE  i = Len(T) + 1 /\ A[i].op = "reset"
        BY <1>1, <1>2 DEF MainLast
    <2>1. i \notin 1..Len(T)
        BY <1>1, <1>5
    <2> QED BY <2>1, <1>1
<1>8. Range(A) = Range(T) \cup {x}
    <2>1. ASSUME NEW r \in Range(A) PROVE r \in Range(T) \cup {x}
        <3>1. PICK i \in 1..(Len(T) + 1) : r = A[i]
            BY <1>2 DEF Range
        <3>2. CASE i \in 1..Len(T)
            BY <3>1, <3>2, <1>1, <1>3
        <3>3. CASE i = Len(T) + 1
            BY <3>1, <3>3, <1>1
        <3> QED BY <3>1, <3>2, <3>3, <1>1
    <2>2. ASSUME NEW r \in Range(T) PROVE r \in Range(A)
        <3>1. PICK i \in 1..Len(T) : r = T[i]
            BY <1>4
        <3>2. i \in DOMAIN A /\ A[i] = r
            BY <3>1, <1>1, <1>2
        <3> QED BY <3>2 DEF Range
    <2>3. x \in Range(A)
        <3>1. Len(T) + 1 \in DOMAIN A
            BY <1>1, <1>2
        <3> QED BY <3>1, <1>1 DEF Range
    <2> QED BY <2>1, <2>2, <2>3
<1> QED BY <1>1, <1>6, <1>7, <1>8 DEF Table, A

\* One is taken out: the later ones move up.
LEMMA Removed ==
    ASSUME NEW T \in Seq(Requests), NEW k \in 1..Len(T)
    PROVE  /\ RemoveAt(T, k) \in Seq(Requests)
           /\ Len(RemoveAt(T, k)) = Len(T) - 1
           /\ \A i \in 1..(Len(T) - 1) : RemoveAt(T, k)[i] = IF i < k THEN T[i] ELSE T[i + 1]
<1> DEFINE a == SubSeq(T, 1, k - 1)
           b == SubSeq(T, k + 1, Len(T))
<1>0. Len(T) \in Nat
    BY LenProperties
<1>1. /\ a \in Seq(Requests) /\ Len(a) = k - 1
      /\ \A i \in 1..(k - 1) : a[i] = T[i]
    <2>1. 1 \in 1..(Len(T) + 1) /\ k - 1 \in 1 - 1..Len(T)
        BY <1>0
    <2>2. /\ SubSeq(T, 1, k - 1) \in Seq(Requests)
          /\ Len(SubSeq(T, 1, k - 1)) = IF 1 <= k - 1 THEN (k - 1) - 1 + 1 ELSE 0
          /\ \A i \in 1..((k - 1) - 1 + 1) : SubSeq(T, 1, k - 1)[i] = T[1 + i - 1]
        BY <2>1, SubSeqProperties
    <2>3. \A i \in 1..(k - 1) : SubSeq(T, 1, k - 1)[i] = T[i]
        <3> SUFFICES ASSUME NEW i \in 1..(k - 1) PROVE SubSeq(T, 1, k - 1)[i] = T[i]
            OBVIOUS
        <3>1. (k - 1) - 1 + 1 = k - 1 /\ 1 + i - 1 = i
            BY <1>0
        <3> QED BY <2>2, <3>1
    <2> QED BY <2>2, <2>3, <1>0
<1>2. /\ b \in Seq(Requests) /\ Len(b) = Len(T) - k
      /\ \A i \in 1..(Len(T) - k) : b[i] = T[k + i]
    <2>1. k + 1 \in 1..(Len(T) + 1) /\ Len(T) \in (k + 1) - 1..Len(T)
        BY <1>0
    <2>2. /\ SubSeq(T, k + 1, Len(T)) \in Seq(Requests)
          /\ Len(SubSeq(T, k + 1, Len(T))) = IF k + 1 <= Len(T) THEN Len(T) - (k + 1) + 1 ELSE 0
          /\ \A i \in 1..(Len(T) - (k + 1) + 1) : SubSeq(T, k + 1, Len(T))[i] = T[(k + 1) + i - 1]
        BY <2>1, SubSeqProperties
    <2>3. \A i \in 1..(Len(T) - k) : SubSeq(T, k + 1, Len(T))[i] = T[k + i]
        <3> SUFFICES ASSUME NEW i \in 1..(Len(T) - k) PROVE SubSeq(T, k + 1, Len(T))[i] = T[k + i]
            OBVIOUS
        <3>1. Len(T) - (k + 1) + 1 = Len(T) - k /\ (k + 1) + i - 1 = k + i
            BY <1>0
        <3> QED BY <2>2, <3>1
    <2> QED BY <2>2, <2>3, <1>0
<1> HIDE DEF a, b
<1>3. /\ a \o b \in Seq(Requests) /\ Len(a \o b) = Len(a) + Len(b)
      /\ \A i \in 1..(Len(a) + Len(b)) :
            (a \o b)[i] = IF i <= Len(a) THEN a[i] ELSE b[i - Len(a)]
    BY <1>1, <1>2, ConcatProperties
<1>4. RemoveAt(T, k) = a \o b
    BY DEF RemoveAt, a, b
<1>5. \A i \in 1..(Len(T) - 1) : (a \o b)[i] = IF i < k THEN T[i] ELSE T[i + 1]
    <2> SUFFICES ASSUME NEW i \in 1..(Len(T) - 1)
                 PROVE  (a \o b)[i] = IF i < k THEN T[i] ELSE T[i + 1]
        OBVIOUS
    <2>0. i \in 1..(Len(a) + Len(b)) /\ Len(a) = k - 1
        BY <1>0, <1>1, <1>2
    <2>1. CASE i < k
        <3>1. i <= Len(a) /\ i \in 1..(k - 1)
            BY <2>0, <2>1, <1>0
        <3> QED BY <3>1, <2>0, <2>1, <1>1, <1>3
    <2>2. CASE ~(i < k)
        <3>1. ~(i <= Len(a)) /\ i - Len(a) = i - k + 1 /\ i - k + 1 \in 1..(Len(T) - k)
            BY <2>0, <2>2, <1>0
        <3>2. b[i - k + 1] = T[k + (i - k + 1)] /\ k + (i - k + 1) = i + 1
            BY <3>1, <1>2, <1>0
        <3> QED BY <3>1, <3>2, <2>0, <2>2, <1>3
    <2> QED BY <2>1, <2>2
<1>6. Len(a \o b) = Len(T) - 1
    BY <1>0, <1>1, <1>2, <1>3
<1> QED BY <1>3, <1>4, <1>5, <1>6

\* A response is read, or a request canceled.
LEMMA TableWithout ==
    ASSUME NEW T, Table(T), NEW op, NEW who
    PROVE  /\ Table(Without(T, op, who))
           /\ Range(Without(T, op, who)) = {r \in Range(T) : ~Named(r, op, who)}
<1> DEFINE U == Without(T, op, who)
           keep == {r \in Range(T) : ~Named(r, op, who)}
<1>0. T \in Seq(Requests) /\ Distinct(T) /\ MainLast(T)
    BY DEF Table
<1>1. /\ Len(T) \in Nat /\ DOMAIN T = 1..Len(T)
      /\ \A i \in 1..Len(T) : T[i] \in Range(T)
      /\ \A r \in Range(T) : \E i \in 1..Len(T) : r = T[i]
    BY <1>0, InRange
<1>2. CASE Places(T, op, who) = {}
    <2>1. U = T
        BY <1>2 DEF Without
    <2>2. \A r \in Range(T) : ~Named(r, op, who)
        BY <1>1, <1>2 DEF Places, Named
    <2>3. Range(T) = keep
        BY <2>2
    <2> QED BY <2>1, <2>3
<1>3. CASE Places(T, op, who) # {}
    <2> DEFINE k == CHOOSE i \in Places(T, op, who) : TRUE
    <2>1. k \in Places(T, op, who)
        BY <1>3
    <2>2. U = RemoveAt(T, k)
        BY <1>3 DEF Without
    <2> HIDE DEF k
    <2>3. k \in 1..Len(T) /\ T[k].op = op /\ T[k].who = who
        BY <2>1, <1>1 DEF Places
    <2> HIDE DEF U
    <2>4. /\ U \in Seq(Requests) /\ Len(U) = Len(T) - 1
          /\ \A i \in 1..(Len(T) - 1) : U[i] = IF i < k THEN T[i] ELSE T[i + 1]
        BY <1>0, <2>2, <2>3, Removed
    <2> DEFINE at(i) == IF i < k THEN i ELSE i + 1
    <2>5. /\ DOMAIN U = 1..(Len(T) - 1)
          /\ \A i \in 1..(Len(T) - 1) : at(i) \in 1..Len(T) /\ at(i) # k /\ U[i] = T[at(i)]
        <3>1. DOMAIN U = 1..(Len(T) - 1)
            BY <2>4, LenProperties
        <3>2. \A i \in 1..(Len(T) - 1) : at(i) \in 1..Len(T) /\ at(i) # k
            BY <1>1, <2>3
        <3>3. \A i \in 1..(Len(T) - 1) : U[i] = T[at(i)]
            BY <2>4
        <3> QED BY <3>1, <3>2, <3>3
    <2>6. \A i \in 1..(Len(T) - 1) : \A j \in 1..(Len(T) - 1) : at(i) = at(j) => i = j
        BY <1>1, <2>3
    <2>7. \A j \in 1..Len(T) : j # k => \E i \in 1..(Len(T) - 1) : at(i) = j
        <3> SUFFICES ASSUME NEW j \in 1..Len(T), j # k
                     PROVE  \E i \in 1..(Len(T) - 1) : at(i) = j
            OBVIOUS
        <3>1. CASE j < k
            BY <3>1, <1>1, <2>3
        <3>2. CASE ~(j < k)
            <4>1. j - 1 \in 1..(Len(T) - 1) /\ at(j - 1) = j
                BY <3>2, <1>1, <2>3
            <4> QED BY <4>1
        <3> QED BY <3>1, <3>2
    <2>7a. \A i \in 1..(Len(T) - 1) : at(i) = Len(T) => i = Len(T) - 1
        <3> SUFFICES ASSUME NEW i \in 1..(Len(T) - 1), at(i) = Len(T)
                     PROVE  i = Len(T) - 1
            OBVIOUS
        <3>0. Len(T) \in Nat
            BY <1>1
        <3> HIDE DEF at
        <3>1. i # Len(T) /\ i \in Nat
            BY <3>0
        <3> USE DEF at
        <3>2. i + 1 = Len(T)
            BY <3>1
        <3> QED BY <3>1, <3>2, <1>1
    <2> HIDE DEF at
    <2>8. Distinct(U)
        <3> SUFFICES ASSUME NEW i \in 1..(Len(T) - 1), NEW j \in 1..(Len(T) - 1),
                            U[i].op = U[j].op, U[i].who = U[j].who
                     PROVE  i = j
            BY <2>5 DEF Distinct
        <3>0. /\ at(i) \in DOMAIN T /\ at(j) \in DOMAIN T
              /\ U[i] = T[at(i)] /\ U[j] = T[at(j)]
            BY <2>5, <1>1
        <3>1. at(i) = at(j)
            BY <3>0, <1>0 DEF Distinct
        <3> QED BY <3>1, <2>6
    <2>9. MainLast(U)
        <3> SUFFICES ASSUME NEW i \in 1..(Len(T) - 1), U[i].who = "main"
                     PROVE  i = Len(U) /\ U[i].op = "reset"
            BY <2>5 DEF MainLast
        <3>1. at(i) = Len(T) /\ T[at(i)].op = "reset"
            BY <2>5, <1>0, <1>1 DEF MainLast
        <3> QED BY <3>1, <2>4, <2>5, <2>7a
    <2>10. Range(U) = keep
        <3>1. ASSUME NEW r \in Range(U) PROVE r \in keep
            <4>1. PICK i \in 1..(Len(T) - 1) : r = U[i]
                BY <2>5 DEF Range
            <4>2. r = T[at(i)] /\ at(i) \in 1..Len(T) /\ at(i) # k
                BY <4>1, <2>5
            <4>3. ~Named(r, op, who)
                <5> SUFFICES ASSUME Named(r, op, who) PROVE FALSE
                    OBVIOUS
                <5>1. T[at(i)].op = T[k].op /\ T[at(i)].who = T[k].who
                    BY <4>2, <2>3 DEF Named
                <5>2. at(i) \in DOMAIN T /\ k \in DOMAIN T
                    BY <4>2, <2>3, <1>1
                <5> QED BY <5>1, <5>2, <4>2, <1>0 DEF Distinct
            <4> QED BY <4>2, <4>3, <1>1
        <3>2. ASSUME NEW r \in keep PROVE r \in Range(U)
            <4>1. PICK j \in 1..Len(T) : r = T[j]
                BY <1>1
            <4>2. j # k
                <5>1. ~Named(T[j], op, who)
                    BY <4>1
                <5> QED BY <5>1, <2>3 DEF Named
            <4>3. PICK i \in 1..(Len(T) - 1) : at(i) = j
                BY <4>2, <2>7
            <4>4. i \in DOMAIN U /\ U[i] = r
                BY <4>1, <4>3, <2>5
            <4> QED BY <4>4 DEF Range
        <3> QED BY <3>1, <3>2
    <2> QED BY <2>4, <2>8, <2>9, <2>10 DEF Table, U
<1> QED BY <1>2, <1>3

\* What MAIN is no longer waiting for.
LEMMA TableCanceled ==
    ASSUME NEW T, Table(T)
    PROVE  /\ Table(CancelRequests(T))
           /\ Range(CancelRequests(T)) = {r \in Range(T) : r.who # "frontend"}
<1> DEFINE T1 == Without(T, "init", "frontend")
           T2 == Without(T1, "map", "frontend")
           T3 == Without(T2, "reset", "frontend")
           T4 == Without(T3, "frontend", "frontend")
<1>1. Table(T1) /\ Range(T1) = {r \in Range(T) : ~Named(r, "init", "frontend")}
    BY TableWithout
<1> HIDE DEF T1
<1>2. Table(T2) /\ Range(T2) = {r \in Range(T1) : ~Named(r, "map", "frontend")}
    BY <1>1, TableWithout
<1> HIDE DEF T2
<1>3. Table(T3) /\ Range(T3) = {r \in Range(T2) : ~Named(r, "reset", "frontend")}
    BY <1>2, TableWithout
<1> HIDE DEF T3
<1>4. Table(T4) /\ Range(T4) = {r \in Range(T3) : ~Named(r, "frontend", "frontend")}
    BY <1>3, TableWithout
<1>5. CancelRequests(T) = T4
    BY DEF CancelRequests, T1, T2, T3, T4
<1> HIDE DEF T4
<1>6. \A r \in Range(T) : r.op \in Ops
    BY InRange DEF Table, Requests
<1>7. \A r \in Range(T4) : r \in Range(T) /\ r.who # "frontend"
    BY <1>1, <1>2, <1>3, <1>4, <1>6 DEF Ops, Named
<1>8. \A r \in Range(T) : r.who # "frontend" => r \in Range(T4)
    BY <1>1, <1>2, <1>3, <1>4 DEF Named
<1> QED BY <1>4, <1>5, <1>7, <1>8

\* A table whose requests keep their names stays one.
LEMMA TableSameNames ==
    ASSUME NEW T, Table(T), NEW U \in Seq(Requests), DOMAIN U = DOMAIN T,
           \A i \in DOMAIN T : U[i].op = T[i].op /\ U[i].who = T[i].who
    PROVE  Table(U)
<1>1. T \in Seq(Requests) /\ Distinct(T) /\ MainLast(T)
    BY DEF Table
<1>2. Len(U) = Len(T)
    BY <1>1, LenProperties
<1>3. Distinct(U)
    BY <1>1 DEF Distinct
<1>4. MainLast(U)
    BY <1>1, <1>2 DEF MainLast
<1> QED BY <1>3, <1>4 DEF Table

\* All requests of a phase enter the next.
InPhase(r, phase) ==
    [op |-> r.op, who |-> r.who, phase |-> phase, result |-> r.result, items |-> r.items]
After(r, from, to) == InPhase(r, IF r.phase = from THEN to ELSE r.phase)
Moved(S, S2, from, to) ==
    /\ \A q \in S2 : \E r \in S : q = After(r, from, to)
    /\ \A r \in S : After(r, from, to) \in S2

\* A batch enters its next phase: names, results and order stay.
LEMMA TableMoved ==
    ASSUME NEW T, Table(T), NEW from \in Phases, NEW to \in Phases,
           NEW U, U = [i \in DOMAIN T |->
                        [T[i] EXCEPT !.phase = IF @ = from THEN to ELSE @]]
    PROVE  Table(U) /\ Moved(Range(T), Range(U), from, to)
<1>1. /\ T \in Seq(Requests) /\ Len(T) \in Nat /\ DOMAIN T = 1..Len(T)
      /\ \A i \in 1..Len(T) : T[i] \in Requests
    BY InRange DEF Table
<1>2. \A r \in Requests : /\ [r EXCEPT !.phase = IF @ = from THEN to ELSE @] = After(r, from, to)
                          /\ After(r, from, to) \in Requests
                          /\ After(r, from, to).op = r.op
                          /\ After(r, from, to).who = r.who
    BY DEF Requests, After, InPhase
<1>3. DOMAIN U = DOMAIN T /\ \A i \in DOMAIN T : U[i] = After(T[i], from, to)
    BY <1>1, <1>2
<1>4. U \in Seq(Requests)
    <2>1. \A i \in 1..Len(T) : U[i] \in Requests
        BY ZenonT(30), <1>1, <1>2, <1>3
    <2>2. U = [i \in 1..Len(T) |-> U[i]]
        BY <1>1
    <2>3. U \in [1..Len(T) -> Requests]
        BY <2>1, <2>2
    <2> QED BY <2>3, <1>1, SeqDef
<1>5. \A i \in DOMAIN T : U[i].op = T[i].op /\ U[i].who = T[i].who
    BY <1>1, <1>2, <1>3
<1>6. Table(U)
    BY <1>3, <1>4, <1>5, TableSameNames
<1>7. ASSUME NEW q \in Range(U) PROVE \E r \in Range(T) : q = After(r, from, to)
    <2>1. PICK i \in DOMAIN U : q = U[i]
        BY DEF Range
    <2>2. T[i] \in Range(T)
        BY <1>3 DEF Range
    <2> QED BY <2>1, <2>2, <1>3
<1>8. ASSUME NEW r \in Range(T) PROVE After(r, from, to) \in Range(U)
    <2>1. PICK i \in DOMAIN T : r = T[i]
        BY DEF Range
    <2>2. U[i] \in Range(U)
        BY <1>3 DEF Range
    <2> QED BY <2>1, <2>2, <1>3
<1> QED BY <1>6, <1>7, <1>8 DEF Moved

\* One request is answered, and stays at its place.
Answered(r, phase, result, items) ==
    [op |-> r.op, who |-> r.who, phase |-> phase, result |-> result, items |-> items]

Replaced(T, U, i, x) == Table(U) /\ Range(U) = (Range(T) \ {T[i]}) \cup {x}

\* Nothing else is disturbed.
LEMMA TableAnswered ==
    ASSUME NEW T, Table(T), NEW i \in DOMAIN T, NEW x \in Requests,
           x.op = T[i].op, x.who = T[i].who,
           NEW U, U = [T EXCEPT ![i] = x]
    PROVE  Replaced(T, U, i, x)
<1>1. /\ T \in Seq(Requests) /\ Len(T) \in Nat /\ DOMAIN T = 1..Len(T)
      /\ \A j \in 1..Len(T) : T[j] \in Requests
    BY InRange DEF Table
<1>2. DOMAIN U = DOMAIN T /\ \A j \in DOMAIN T : U[j] = IF j = i THEN x ELSE T[j]
    BY <1>1
<1>3. U \in Seq(Requests)
    BY <1>1, ExceptSeq
<1>4. \A j \in DOMAIN T : U[j].op = T[j].op /\ U[j].who = T[j].who
    BY <1>2
<1>5. Table(U)
    BY <1>2, <1>3, <1>4, TableSameNames
<1>6. ASSUME NEW q \in Range(U) PROVE q = x \/ (q \in Range(T) /\ q # T[i])
    <2>1. PICK j \in DOMAIN U : q = U[j]
        BY DEF Range
    <2>2. CASE j = i
        BY <2>1, <2>2, <1>2
    <2>3. CASE j # i
        <3>1. q = T[j] /\ j \in DOMAIN T
            BY <2>1, <2>3, <1>2
        <3>2. T[j] # T[i]
            <4>1. ~(T[j].op = T[i].op /\ T[j].who = T[i].who)
                BY <3>1, <2>3 DEF Table, Distinct
            <4> QED BY <4>1
        <3> QED BY <3>1, <3>2 DEF Range
    <2> QED BY <2>2, <2>3
<1>7. x \in Range(U)
    BY <1>2 DEF Range
<1>8. ASSUME NEW r \in Range(T), r # T[i] PROVE r \in Range(U)
    <2>1. PICK j \in DOMAIN T : r = T[j]
        BY DEF Range
    <2>2. j # i
        BY <2>1, <1>8
    <2>3. U[j] = r /\ j \in DOMAIN U
        BY <2>1, <2>2, <1>2
    <2> QED BY <2>3 DEF Range
<1> QED BY <1>5, <1>6, <1>7, <1>8 DEF Replaced

-----------------------------------------------------------------------------
(* The closures that can be queued *)

ToConfigure == <<"configure">>
ToUnpack == <<"unpack">>
ToCreate == <<"create">>
ToConfigureAndUnpack == <<"configure", "unpack">>
ToConfigureAndCreate == <<"configure", "create">>

\* How they grow and shrink,
LEMMA Queues ==
    /\ Append(<<>>, "configure") = ToConfigure
    /\ Append(<<>>, "unpack") = ToUnpack
    /\ Append(<<>>, "create") = ToCreate
    /\ Append(ToConfigure, "unpack") = ToConfigureAndUnpack
    /\ Append(ToConfigure, "create") = ToConfigureAndCreate
    /\ Head(ToConfigure) = "configure" /\ Tail(ToConfigure) = <<>> /\ Len(ToConfigure) = 1
    /\ Head(ToUnpack) = "unpack" /\ Tail(ToUnpack) = <<>> /\ Len(ToUnpack) = 1
    /\ Head(ToCreate) = "create" /\ Tail(ToCreate) = <<>> /\ Len(ToCreate) = 1
    /\ Head(ToConfigureAndUnpack) = "configure" /\ Tail(ToConfigureAndUnpack) = ToUnpack
    /\ Len(ToConfigureAndUnpack) = 2
    /\ Head(ToConfigureAndCreate) = "configure" /\ Tail(ToConfigureAndCreate) = ToCreate
    /\ Len(ToConfigureAndCreate) = 2
<1>1. /\ Append(<<>>, "configure") = ToConfigure
      /\ Append(<<>>, "unpack") = ToUnpack
      /\ Append(<<>>, "create") = ToCreate
    BY DEF ToConfigure, ToUnpack, ToCreate
<1>0. \A a, b : Append(<<a>>, b) = <<a, b>>
    <2> SUFFICES ASSUME NEW a, NEW b PROVE Append(<<a>>, b) = <<a, b>>
        OBVIOUS
    <2>1. <<a>> \in Seq({a, b}) /\ <<a, b>> \in Seq({a, b})
        OBVIOUS
    <2>2. /\ Append(<<a>>, b) \in Seq({a, b}) /\ Len(Append(<<a>>, b)) = Len(<<a>>) + 1
          /\ \A i \in 1..Len(<<a>>) : Append(<<a>>, b)[i] = <<a>>[i]
          /\ Append(<<a>>, b)[Len(<<a>>) + 1] = b
        BY <2>1, AppendProperties
    <2>3. Len(<<a>>) = 1 /\ Len(<<a, b>>) = 2 /\ <<a>>[1] = a /\ <<a, b>>[1] = a /\ <<a, b>>[2] = b
        OBVIOUS
    <2>4. Append(<<a>>, b)[1] = a /\ Append(<<a>>, b)[2] = b
        <3>1. 1 \in 1..Len(<<a>>) /\ Len(<<a>>) + 1 = 2
            BY <2>3
        <3> QED BY <2>2, <2>3, <3>1
    <2>5. \A i \in 1..Len(Append(<<a>>, b)) : Append(<<a>>, b)[i] = <<a, b>>[i]
        <3> SUFFICES ASSUME NEW i \in 1..2 PROVE Append(<<a>>, b)[i] = <<a, b>>[i]
            BY <2>2, <2>3
        <3>1. i = 1 \/ i = 2
            OBVIOUS
        <3> QED BY <3>1, <2>3, <2>4
    <2> DEFINE p == Append(<<a>>, b)
               q == <<a, b>>
               S == {a, b}
    <2>6. /\ p \in Seq(S) /\ q \in Seq(S) /\ Len(p) = Len(q)
          /\ \A i \in 1..Len(p) : p[i] = q[i]
        BY <2>1, <2>2, <2>3, <2>5
    <2> HIDE DEF p, q, S
    <2>7. p = q
        BY <2>6, SeqEqual
    <2> QED BY <2>7 DEF p, q
<1>2. Append(ToConfigure, "unpack") = ToConfigureAndUnpack
    BY <1>0 DEF ToConfigure, ToConfigureAndUnpack
<1>3. Append(ToConfigure, "create") = ToConfigureAndCreate
    BY <1>0 DEF ToConfigure, ToConfigureAndCreate
<1>4. \A a : Head(<<a>>) = a /\ Tail(<<a>>) = <<>> /\ Len(<<a>>) = 1
    OBVIOUS
<1>5. \A a, b : Head(<<a, b>>) = a /\ Tail(<<a, b>>) = <<b>> /\ Len(<<a, b>>) = 2
    OBVIOUS
<1>6. /\ Head(ToConfigure) = "configure" /\ Tail(ToConfigure) = <<>> /\ Len(ToConfigure) = 1
      /\ Head(ToUnpack) = "unpack" /\ Tail(ToUnpack) = <<>> /\ Len(ToUnpack) = 1
      /\ Head(ToCreate) = "create" /\ Tail(ToCreate) = <<>> /\ Len(ToCreate) = 1
    BY <1>4 DEF ToConfigure, ToUnpack, ToCreate
<1>7. /\ Head(ToConfigureAndUnpack) = "configure" /\ Tail(ToConfigureAndUnpack) = ToUnpack
      /\ Len(ToConfigureAndUnpack) = 2
    BY <1>5 DEF ToConfigureAndUnpack, ToUnpack
<1>8. /\ Head(ToConfigureAndCreate) = "configure" /\ Tail(ToConfigureAndCreate) = ToCreate
      /\ Len(ToConfigureAndCreate) = 2
    BY <1>5 DEF ToConfigureAndCreate, ToCreate
<1> QED BY <1>1, <1>2, <1>3, <1>6, <1>7, <1>8

\* that no two of them are the same,
LEMMA QueuesDiffer ==
    /\ ToConfigure # <<>> /\ ToUnpack # <<>> /\ ToCreate # <<>>
    /\ ToConfigureAndUnpack # <<>> /\ ToConfigureAndCreate # <<>>
    /\ ToConfigure # ToUnpack /\ ToConfigure # ToCreate /\ ToUnpack # ToCreate
    /\ ToConfigureAndUnpack \notin {ToConfigure, ToUnpack, ToCreate, ToConfigureAndCreate}
    /\ ToConfigureAndCreate \notin {ToConfigure, ToUnpack, ToCreate}
<1>1. Len(<<>>) = 0
    OBVIOUS
<1>2. ToConfigureAndUnpack # ToConfigureAndCreate
    <2>1. ToUnpack # ToCreate
        BY Queues
    <2> QED BY <2>1, Queues
<1> QED BY <1>1, <1>2, Queues

\* in which of them a download is,
LEMMA UnpackQueued ==
    /\ ~Contains(<<>>, "unpack") /\ ~Contains(ToConfigure, "unpack")
    /\ Contains(ToUnpack, "unpack") /\ Contains(ToConfigureAndUnpack, "unpack")
<1>1. ~Contains(<<>>, "unpack")
    BY DEF Contains
<1>2. ~Contains(ToConfigure, "unpack")
    BY DEF Contains, ToConfigure
<1>3. Contains(ToUnpack, "unpack")
    <2>1. 1 \in 1..Len(ToUnpack) /\ ToUnpack[1] = "unpack"
        BY DEF ToUnpack
    <2> QED BY <2>1 DEF Contains
<1>4. Contains(ToConfigureAndUnpack, "unpack")
    <2>1. 2 \in 1..Len(ToConfigureAndUnpack) /\ ToConfigureAndUnpack[2] = "unpack"
        BY DEF ToConfigureAndUnpack
    <2> QED BY <2>1 DEF Contains
<1> QED BY <1>1, <1>2, <1>3, <1>4

\* and that GAME queues nothing else.
LEMMA QueuesType ==
    {<<>>, ToConfigure, ToUnpack, ToCreate, ToConfigureAndUnpack, ToConfigureAndCreate}
        \subseteq Seq({"configure", "unpack", "create"})
<1> DEFINE K == {"configure", "unpack", "create"}
<1>1. \A a \in K : <<a>> \in Seq(K)
    OBVIOUS
<1>2. \A a \in K, b \in K : <<a, b>> \in Seq(K)
    OBVIOUS
<1>3. <<>> \in Seq(K)
    OBVIOUS
<1> QED BY <1>1, <1>2, <1>3
        DEF ToConfigure, ToUnpack, ToCreate, ToConfigureAndUnpack, ToConfigureAndCreate

-----------------------------------------------------------------------------
(* The inductive invariant *)

\* Whom the frontend waits for, and when it may wait for what.
Ids ==
    /\ \A r \in Range(states) : r.who = "frontend" => r.op \in mt_ids
    /\ mt_ids \subseteq {"reset", "frontend"} \/ mt_ids = {"init"} \/ mt_ids = {"map"}
    /\ shown => mt_ids \subseteq {"reset", "frontend"}
    /\ "frontend" \in mt_ids => shown

\* Where the main loop is, when something waits for it.
Loop ==
    /\ main = "closures" => closures # <<>>
    /\ reset_needed => main \in {"init", "map", "reset", "frontend", "end", "over", "crashed"}
    /\ \A r \in Range(states) :
        /\ r.who = "main" => main \in {"await", "crashed"}
        /\ r.op = "init" /\ reset_needed => main \in {"init", "crashed"}
        /\ r.op = "init" => NoMain(Range(states))
        /\ Named(r, "reset", "frontend") /\ shown => on_game_exit = "quit"
    /\ ui \in {"menu", "popup"} => ~shown

\* Requests are processed in batches, and the main loop's reset is the last
\* of its batch.
Batch ==
    /\ game \in {"requests", "connection", "initialize"} =>
        \A r \in Range(states) : r.phase \in {"new", "executed"}
    /\ game = "preparing" => \E r \in Range(states) : r.op = "init" /\ r.phase = "processing"
    /\ \A m \in Range(states) : m.who = "main" => \A r \in Range(states) :
        /\ m.phase = "processing" => r.phase # "new"
        /\ m.phase = "answered" => r.phase \in {"answered", "executed"}
        /\ m.phase = "executed" => r.phase = "executed"

\* The stages of a game in the backend.
NotBusy == game \notin {"preparing", "initialize"}
InitTaken ==
    \A r \in Range(states) : r.op = "init" => r.phase \notin {"new", "processing"}
InitDone == \A r \in Range(states) : r.op = "init" => r.phase = "executed"
Connected == role = "client" /\ ~lost => connection = "up"

Fresh ==
    /\ game_state = "NONE" /\ closures = <<>> /\ NotBusy
    /\ ~has_managers /\ ~has_map /\ frontend_requests = {}
    /\ \A r \in Range(states) : r.op = "init" /\ r.phase # "executed" =>
        r.phase \in {"new", "processing"} /\ has_state /\ Connected

Begun ==
    /\ game_state = "NONE" /\ game = "preparing"
    /\ ~has_map /\ has_state /\ Connected
    /\ \/ closures = ToConfigure /\ ~has_managers
       \/ closures = <<>> /\ has_managers

Loading ==
    /\ game_state = "PREPARING_MAP" /\ role = "client"
    /\ NotBusy /\ has_state /\ InitTaken
    /\ \/ closures = ToConfigure /\ ~has_managers
       \/ closures = <<>> /\ has_managers
       \/ closures = ToConfigureAndUnpack /\ ~has_managers /\ InitDone /\ Connected
       \/ closures = ToUnpack /\ has_managers /\ InitDone /\ Connected

NotLoaded ==
    /\ game_state = "PREPARING_MAP" /\ role = "master"
    /\ NotBusy /\ has_state /\ InitTaken
    /\ \/ closures = ToConfigure /\ ~has_managers
       \/ closures = <<>> /\ has_managers

Initializing ==
    /\ game_state = "INITIALIZING" /\ game # "preparing"
    /\ has_map /\ has_state /\ InitTaken
    /\ \/ closures = ToConfigure /\ ~has_managers /\ role = "master"
       \/ closures = <<>> /\ has_managers

Creating ==
    /\ game_state = "STARTING" /\ NotBusy
    /\ has_map /\ has_state /\ InitDone
    /\ \/ closures = ToConfigureAndCreate /\ ~has_managers /\ role = "master"
       \/ closures = ToCreate /\ has_managers

Running ==
    /\ game_state = "RUNNING" /\ NotBusy
    /\ has_map /\ has_state /\ InitDone /\ closures = <<>>

\* A client that lost its connection and was reset, with closures left.
Broken ==
    /\ game_state = "NONE" /\ game # "preparing"
    /\ lost /\ role = "client" /\ ~has_map /\ has_state /\ InitDone
    /\ \/ closures = <<>> /\ (game = "initialize" => ~has_managers)
       \/ closures = ToUnpack /\ NotBusy
       \/ closures \in {ToConfigure, ToConfigureAndUnpack, ToCreate} /\ ~has_managers /\ NotBusy

Stage ==
    Fresh \/ Begun \/ Loading \/ NotLoaded \/ Initializing \/ Creating \/ Running \/ Broken

\* What the stages say of the way back to the menu, and of errors.
Leaving ==
    ui \in {"menu", "popup"} \/ shown \/ reset_needed \/ ~NoMain(Range(states))

Ends ==
    /\ Leaving /\ Alive => InitDone /\ (Fresh \/ (Running /\ shown))
    /\ \A r \in Range(states) :
        Named(r, "reset", "main") /\ r.phase \in {"answered", "executed"} => game_state = "NONE"
    /\ role = "master" => ~lost /\ connection = "none"
    /\ lost => connection = "none"
    /\ init_error /\ ~lost => Fresh \/ Begun

Answers ==
    \A r \in Range(states) :
        /\ r.op = "map" => InitDone
        /\ r.op = "map" /\ r.result \in {"ERROR", "ABORTED"} => lost \/ Fresh \/ Running
        /\ r.op = "map" /\ r.result = "SUCCESS" => Running
        /\ r.op = "reset" => lost \/ Fresh \/ Running

IInv ==
    /\ TypeOK /\ Table(states) /\ Ids /\ Loop /\ Batch /\ Stage /\ Ends /\ Answers
    /\ NoStaleCancel /\ FrontendIsCurrent /\ CrashIsLoss

-----------------------------------------------------------------------------
(* Steps that leave a game at its stage *)

Kept ==
    /\ Fresh => Fresh'
    /\ Begun => Begun'
    /\ Loading => Loading'
    /\ NotLoaded => NotLoaded'
    /\ Initializing => Initializing'
    /\ Creating => Creating'
    /\ Running => Running'
    /\ Broken => Broken'
    /\ InitDone => InitDone'

InitsLater ==
    \A q \in Range(states') : q.op = "init" => \E r \in Range(states) :
        /\ r.op = "init"
        /\ \/ q.phase = r.phase
           \/ r.phase = "new" /\ q.phase = "processing"
           \/ r.phase = "answered" /\ q.phase = "executed"

Undisturbed ==
    /\ closures' = closures /\ game_state' = game_state /\ connection' = connection
    /\ has_state' = has_state /\ has_managers' = has_managers /\ has_map' = has_map
    /\ role' = role /\ lost' = lost
    /\ frontend_requests' = frontend_requests \/ frontend_requests' = {}
    /\ game' = game \/ (NotBusy /\ NotBusy')
    /\ InitsLater

\* Nothing that a stage speaks of has changed, but requests that were taken.
LEMMA StageKept == Undisturbed => Kept
<1> SUFFICES ASSUME Undisturbed PROVE Kept
    OBVIOUS
<1>1. InitTaken => InitTaken'
    BY DEF Undisturbed, InitsLater, InitTaken
<1>2. InitDone => InitDone'
    BY DEF Undisturbed, InitsLater, InitDone
<1>3. NotBusy => NotBusy'
    BY DEF Undisturbed, NotBusy
<1>4. Connected => Connected'
    BY DEF Undisturbed, Connected
<1>5. game = "preparing" <=> game' = "preparing"
    BY DEF Undisturbed, NotBusy
<1>6. game' = "initialize" => game = "initialize"
    BY DEF Undisturbed, NotBusy
<1>7. Fresh => Fresh'
    <2> SUFFICES ASSUME Fresh PROVE Fresh'
        OBVIOUS
    <2>1. ASSUME NEW q \in Range(states'), q.op = "init", q.phase # "executed"
          PROVE  q.phase \in {"new", "processing"} /\ has_state' /\ Connected'
        BY <2>1, <1>4 DEF Undisturbed, InitsLater, Fresh
    <2> QED BY <2>1, <1>3 DEF Undisturbed, Fresh
<1>8. Begun => Begun'
    BY <1>4, <1>5 DEF Undisturbed, Begun
<1>9. Loading => Loading'
    BY <1>1, <1>2, <1>3, <1>4 DEF Undisturbed, Loading
<1>10. NotLoaded => NotLoaded'
    BY <1>1, <1>3 DEF Undisturbed, NotLoaded
<1>11. Initializing => Initializing'
    BY <1>1, <1>5 DEF Undisturbed, Initializing
<1>12. Creating => Creating'
    BY <1>2, <1>3 DEF Undisturbed, Creating
<1>13. Running => Running'
    BY <1>2, <1>3 DEF Undisturbed, Running
<1>14. Broken => Broken'
    BY <1>2, <1>3, <1>5, <1>6 DEF Undisturbed, Broken
<1> QED BY <1>2, <1>7, <1>8, <1>9, <1>10, <1>11, <1>12, <1>13, <1>14 DEF Kept

\* So the game is at a stage still.
LEMMA StageStays == IInv /\ Kept => Stage'
    BY DEF IInv, Stage, Kept

-----------------------------------------------------------------------------
(* MAIN moves on, and nothing else happens *)

\* Where MAIN goes matters to the loop only.
LEMMA OnlyMain ==
    ASSUME IInv, UNCHANGED <<requestVars, frontendVars, game, backendVars, historyVars>>,
           main' \in {"closures", "ui", "init", "map", "reset", "frontend", "end", "crashed"},
           main \notin {"over", "crashed"}, Loop', main' = "crashed" => lost
    PROVE  IInv'
<1> USE DEF requestVars, frontendVars, backendVars, historyVars
<1>1. Kept
    <2>1. Undisturbed
        BY DEF Undisturbed, InitsLater
    <2> QED BY <2>1, StageKept
<1>2. Stage'
    BY <1>1, StageStays
<1>3. Table(states)' /\ Ids' /\ Batch'
    BY DEF IInv, Ids, Batch
<1>4. Ends'
    BY <1>1 DEF IInv, Ends, Leaving, Alive, Kept, NoMain, Named
<1>5. Answers'
    BY <1>1 DEF IInv, Answers, Kept
<1>6. NoStaleCancel' /\ FrontendIsCurrent' /\ CrashIsLoss'
    BY DEF IInv, NoStaleCancel, FrontendIsCurrent, ShownIsRunning, ResetAsked, Shows,
           RequestsOfThisGame, Alive, CrashIsLoss
<1>7. TypeOK'
    BY DEF IInv, TypeOK
<1> QED BY <1>2, <1>3, <1>4, <1>5, <1>6, <1>7 DEF IInv

\* A crash of a game that has lost its connection is what is to be expected.
LEMMA CrashStep == IInv /\ Crash /\ Alive /\ lost => IInv'
<1> SUFFICES ASSUME IInv, Crash, Alive, lost PROVE IInv'
    OBVIOUS
<1>1. Loop'
    BY DEF IInv, Loop, Crash, requestVars, frontendVars, NoMain
<1> QED BY <1>1, OnlyMain DEF Crash, Alive

\* The user does nothing.
LEMMA NoClickStep == IInv /\ NoClick => IInv'
<1> SUFFICES ASSUME IInv, NoClick PROVE IInv'
    OBVIOUS
<1>1. Loop'
    BY DEF IInv, Loop, NoClick, requestVars, frontendVars, NoMain
<1> QED BY <1>1, OnlyMain DEF NoClick

\* A poll that finds nothing.  A request for "init" is not left behind when
\* a reset is needed: it has been executed by then.
LEMMA NothingYetStep ==
    ASSUME IInv, NEW op, NEW next,
           <<op, next>> \in {<<"init", "map">>, <<"map", "reset">>, <<"reset", "frontend">>},
           NothingYet(op, next)
    PROVE  IInv'
<1>1. CASE op = "init" /\ next = "map"
    <2>1. NoneNamed(Range(states), "init", "frontend") \/ ~reset_needed
        <3> SUFFICES ASSUME reset_needed, NEW r \in Range(states), Named(r, "init", "frontend")
                     PROVE  FALSE
            BY DEF NoneNamed
        <3>1. r.phase = "executed"
            BY <1>1 DEF IInv, Ends, Leaving, Alive, NothingYet, InitDone, Named
        <3> QED BY <1>1, <3>1 DEF NothingYet, Responses, Named
    <2>2. \A r \in Range(states) : r.op = "init" => r.who = "frontend"
        BY InRange DEF IInv, Table, Requests, Loop, NoMain
    <2>3. Loop'
        BY <1>1, <2>1, <2>2
        DEF IInv, Loop, NothingYet, requestVars, frontendVars, NoMain, NoneNamed, Named
    <2> QED BY <1>1, <2>3, OnlyMain DEF NothingYet
<1>2. CASE op # "init"
    <2>1. main \in {"map", "reset"} /\ main' \in {"reset", "frontend"}
        BY <1>2 DEF NothingYet
    <2>2. Loop'
        BY <2>1 DEF IInv, Loop, NothingYet, requestVars, frontendVars, NoMain
    <2> QED BY <2>1, <2>2, OnlyMain DEF NothingYet
<1> QED BY <1>1, <1>2

\* The frontend has nothing to show yet, or no response.
LEMMA NothingToShowStep == IInv /\ NothingToShow => IInv'
<1> SUFFICES ASSUME IInv, NothingToShow PROVE IInv'
    OBVIOUS
<1>1. Loop'
    BY DEF IInv, Loop, NothingToShow, requestVars, frontendVars, NoMain
<1> QED BY <1>1, OnlyMain DEF NothingToShow

\* The next iteration begins with the closures, when there are any.
LEMMA NextFrameStep == IInv /\ NextFrame => IInv'
<1> SUFFICES ASSUME IInv, NextFrame PROVE IInv'
    OBVIOUS
<1>1. Loop'
    BY DEF IInv, Loop, NextFrame, requestVars, frontendVars, NoMain
<1> QED BY <1>1, OnlyMain DEF NextFrame

-----------------------------------------------------------------------------
(* Facts about the requests that are under way *)

\* What a request is when it is made.
LEMMA NewRequest ==
    ASSUME NEW op \in Ops, NEW who \in {"frontend", "main"}
    PROVE  /\ Request(op, who) \in Requests
           /\ Request(op, who).op = op /\ Request(op, who).who = who
           /\ Request(op, who).phase = "new" /\ Request(op, who).result = "NONE"
           /\ Request(op, who).items = {}
    BY DEF Request, Requests, Phases, Results

\* A request is known by its name, and only a reset can be the main loop's.
LEMMA ByName ==
    ASSUME NEW T, Table(T)
    PROVE  /\ Range(T) \subseteq Requests
           /\ \A r \in Range(T) : r.who = "main" => r.op = "reset"
           /\ \A r \in Range(T) : r.op # "reset" => r.who = "frontend"
           /\ \A r \in Range(T) : \A q \in Range(T) : r.op = q.op /\ r.who = q.who => r = q
<1>1. /\ T \in Seq(Requests) /\ DOMAIN T = 1..Len(T)
      /\ \A i \in 1..Len(T) : T[i] \in Requests
      /\ \A r \in Range(T) : \E i \in 1..Len(T) : r = T[i]
      /\ Range(T) \subseteq Requests
    BY InRange DEF Table
<1>2. \A r \in Range(T) : r.who = "main" => r.op = "reset"
    BY <1>1 DEF Table, MainLast
<1>3. \A r \in Range(T) : r.op # "reset" => r.who = "frontend"
    BY <1>1, <1>2 DEF Requests
<1>4. \A r \in Range(T) : \A q \in Range(T) : r.op = q.op /\ r.who = q.who => r = q
    BY <1>1 DEF Table, Distinct
<1> QED BY <1>1, <1>2, <1>3, <1>4

\* The frontend waits for two things at most, the main loop for one.
LEMMA AtMostThree ==
    ASSUME NEW T, Table(T), NEW M,
           \A r \in Range(T) : r.who = "frontend" => r.op \in M,
           M \subseteq {"reset", "frontend"} \/ M = {"init"} \/ M = {"map"}
    PROVE  T \in Seq(Requests) /\ Len(T) <= 3
<1>1. /\ T \in Seq(Requests) /\ Len(T) \in Nat /\ DOMAIN T = 1..Len(T)
      /\ \A i \in 1..Len(T) : T[i] \in Requests /\ T[i] \in Range(T)
    BY InRange DEF Table
<1>2. SUFFICES ASSUME Len(T) > 3 PROVE FALSE
    BY <1>1
<1>3. \A i \in 1..3 : i \in DOMAIN T /\ i # Len(T)
    <2>1. PICK n \in Nat : n = Len(T) /\ n > 3
        BY <1>1, <1>2
    <2>2. \A i \in 1..3 : i \in 1..n /\ i # n
        BY <2>1
    <2> QED BY <2>1, <2>2, <1>1
<1>4. \A i \in 1..3 : T[i].who = "frontend" /\ T[i].op \in M
    <2> SUFFICES ASSUME NEW i \in 1..3 PROVE T[i].who = "frontend" /\ T[i].op \in M
        OBVIOUS
    <2>1. T[i].who # "main"
        BY <1>3 DEF Table, MainLast
    <2>2. T[i] \in Requests /\ T[i] \in Range(T)
        BY <1>1, <1>3
    <2> QED BY <2>1, <2>2 DEF Requests
<1>5. /\ T[1].op \in M /\ T[1].who = "frontend" /\ 1 \in DOMAIN T
      /\ T[2].op \in M /\ T[2].who = "frontend" /\ 2 \in DOMAIN T
      /\ T[3].op \in M /\ T[3].who = "frontend" /\ 3 \in DOMAIN T
    BY <1>3, <1>4
<1>6. T[1].op # T[2].op /\ T[1].op # T[3].op /\ T[2].op # T[3].op
    BY <1>5 DEF Table, Distinct
<1> QED BY <1>5, <1>6

-----------------------------------------------------------------------------
(* MAIN polls *)

\* "init" was all that MAIN waited for: nothing or "map" takes its place.
LEMMA PollInitStep == IInv /\ PollInit => IInv'
<1> SUFFICES ASSUME IInv, PollInit PROVE IInv'
    OBVIOUS
<1> USE DEF requestVars, frontendVars, backendVars, historyVars
<1> DEFINE left == {r \in Range(states) : ~Named(r, "init", "frontend")}
           asked == Request("map", "frontend")
<1>0. Table(states) /\ Ids /\ Loop /\ Batch
    BY DEF IInv
<1>1. PICK i \in Range(states) : Named(i, "init", "frontend") /\ i.phase = "executed"
    BY DEF PollInit, Responses, Named
<1>2. mt_ids = {"init"} /\ ~shown /\ NoMain(Range(states))
    BY <1>0, <1>1 DEF Ids, Loop, Named
<1>3. \A r \in Range(states) : r = i
    BY <1>0, <1>1, <1>2, ByName DEF Ids, Named, NoMain, Requests
<1>4. left = {}
    BY <1>1, <1>3
<1>5. Table(Without(states, "init", "frontend")) /\ Range(Without(states, "init", "frontend")) = {}
    BY <1>0, <1>4, TableWithout
<1>6. /\ asked \in Requests /\ asked.op = "map" /\ asked.who = "frontend"
      /\ asked.phase = "new" /\ asked.result = "NONE" /\ asked.items = {}
    BY NewRequest DEF Ops
<1>7. /\ Table(Append(Without(states, "init", "frontend"), asked))
      /\ Range(Append(Without(states, "init", "frontend"), asked)) = {asked}
    BY <1>5, <1>6, TableAppend DEF NoneNamed, NoMain
<1>8. /\ Table(states')
      /\ \/ Range(states') = {} /\ mt_ids' = {"init"}
         \/ Range(states') = {asked} /\ mt_ids' = {"map"}
    BY <1>2, <1>5, <1>7 DEF PollInit
<1> HIDE DEF asked
<1>9. Kept
    <2>1. Undisturbed
        BY <1>6, <1>8 DEF PollInit, Undisturbed, InitsLater
    <2> QED BY <2>1, StageKept
<1>10. Stage'
    BY <1>9, StageStays
<1>11. Ids' /\ Loop' /\ game # "preparing"
    BY <1>0, <1>1, <1>2, <1>3, <1>6, <1>8 DEF PollInit, Ids, Loop, NoMain, Named, Batch
<1>12. Batch'
    BY <1>0, <1>6, <1>8, <1>11 DEF PollInit, Batch
<1>13. Ends'
    BY <1>6, <1>8, <1>9, <1>2 DEF IInv, PollInit, Ends, Leaving, Alive, Kept, NoMain, Named
<1>14. Answers'
    BY <1>6, <1>8 DEF Answers, InitDone
<1>15. NoStaleCancel' /\ CrashIsLoss'
    BY <1>1, <1>3 DEF IInv, PollInit, NoStaleCancel, CrashIsLoss, Named
<1>16. FrontendIsCurrent'
    BY <1>2, <1>6, <1>8
    DEF IInv, PollInit, FrontendIsCurrent, ShownIsRunning, Shows, RequestsOfThisGame
<1>17. TypeOK'
    <2>1. states' \in Seq(Requests) /\ Len(states') <= 3
        BY <1>8, <1>11, AtMostThree DEF Ids
    <2> QED BY <2>1, <1>8 DEF IInv, PollInit, TypeOK, Ops
<1> QED BY <1>8, <1>10, <1>11, <1>12, <1>13, <1>14, <1>15, <1>16, <1>17 DEF IInv

\* After ExitGame the frontend waits for its reset only.
LEMMA Exited ==
    ASSUME NEW T, Table(T), NoMain(Range(T)),
           NEW U, U = Append(CancelRequests(T), Request("reset", "frontend"))
    PROVE  Table(U) /\ Range(U) = {Request("reset", "frontend")}
<1> DEFINE asked == Request("reset", "frontend")
<1>1. Table(CancelRequests(T)) /\ Range(CancelRequests(T)) = {}
    BY TableCanceled, ByName DEF NoMain, Requests
<1>2. /\ asked \in Requests /\ asked.op = "reset" /\ asked.who = "frontend"
    BY NewRequest DEF Ops
<1> HIDE DEF asked
<1>3. Table(Append(CancelRequests(T), asked)) /\ Range(Append(CancelRequests(T), asked)) = {asked}
    BY <1>1, <1>2, TableAppend DEF NoneNamed, NoMain
<1> QED BY <1>3 DEF asked

\* "map" was all that MAIN waited for: it asks again, shows the game that runs, or
\* leaves it with a reset.
LEMMA PollMapDataStep == IInv /\ PollMapData => IInv'
<1> SUFFICES ASSUME IInv, PollMapData PROVE IInv'
    OBVIOUS
<1> USE DEF requestVars, frontendVars, backendVars, historyVars
<1> DEFINE again == Request("map", "frontend")
           reset == Request("reset", "frontend")
           rest == Without(states, "map", "frontend")
<1>0. Table(states) /\ Ids /\ Loop /\ Batch /\ Ends /\ Answers
    BY DEF IInv
<1>1. main = "map" /\ main' = "reset" /\ NoMain(Range(states))
    BY <1>0 DEF PollMapData, Loop, NoMain
<1>2. PICK m \in Range(states) :
        /\ Named(m, "map", "frontend") /\ m.phase = "executed"
        /\ \/ /\ m.result = "PENDING"
              /\ states' = Append(rest, again)
              /\ UNCHANGED <<mt_ids, shown, on_game_exit, init_cancel>>
           \/ /\ m.result = "SUCCESS"
              /\ states' = rest
              /\ mt_ids' = mt_ids \ {"map"}
              /\ shown' = TRUE
              /\ UNCHANGED <<on_game_exit, init_cancel>>
           \/ /\ m.result \in {"ERROR", "ABORTED"}
              /\ ExitGame("cancel")
              /\ UNCHANGED shown
    BY DEF PollMapData, Responses, Named
<1>3. mt_ids = {"map"} /\ ~shown
    BY <1>0, <1>2 DEF Ids, Named
<1>4. \A r \in Range(states) : r = m
    BY <1>0, <1>1, <1>2, <1>3, ByName DEF Ids, Named, NoMain, Requests
<1>5. Table(rest) /\ Range(rest) = {}
    <2>1. {r \in Range(states) : ~Named(r, "map", "frontend")} = {}
        BY <1>2, <1>4
    <2> QED BY <2>1, <1>0, TableWithout
<1>6. /\ again \in Requests /\ again.op = "map" /\ again.who = "frontend"
      /\ again.phase = "new" /\ again.result = "NONE" /\ again.items = {}
      /\ reset \in Requests /\ reset.op = "reset" /\ reset.who = "frontend"
      /\ reset.phase = "new" /\ reset.result = "NONE" /\ reset.items = {}
    BY NewRequest DEF Ops
<1>7. Table(Append(rest, again)) /\ Range(Append(rest, again)) = {again}
    BY <1>5, <1>6, TableAppend DEF NoneNamed, NoMain
<1>8. \/ /\ Table(states') /\ Range(states') = {again}
         /\ UNCHANGED <<mt_ids, shown, on_game_exit, init_cancel>>
      \/ /\ Table(states') /\ Range(states') = {} /\ mt_ids' = {} /\ shown' = TRUE
         /\ Running /\ UNCHANGED <<on_game_exit, init_cancel>>
      \/ /\ Table(states') /\ Range(states') = {reset} /\ mt_ids' = {"reset"}
         /\ init_cancel' = TRUE /\ shown' = shown /\ on_game_exit' = "cancel"
         /\ lost \/ Fresh \/ Running
    <2>1. CASE m.result = "PENDING"
        BY <2>1, <1>2, <1>7
    <2>2. CASE m.result = "SUCCESS"
        BY <2>2, <1>0, <1>2, <1>3, <1>5 DEF Answers, Named
    <2>3. CASE m.result \in {"ERROR", "ABORTED"}
        <3>1. ExitGame("cancel") /\ shown' = shown
            BY <2>3, <1>2
        <3>2. Table(states') /\ Range(states') = {reset}
            BY <3>1, <1>0, <1>1, Exited DEF ExitGame
        <3> QED BY <3>1, <3>2, <2>3, <1>0, <1>2 DEF ExitGame, Answers, Named
    <2> QED BY <2>1, <2>2, <2>3, <1>2
<1> HIDE DEF again, reset, rest
<1>9. UNCHANGED <<closures, ui, reset_needed, game, game_state, init_error, has_state,
                  has_managers, has_map, map_data, connection, frontend_requests, historyVars>>
    BY DEF PollMapData
<1>10. Kept
    <2>1. Undisturbed
        BY <1>6, <1>8, <1>9 DEF Undisturbed, InitsLater
    <2> QED BY <2>1, StageKept
<1>11. Stage'
    BY <1>10, StageStays
<1>12. Running => ui \notin {"menu", "popup"} /\ ~reset_needed
    BY <1>0, <1>1, <1>3 DEF Ends, Leaving, Alive, Fresh, Running
<1>13. Ids' /\ Loop' /\ Table(states') /\ Batch'
    BY <1>0, <1>1, <1>2, <1>3, <1>4, <1>6, <1>8, <1>9, <1>12 DEF Ids, Loop, NoMain, Named, Batch
<1>14. Ends'
    BY <1>0, <1>1, <1>6, <1>8, <1>9, <1>10, <1>12
    DEF Ends, Leaving, Alive, Kept, NoMain, Named, InitDone
<1>15. Answers'
    BY <1>6, <1>8, <1>9, <1>10 DEF Answers, InitDone, Kept
<1>16. NoStaleCancel' /\ CrashIsLoss'
    BY <1>1, <1>2, <1>4, <1>6, <1>8 DEF IInv, NoStaleCancel, CrashIsLoss, Named
<1>17. FrontendIsCurrent'
    BY <1>3, <1>6, <1>8, <1>9
    DEF IInv, Running, FrontendIsCurrent, ShownIsRunning, Shows, ResetAsked, RequestsOfThisGame
<1>18. TypeOK'
    <2>1. states' \in Seq(Requests) /\ Len(states') <= 3
        BY <1>13, AtMostThree DEF Ids
    <2>2. /\ mt_ids' \in SUBSET Ops /\ shown' \in BOOLEAN /\ init_cancel' \in BOOLEAN
          /\ on_game_exit' \in {"none", "cancel", "quit"}
        BY <1>8 DEF IInv, TypeOK, Ops
    <2> QED BY <2>1, <2>2, <1>1, <1>9 DEF IInv, TypeOK
<1> QED BY <1>11, <1>13, <1>14, <1>15, <1>16, <1>17, <1>18 DEF IInv

\* The reset that MAIN asked for is done, and the game behind it gone.
LEMMA PollResetStep == IInv /\ PollReset => IInv'
<1> SUFFICES ASSUME IInv, PollReset PROVE IInv'
    OBVIOUS
<1> USE DEF requestVars, frontendVars, backendVars, historyVars
<1>0. Table(states) /\ Ids /\ Loop /\ Batch /\ Ends /\ Answers
    BY DEF IInv
<1>1. main = "reset" /\ main' \in {"over", "frontend"} /\ NoMain(Range(states))
    BY <1>0 DEF PollReset, Loop, NoMain
<1>2. PICK m \in Range(states) : Named(m, "reset", "frontend") /\ m.phase = "executed"
    BY DEF PollReset, Responses, Named
<1>3. mt_ids \subseteq {"reset", "frontend"}
    BY <1>0, <1>2 DEF Ids, Named
<1>4. /\ Table(states')
      /\ Range(states') = {r \in Range(states) : ~Named(r, "reset", "frontend")}
    BY <1>0, TableWithout DEF PollReset
<1>5. \A r \in Range(states) : r.who = "frontend" /\ (r = m \/ r.op = "frontend")
    BY <1>0, <1>1, <1>2, <1>3, ByName DEF Ids, NoMain, Requests, Named
<1>6. \A r \in Range(states') : r \in Range(states) /\ r.op = "frontend" /\ r.who = "frontend"
    BY <1>2, <1>4, <1>5 DEF Named
<1>7. UNCHANGED <<closures, ui, reset_needed, shown, game, backendVars, historyVars>>
    BY DEF PollReset
<1>8. Kept
    <2>1. Undisturbed
        BY <1>6, <1>7 DEF Undisturbed, InitsLater
    <2> QED BY <2>1, StageKept
<1>9. Stage'
    BY <1>8, StageStays
<1>10. game # "preparing"
    BY <1>0, <1>2, <1>5 DEF Batch, Named
<1>11. Ids' /\ Loop' /\ Batch'
    BY <1>0, <1>1, <1>3, <1>6, <1>7, <1>10 DEF PollReset, Ids, Loop, NoMain, Named, Batch
<1>12. Ends'
    BY <1>0, <1>1, <1>6, <1>7, <1>8 DEF Ends, Leaving, Alive, Kept, NoMain, Named
<1>13. Answers'
    BY <1>6 DEF Answers
<1>14. ~init_cancel
    BY <1>2, <1>5 DEF IInv, NoStaleCancel, Named
<1>15. NoStaleCancel' /\ CrashIsLoss'
    BY <1>1, <1>7, <1>14 DEF NoStaleCancel, CrashIsLoss
<1>16. shown => main' = "over"
    BY <1>0, <1>2 DEF Loop, PollReset
<1>17. FrontendIsCurrent'
    BY <1>6, <1>7, <1>16
    DEF IInv, FrontendIsCurrent, ShownIsRunning, Shows, ResetAsked, RequestsOfThisGame, Alive
<1>18. TypeOK'
    <2>1. states' \in Seq(Requests) /\ Len(states') <= 3
        BY <1>4, <1>11, AtMostThree DEF Ids
    <2>2. mt_ids' \in SUBSET Ops /\ on_game_exit' = "none"
        BY DEF PollReset, IInv, TypeOK
    <2> QED BY <2>1, <2>2, <1>1, <1>7 DEF IInv, TypeOK
<1> QED BY <1>4, <1>9, <1>11, <1>12, <1>13, <1>15, <1>17, <1>18 DEF IInv

\* A frontend that is shown asks for what is new, until it is told to quit.
LEMMA PollFrontendRequestsStep == IInv /\ PollFrontendRequests => IInv'
<1> SUFFICES ASSUME IInv, PollFrontendRequests PROVE IInv'
    OBVIOUS
<1> USE DEF requestVars, frontendVars, backendVars, historyVars
<1> DEFINE again == Request("frontend", "frontend")
           reset == Request("reset", "frontend")
           rest == Without(states, "frontend", "frontend")
           others == {r \in Range(states) : ~Named(r, "frontend", "frontend")}
<1>0. Table(states) /\ Ids /\ Loop /\ Batch /\ Ends /\ Answers
    BY DEF IInv
<1>1. main = "frontend" /\ main' = "end" /\ shown /\ NoMain(Range(states))
    BY <1>0 DEF PollFrontendRequests, Loop, NoMain
<1>2. mt_ids \subseteq {"reset", "frontend"}
    BY <1>0, <1>1 DEF Ids
<1>3. \A r \in Range(states) : r.who = "frontend" /\ r.op \in {"reset", "frontend"}
    BY <1>0, <1>1, <1>2, ByName DEF Ids, NoMain, Requests
<1>4. /\ again \in Requests /\ again.op = "frontend" /\ again.who = "frontend"
      /\ again.phase = "new" /\ again.result = "NONE" /\ again.items = {}
      /\ reset \in Requests /\ reset.op = "reset" /\ reset.who = "frontend"
      /\ reset.phase = "new" /\ reset.result = "NONE" /\ reset.items = {}
    BY NewRequest DEF Ops
<1>5. Table(rest) /\ Range(rest) = others
    BY <1>0, TableWithout
<1>6. Table(Append(rest, again)) /\ Range(Append(rest, again)) = others \cup {again}
    BY <1>1, <1>4, <1>5, TableAppend DEF NoneNamed, NoMain, Named
<1>7. UNCHANGED <<closures, ui, reset_needed, shown, game, game_state, init_error, has_state,
                  has_managers, has_map, map_data, connection, frontend_requests, historyVars>>
    BY DEF PollFrontendRequests
<1>8. \/ /\ Table(states') /\ Range(states') = Range(states) \cup {again}
         /\ mt_ids' = mt_ids \cup {"frontend"} /\ UNCHANGED <<on_game_exit, init_cancel>>
      \/ /\ Table(states') /\ Range(states') = {reset} /\ mt_ids' = {"reset"}
         /\ on_game_exit' = "quit" /\ init_cancel' = TRUE
      \/ /\ Table(states') /\ Range(states') = others \cup {again}
         /\ "frontend" \in mt_ids /\ UNCHANGED <<mt_ids, on_game_exit, init_cancel>>
      \/ /\ Table(states') /\ Range(states') = others
         /\ mt_ids' = mt_ids \ {"frontend"} /\ UNCHANGED <<on_game_exit, init_cancel>>
    <2>1. CASE /\ "frontend" \notin mt_ids
               /\ states' = Append(states, again)
               /\ mt_ids' = mt_ids \cup {"frontend"}
               /\ UNCHANGED <<on_game_exit, init_cancel>>
        <3>1. NoneNamed(Range(states), "frontend", "frontend")
            BY <2>1, <1>0 DEF NoneNamed, Named, Ids
        <3>2. /\ Table(Append(states, again))
              /\ Range(Append(states, again)) = Range(states) \cup {again}
            BY <3>1, <1>0, <1>1, <1>4, TableAppend
        <3> QED BY <2>1, <3>2
    <2>2. CASE \E r \in Responses("frontend", "frontend") :
            IF \E item \in r.items : item[1] = "quit"
            THEN ExitGame("quit")
            ELSE /\ states' = IF on_game_exit = "none" THEN Append(rest, again) ELSE rest
                 /\ mt_ids' = IF on_game_exit = "none" THEN mt_ids ELSE mt_ids \ {"frontend"}
                 /\ UNCHANGED <<on_game_exit, init_cancel>>
        <3>1. PICK r \in Range(states) :
                /\ Named(r, "frontend", "frontend")
                /\ \/ ExitGame("quit")
                   \/ /\ states' = IF on_game_exit = "none" THEN Append(rest, again) ELSE rest
                      /\ mt_ids' = IF on_game_exit = "none" THEN mt_ids
                                   ELSE mt_ids \ {"frontend"}
                      /\ UNCHANGED <<on_game_exit, init_cancel>>
            BY <2>2 DEF Responses, Named
        <3>2. "frontend" \in mt_ids
            BY <3>1, <1>0 DEF Ids, Named
        <3>3. CASE ExitGame("quit")
            <4>1. Table(states') /\ Range(states') = {reset}
                BY <3>3, <1>0, <1>1, Exited DEF ExitGame
            <4> QED BY <4>1, <3>3 DEF ExitGame
        <3>4. CASE ~ExitGame("quit")
            <4> HIDE DEF rest, again, others
            <4> QED BY <3>1, <3>2, <3>4, <1>5, <1>6
        <3> QED BY <3>3, <3>4
    <2> QED BY <2>1, <2>2 DEF PollFrontendRequests
<1> HIDE DEF again, reset, rest
<1>9. \A r \in Range(states') : r = again \/ r = reset \/ r \in Range(states)
    BY <1>8
<1>10. \A r \in Range(states') : r.who = "frontend" /\ r.op \in {"reset", "frontend"}
    BY <1>3, <1>4, <1>9
<1>11. Kept
    <2>1. Undisturbed
        BY <1>7, <1>10 DEF Undisturbed, InitsLater
    <2> QED BY <2>1, StageKept
<1>12. Stage'
    BY <1>11, StageStays
<1>13. Ids'
    BY <1>0, <1>1, <1>2, <1>3, <1>4, <1>7, <1>8, <1>10 DEF Ids, Named
<1>14. \A r \in Range(states') :
            r.op = "reset" =>
                \/ on_game_exit' = "quit"
                \/ r \in Range(states) /\ on_game_exit' = on_game_exit
    BY <1>4, <1>8
<1>15. Loop'
    BY <1>0, <1>1, <1>3, <1>7, <1>10, <1>14 DEF Loop, NoMain, Named
<1>16. Batch'
    BY <1>0, <1>3, <1>4, <1>7, <1>9, <1>10 DEF Batch
<1>17. Running \/ Fresh
    BY <1>0, <1>1 DEF Ends, Leaving, Alive
<1>18. Ends'
    BY <1>0, <1>1, <1>7, <1>10, <1>11 DEF Ends, Leaving, Alive, Kept, NoMain, Named
<1>19. Answers'
    BY <1>7, <1>10, <1>11, <1>17 DEF Answers, Kept
<1>20. NoStaleCancel' /\ CrashIsLoss'
    <2>1. ASSUME NEW r \in Range(states), r.op = "reset"
          PROVE  r \in Range(states') \/ reset \in Range(states')
        BY <2>1, <1>8 DEF Named
    <2>2. init_cancel' => init_cancel \/ reset \in Range(states')
        BY <1>8
    <2> QED BY <2>1, <2>2, <1>1, <1>4 DEF IInv, NoStaleCancel, CrashIsLoss
<1>21. FrontendIsCurrent'
    <2>1. ASSUME NEW r \in Range(states), r.op = "reset"
          PROVE  r \in Range(states') \/ reset \in Range(states')
        BY <2>1, <1>8 DEF Named
    <2>2. ShownIsRunning'
        BY <2>1, <1>1, <1>4, <1>7
        DEF IInv, FrontendIsCurrent, ShownIsRunning, Shows, ResetAsked, Alive
    <2>3. RequestsOfThisGame'
        BY <1>4, <1>7, <1>9 DEF IInv, FrontendIsCurrent, RequestsOfThisGame
    <2> QED BY <2>2, <2>3 DEF FrontendIsCurrent
<1>22. TypeOK'
    <2>1. states' \in Seq(Requests) /\ Len(states') <= 3
        BY <1>8, <1>13, AtMostThree DEF Ids
    <2>2. /\ mt_ids' \in SUBSET Ops /\ init_cancel' \in BOOLEAN
          /\ on_game_exit' \in {"none", "cancel", "quit"}
        BY <1>8 DEF IInv, TypeOK, Ops
    <2> QED BY <2>1, <2>2, <1>1, <1>7 DEF IInv, TypeOK
<1> QED BY <1>8, <1>12, <1>13, <1>15, <1>16, <1>18, <1>19, <1>20, <1>21, <1>22 DEF IInv

-----------------------------------------------------------------------------
(* The user, and the main loop's own reset *)

\* The main loop's reset joins what the frontend waits for.
LEMMA AwaitResetStep == IInv /\ AwaitReset => IInv'
<1> SUFFICES ASSUME IInv, AwaitReset PROVE IInv'
    OBVIOUS
<1> USE DEF requestVars, frontendVars, backendVars, historyVars
<1> DEFINE asked == Request("reset", "main")
<1>0. Table(states) /\ Ids /\ Loop /\ Batch /\ Ends /\ Answers
    BY DEF IInv
<1>1. main = "end" /\ main' = "await" /\ reset_needed /\ ~reset_needed' /\ NoMain(Range(states))
    BY <1>0 DEF AwaitReset, Loop, NoMain
<1>2. /\ asked \in Requests /\ asked.op = "reset" /\ asked.who = "main"
      /\ asked.phase = "new" /\ asked.result = "NONE" /\ asked.items = {}
    BY NewRequest DEF Ops
<1>3. Table(states') /\ Range(states') = Range(states) \cup {asked}
    BY <1>0, <1>1, <1>2, TableAppend DEF AwaitReset, NoneNamed, NoMain, Named
<1> HIDE DEF asked
<1>4. /\ init_cancel' = TRUE
      /\ UNCHANGED <<closures, ui, mt_ids, shown, on_game_exit, game, game_state, init_error,
                     has_state, has_managers, has_map, map_data, connection,
                     frontend_requests, historyVars>>
    BY DEF AwaitReset
<1>5. Kept
    <2>1. Undisturbed
        BY <1>2, <1>3, <1>4 DEF Undisturbed, InitsLater
    <2> QED BY <2>1, StageKept
<1>6. Stage'
    BY <1>5, StageStays
<1>7. InitDone /\ (Fresh \/ (Running /\ shown))
    BY <1>0, <1>1 DEF Ends, Leaving, Alive
<1>8. Ids' /\ Loop' /\ Batch'
    BY <1>0, <1>1, <1>2, <1>3, <1>4 DEF Ids, Loop, NoMain, Named, Batch
<1>9. Ends'
    BY <1>0, <1>1, <1>2, <1>3, <1>4, <1>5, <1>7 DEF Ends, Kept, NoMain, Named
<1>10. Answers'
    BY <1>0, <1>2, <1>3, <1>4, <1>5, <1>7 DEF Answers, Kept
<1>11. NoStaleCancel' /\ CrashIsLoss'
    BY <1>1, <1>2, <1>3 DEF NoStaleCancel, CrashIsLoss
<1>12. FrontendIsCurrent'
    BY <1>2, <1>3, <1>4
    DEF IInv, FrontendIsCurrent, ShownIsRunning, ResetAsked, RequestsOfThisGame
<1>13. TypeOK'
    <2>1. states' \in Seq(Requests) /\ Len(states') <= 3
        BY <1>3, <1>8, AtMostThree DEF Ids
    <2>2. reset_needed' \in BOOLEAN /\ init_cancel' \in BOOLEAN
        BY <1>4 DEF AwaitReset
    <2> QED BY <2>1, <2>2, <1>1, <1>4 DEF IInv, TypeOK
<1> QED BY <1>3, <1>6, <1>8, <1>9, <1>10, <1>11, <1>12, <1>13 DEF IInv

\* The main loop's reset is done: a frontend that was shown waits for nothing more.
LEMMA ReturnToMenuStep == IInv /\ ReturnToMenu => IInv'
<1> SUFFICES ASSUME IInv, ReturnToMenu PROVE IInv'
    OBVIOUS
<1> USE DEF requestVars, frontendVars, backendVars, historyVars
<1> DEFINE rest == Without(states, "reset", "main")
<1>0. Table(states) /\ Ids /\ Loop /\ Batch /\ Ends /\ Answers
    BY DEF IInv
<1>1. PICK m \in Range(states) : Named(m, "reset", "main") /\ m.phase = "executed"
    BY DEF ReturnToMenu, Responses, Named
<1>2. \A r \in Range(states) : r.phase = "executed"
    BY <1>0, <1>1 DEF Batch, Named
<1>3. main = "await" /\ ~shown' /\ ui' = "menu" /\ ~init_cancel
    BY <1>2 DEF IInv, ReturnToMenu, NoStaleCancel
<1>4. Fresh /\ InitDone
    BY <1>0, <1>1, <1>3 DEF Ends, Leaving, Alive, NoMain, Named, Running
<1>5. main' = "ui"
    BY <1>4 DEF ReturnToMenu, Fresh
<1>6. Table(rest) /\ Range(rest) = {r \in Range(states) : ~Named(r, "reset", "main")}
    BY <1>0, TableWithout
<1>7. \/ Table(states') /\ Range(states') = {} /\ mt_ids' = {}
      \/ Table(states') /\ Range(states') = Range(rest) /\ mt_ids' = mt_ids /\ ~shown
    <2>1. CASE shown
        <3>1. /\ Table(CancelRequests(rest))
              /\ Range(CancelRequests(rest)) = {r \in Range(rest) : r.who # "frontend"}
            BY <1>6, TableCanceled
        <3>2. \A r \in Range(rest) : r.who = "frontend"
            BY <1>0, <1>6, ByName DEF Named, Requests
        <3>3. Range(CancelRequests(rest)) = {}
            BY <3>1, <3>2
        <3> QED BY <2>1, <3>1, <3>3 DEF ReturnToMenu
    <2>2. CASE ~shown
        BY <2>2, <1>6 DEF ReturnToMenu
    <2> QED BY <2>1, <2>2
<1>8. \A r \in Range(states') : r \in Range(states) /\ r.who # "main"
    BY <1>0, <1>6, <1>7, ByName DEF Named
<1>9. UNCHANGED <<closures, reset_needed, on_game_exit, game, backendVars, historyVars>>
    BY DEF ReturnToMenu
<1>10. Kept
    <2>1. Undisturbed
        BY <1>8, <1>9 DEF Undisturbed, InitsLater
    <2> QED BY <2>1, StageKept
<1>11. Stage'
    BY <1>10, StageStays
<1>12. Ids'
    BY <1>0, <1>3, <1>7, <1>8 DEF Ids
<1>13. Loop'
    BY <1>0, <1>3, <1>5, <1>8, <1>9 DEF Loop, NoMain
<1>14. Batch'
    BY <1>0, <1>2, <1>8, <1>9 DEF Batch
<1>15. Ends'
    BY <1>0, <1>4, <1>8, <1>9, <1>10 DEF Ends, Kept, Named
<1>16. Answers'
    BY <1>0, <1>4, <1>8, <1>9, <1>10 DEF Answers, Kept, Fresh, Running
<1>17. NoStaleCancel' /\ CrashIsLoss'
    BY <1>3, <1>5, <1>9 DEF NoStaleCancel, CrashIsLoss
<1>18. FrontendIsCurrent'
    <2>1. ~Shows'
        BY <1>0, <1>3, <1>4, <1>8 DEF Shows, Answers, Fresh, Running
    <2>2. RequestsOfThisGame'
        BY <1>8, <1>9 DEF IInv, FrontendIsCurrent, RequestsOfThisGame
    <2> QED BY <2>1, <2>2 DEF FrontendIsCurrent, ShownIsRunning
<1>19. TypeOK'
    <2>1. states' \in Seq(Requests) /\ Len(states') <= 3
        BY <1>7, <1>12, AtMostThree DEF Ids
    <2>2. mt_ids' \in SUBSET Ops /\ shown' \in BOOLEAN
        BY <1>7 DEF IInv, TypeOK, ReturnToMenu
    <2> QED BY <2>1, <2>2, <1>3, <1>5, <1>9 DEF IInv, TypeOK
<1> QED BY <1>7, <1>11, <1>12, <1>13, <1>14, <1>15, <1>16, <1>17, <1>18, <1>19 DEF IInv

\* A game is started from the menu: the one before is gone.
LEMMA StartGameStep ==
    ASSUME IInv, NEW r \in Roles, StartGame(r)
    PROVE  IInv'
<1> USE DEF requestVars, frontendVars, backendVars, historyVars
<1> DEFINE asked == Request("init", "frontend")
<1>0. Table(states) /\ Ids /\ Loop /\ Batch /\ Ends
    BY DEF IInv
<1>1. /\ main = "ui" /\ ui = "menu" /\ mt_ids = {} /\ number < MaxGames
      /\ ~shown /\ ~reset_needed /\ NoMain(Range(states))
    BY <1>0 DEF StartGame, Loop, NoMain, IInv, TypeOK
<1>2. Range(states) = {}
    BY <1>0, <1>1, ByName DEF Ids, NoMain, Requests
<1>3. Fresh /\ ~init_cancel
    <2>1. Fresh
        BY <1>0, <1>1 DEF Ends, Leaving, Alive
    <2> QED BY <2>1, <1>2 DEF IInv, NoStaleCancel
<1>4. /\ asked \in Requests /\ asked.op = "init" /\ asked.who = "frontend"
      /\ asked.phase = "new" /\ asked.result = "NONE" /\ asked.items = {}
    BY NewRequest DEF Ops
<1>5. Table(states') /\ Range(states') = {asked}
    BY <1>0, <1>2, <1>4, TableAppend DEF StartGame, NoneNamed, NoMain
<1> HIDE DEF asked
<1>6. /\ main' = "init" /\ ui' = "game" /\ mt_ids' = {"init"} /\ shown' = FALSE
      /\ on_game_exit' = "none" /\ number' = number + 1
      /\ role' = r /\ lost' = FALSE /\ unloadable' = FALSE /\ has_state' = TRUE
      /\ connection' = IF r = "client" THEN "up" ELSE "none"
      /\ UNCHANGED <<closures, reset_needed, game, game_state, init_cancel, init_error,
                     has_managers, has_map, map_data, frontend_requests>>
    BY DEF StartGame
<1>7. Fresh' /\ Stage'
    <2>1. Connected' /\ NotBusy'
        BY <1>3, <1>6 DEF Connected, NotBusy, Fresh
    <2>2. Fresh'
        BY <2>1, <1>3, <1>4, <1>5, <1>6 DEF Fresh
    <2> QED BY <2>2 DEF Stage
<1>8. Ids' /\ Loop' /\ Batch'
    BY <1>1, <1>3, <1>4, <1>5, <1>6 DEF Ids, Loop, NoMain, Named, Batch, Fresh, NotBusy
<1>9. Ends'
    BY <1>1, <1>4, <1>5, <1>6, <1>7 DEF Ends, Leaving, NoMain, Named
<1>10. Answers' /\ NoStaleCancel' /\ CrashIsLoss'
    BY <1>3, <1>4, <1>5, <1>6 DEF Answers, NoStaleCancel, CrashIsLoss
<1>11. FrontendIsCurrent'
    BY <1>3, <1>4, <1>5, <1>6
    DEF FrontendIsCurrent, ShownIsRunning, Shows, RequestsOfThisGame, Fresh
<1>12. TypeOK'
    <2>1. states' \in Seq(Requests) /\ Len(states') <= 3
        BY <1>5, <1>8, AtMostThree DEF Ids
    <2>2. number' \in 0..MaxGames /\ role' \in {"master", "client"}
        BY <1>1, <1>6, RolesAssumption, MaxGamesAssumption DEF IInv, TypeOK
    <2> QED BY <2>1, <2>2, <1>6 DEF IInv, TypeOK, Ops
<1> QED BY <1>5, <1>7, <1>8, <1>9, <1>10, <1>11, <1>12 DEF IInv

\* The user leaves a game that runs, or one that failed.
LEMMA ClickResetStep == IInv /\ ClickReset => IInv'
<1> SUFFICES ASSUME IInv, ClickReset PROVE IInv'
    OBVIOUS
<1> USE DEF requestVars, frontendVars, backendVars, historyVars
<1>0. Table(states) /\ Ids /\ Loop /\ Batch /\ Ends /\ Answers
    BY DEF IInv
<1>1. /\ main = "ui" /\ main' = "init" /\ ui' = "game" /\ reset_needed' /\ Leaving /\ Alive
      /\ reset_needed' \in BOOLEAN
      /\ UNCHANGED <<requestVars, mt_ids, shown, on_game_exit, game, backendVars, historyVars>>
    BY DEF ClickReset, Leaving, Alive
<1>2. Kept
    <2>1. Undisturbed
        BY <1>1 DEF Undisturbed, InitsLater
    <2> QED BY <2>1, StageKept
<1>3. Stage'
    BY <1>2, StageStays
<1>4. Table(states)' /\ Ids' /\ Loop' /\ Batch'
    BY <1>0, <1>1 DEF Ids, Loop, NoMain, Batch
<1>5. Ends' /\ Answers'
    BY <1>0, <1>1, <1>2 DEF Ends, Answers, Kept, Named
<1>6. NoStaleCancel' /\ CrashIsLoss'
    BY <1>1 DEF IInv, NoStaleCancel, CrashIsLoss
<1>7. FrontendIsCurrent'
    BY <1>1 DEF IInv, FrontendIsCurrent, ShownIsRunning, ResetAsked, RequestsOfThisGame
<1>8. TypeOK'
    BY <1>1 DEF IInv, TypeOK
<1> QED BY <1>3, <1>4, <1>5, <1>6, <1>7, <1>8 DEF IInv

-----------------------------------------------------------------------------
(* MAIN runs a closure *)

\* Nobody is on the way back to the menu then.
LEMMA WhileClosures ==
    ASSUME IInv, main = "closures"
    PROVE  /\ closures # <<>> /\ Alive /\ ~Leaving /\ ~shown /\ ~Fresh /\ ~Running
           /\ \A r \in Range(states) : r.op = "map" => r.result # "SUCCESS"
<1>1. closures # <<>> /\ Alive
    BY DEF IInv, Loop, Alive
<1>2. ~Fresh /\ ~Running
    BY <1>1 DEF Fresh, Running
<1>3. ~Leaving
    BY <1>1, <1>2 DEF IInv, Ends
<1> QED BY <1>1, <1>2, <1>3 DEF Leaving, IInv, Answers

\* The queue gets shorter, down to the user's turn.
LEMMA QueueShorter ==
    ASSUME IInv, NEW name, Closure(name)
    PROVE  /\ main' \in {"ui", "closures"} /\ (main' = "closures" => closures' # <<>>)
           /\ \/ /\ closures = ToConfigure /\ name = "configure" /\ closures' = <<>>
              \/ /\ closures = ToUnpack /\ name = "unpack" /\ closures' = <<>>
              \/ /\ closures = ToCreate /\ name = "create" /\ closures' = <<>>
              \/ /\ closures = ToConfigureAndUnpack /\ name = "configure"
                 /\ closures' = ToUnpack
              \/ /\ closures = ToConfigureAndCreate /\ name = "configure"
                 /\ closures' = ToCreate
<1>1. closures \in {ToConfigure, ToUnpack, ToCreate, ToConfigureAndUnpack, ToConfigureAndCreate}
    BY WhileClosures
    DEF IInv, Closure, Stage, Fresh, Begun, Loading, NotLoaded, Initializing, Creating, Running,
        Broken
<1> QED BY <1>1, Queues, QueuesDiffer DEF Closure

\* What is the same of all closures: nobody is leaving, and nothing is shown.
LEMMA ClosureStep ==
    ASSUME IInv, NEW name, Closure(name), UNCHANGED <<states, frontendVars, game, init_error,
           init_cancel, historyVars>>,
           Stage', Begun => Begun', TypeOK', RequestsOfThisGame',
           lost => connection' = "none", role = "master" => connection' = "none"
    PROVE  IInv'
<1> USE DEF frontendVars, historyVars
<1>1. main = "closures" /\ ~Leaving /\ ~shown /\ ~Fresh /\ ~Running /\ Alive
    BY WhileClosures DEF Closure
<1>2. main' \in {"ui", "closures"} /\ (main' = "closures" => closures' # <<>>)
    BY QueueShorter
<1>3. Table(states)' /\ Ids' /\ Loop' /\ Batch'
    BY <1>1, <1>2 DEF IInv, Ids, Loop, NoMain, Batch, Leaving
<1>4. Ends'
    BY <1>1 DEF IInv, Ends, Leaving, NoMain, Named
<1>5. Answers'
    BY <1>1 DEF IInv, Answers, InitDone
<1>6. ShownIsRunning'
    <2>1. ~Shows'
        BY <1>1, WhileClosures DEF Shows
    <2> QED BY <2>1 DEF ShownIsRunning
<1>7. NoStaleCancel' /\ CrashIsLoss' /\ FrontendIsCurrent'
    BY <1>2, <1>6 DEF IInv, NoStaleCancel, CrashIsLoss, FrontendIsCurrent
<1> QED BY <1>3, <1>4, <1>5, <1>7 DEF IInv

\* The managers are made, at whatever stage the game is by now.
LEMMA ConfigureStep == IInv /\ Configure => IInv'
<1> SUFFICES ASSUME IInv, Configure PROVE IInv'
    OBVIOUS
<1>1. /\ Closure("configure") /\ has_managers' = TRUE
      /\ frontend_requests' = frontend_requests \cup {<<"define", number>>}
      /\ UNCHANGED <<states, frontendVars, game, game_state, init_cancel, init_error, has_state,
                     has_map, map_data, connection, historyVars>>
    BY DEF Configure
<1>2. \/ closures = ToConfigure /\ closures' = <<>>
      \/ closures = ToConfigureAndUnpack /\ closures' = ToUnpack
      \/ closures = ToConfigureAndCreate /\ closures' = ToCreate
    BY <1>1, QueueShorter
<1>3. /\ InitTaken => InitTaken'
      /\ InitDone => InitDone'
      /\ NotBusy => NotBusy'
      /\ Connected => Connected'
    BY <1>1 DEF InitTaken, InitDone, NotBusy, Connected, historyVars
<1>4. Begun => Begun'
    BY <1>1, <1>2, <1>3, QueuesDiffer DEF Begun
<1>5. Loading => Loading'
    BY <1>1, <1>2, <1>3, QueuesDiffer DEF Loading, historyVars
<1>6. NotLoaded => NotLoaded'
    BY <1>1, <1>2, <1>3, QueuesDiffer DEF NotLoaded, historyVars
<1>7. Initializing => Initializing'
    BY <1>1, <1>2, <1>3, QueuesDiffer DEF Initializing, historyVars
<1>8. Creating => Creating'
    BY <1>1, <1>2, <1>3, QueuesDiffer DEF Creating, historyVars
<1>9. Broken => Broken'
    BY <1>1, <1>2, <1>3, QueuesDiffer DEF Broken, historyVars, NotBusy
<1>10. Stage' /\ Stage
    BY <1>1, <1>4, <1>5, <1>6, <1>7, <1>8, <1>9, WhileClosures DEF IInv, Stage, Closure
<1>11. TypeOK'
    <2>1. closures' \in Seq({"configure", "unpack", "create"})
        BY <1>2, QueuesType
    <2>2. frontend_requests' \in SUBSET FrontendRequests
        BY <1>1 DEF IInv, TypeOK, FrontendRequests
    <2>3. main' \in {"ui", "closures"}
        BY <1>1, QueueShorter
    <2> QED BY <1>1, <2>1, <2>2, <2>3 DEF IInv, TypeOK, frontendVars, historyVars
<1>12. RequestsOfThisGame'
    BY <1>1 DEF IInv, FrontendIsCurrent, RequestsOfThisGame, historyVars
<1> QED BY <1>1, <1>4, <1>10, <1>11, <1>12, ClosureStep DEF IInv, Ends

\* A client has its map.
LEMMA UnpackStep == IInv /\ Unpack => IInv'
<1> SUFFICES ASSUME IInv, Unpack PROVE IInv'
    OBVIOUS
<1>1. /\ Closure("unpack") /\ has_managers /\ has_map' = TRUE /\ game_state' = "INITIALIZING"
      /\ UNCHANGED <<states, frontendVars, game, init_cancel, init_error, has_state,
                     has_managers, map_data, connection, frontend_requests, historyVars>>
    BY DEF Unpack
<1>2. closures = ToUnpack /\ closures' = <<>> /\ main' \in {"ui", "closures"}
    BY <1>1, QueueShorter
<1>3. (Loading \/ Broken) /\ ~Begun
    BY <1>2, QueuesDiffer
    DEF IInv, Stage, Fresh, Begun, Loading, NotLoaded, Initializing, Creating, Running, Broken
<1>4. has_state /\ NotBusy /\ InitDone
    BY <1>2, <1>3, QueuesDiffer DEF Loading, Broken
<1>5. Initializing' /\ Stage'
    <2>1. Initializing'
        BY <1>1, <1>2, <1>4 DEF Initializing, InitTaken, InitDone, NotBusy
    <2> QED BY <2>1 DEF Stage
<1>6. TypeOK'
    BY <1>1, <1>2, <1>5, QueuesType DEF IInv, TypeOK, frontendVars, historyVars
<1>7. RequestsOfThisGame'
    BY <1>1 DEF IInv, FrontendIsCurrent, RequestsOfThisGame, historyVars
<1> QED BY <1>1, <1>3, <1>5, <1>6, <1>7, ClosureStep DEF IInv, Ends

\* A client gives up its connection, which it has.
LEMMA SnapshotMismatchStep == IInv /\ SnapshotMismatch => IInv'
<1> SUFFICES ASSUME IInv, SnapshotMismatch PROVE IInv'
    OBVIOUS
<1>1. /\ Closure("unpack") /\ has_managers /\ connection = "up"
      /\ has_map' = TRUE /\ connection' = "closing"
      /\ UNCHANGED <<states, frontendVars, game, game_state, init_cancel, init_error, has_state,
                     has_managers, map_data, frontend_requests, historyVars>>
    BY DEF SnapshotMismatch
<1>2. closures = ToUnpack /\ closures' = <<>> /\ main' \in {"ui", "closures"}
    BY <1>1, QueueShorter
<1>3. ~lost /\ role # "master"
    BY <1>1 DEF IInv, Ends
<1>4. Loading /\ ~Begun
    BY <1>2, <1>3, QueuesDiffer
    DEF IInv, Stage, Fresh, Begun, Loading, NotLoaded, Initializing, Creating, Running, Broken
<1>5. Loading' /\ Stage'
    <2>1. Loading'
        BY <1>1, <1>2, <1>4 DEF Loading, InitTaken, NotBusy, historyVars
    <2> QED BY <2>1 DEF Stage
<1>6. TypeOK'
    BY <1>1, <1>2, QueuesType DEF IInv, TypeOK, frontendVars, historyVars
<1>7. RequestsOfThisGame'
    BY <1>1 DEF IInv, FrontendIsCurrent, RequestsOfThisGame, historyVars
<1> QED BY <1>1, <1>3, <1>4, <1>5, <1>6, <1>7, ClosureStep

\* The game runs.
LEMMA CreateStep == IInv /\ Create => IInv'
<1> SUFFICES ASSUME IInv, Create PROVE IInv'
    OBVIOUS
<1>1. /\ Closure("create") /\ has_managers /\ has_state /\ game_state' = "RUNNING"
      /\ UNCHANGED <<states, frontendVars, game, init_cancel, init_error, has_state,
                     has_managers, has_map, map_data, connection, frontend_requests, historyVars>>
    BY DEF Create
<1>2. closures = ToCreate /\ closures' = <<>> /\ main' \in {"ui", "closures"}
    BY <1>1, QueueShorter
<1>3. Creating /\ ~Begun
    BY <1>1, <1>2, QueuesDiffer
    DEF IInv, Stage, Fresh, Begun, Loading, NotLoaded, Initializing, Creating, Running, Broken
<1>4. Running' /\ Stage'
    <2>1. Running'
        BY <1>1, <1>2, <1>3 DEF Creating, Running, InitDone, NotBusy
    <2> QED BY <2>1 DEF Stage
<1>5. TypeOK'
    BY <1>1, <1>2, QueuesType DEF IInv, TypeOK, frontendVars, historyVars
<1>6. RequestsOfThisGame'
    BY <1>1 DEF IInv, FrontendIsCurrent, RequestsOfThisGame, historyVars
<1> QED BY <1>1, <1>3, <1>4, <1>5, <1>6, ClosureStep DEF IInv, Ends

\* The game is at its beginning again, and the user sees the error.
LEMMA CreateFailsStep == IInv /\ CreateFails => IInv'
<1> SUFFICES ASSUME IInv, CreateFails PROVE IInv'
    OBVIOUS
<1> USE DEF historyVars
<1>1. /\ Closure("create") /\ has_map /\ has_state
      /\ game_state' = "NONE" /\ init_cancel' = FALSE
      /\ has_managers' = FALSE /\ has_map' = FALSE /\ frontend_requests' = {}
      /\ connection' = "none" /\ has_state' = FALSE /\ init_error' = TRUE /\ ui' = "popup"
      /\ UNCHANGED <<states, reset_needed, mt_ids, shown, on_game_exit, game, map_data,
                     historyVars>>
    BY DEF CreateFails, InitFailed, ResetGame
<1>2. closures = ToCreate /\ closures' = <<>> /\ main' \in {"ui", "closures"}
    BY <1>1, QueueShorter
<1>3. Creating
    BY <1>1, <1>2, QueuesDiffer
    DEF IInv, Stage, Fresh, Begun, Loading, NotLoaded, Initializing, Creating, Running, Broken
<1>4. InitDone' /\ Fresh' /\ Stage'
    <2>1. InitDone' /\ NotBusy'
        BY <1>1, <1>3 DEF Creating, InitDone, NotBusy
    <2>2. Fresh'
        BY <2>1, <1>1, <1>2 DEF Fresh, InitDone
    <2> QED BY <2>1, <2>2 DEF Stage
<1>5. main = "closures" /\ ~shown /\ ~Leaving
    BY <1>1, WhileClosures DEF Closure
<1>6. main' = "ui"
    BY <1>1, <1>2, QueueShorter
<1>7. Table(states)' /\ Ids' /\ Loop' /\ Batch'
    BY <1>1, <1>5, <1>6 DEF IInv, Ids, Loop, NoMain, Batch, Leaving
<1>8. Ends'
    BY <1>1, <1>4, <1>5 DEF IInv, Ends, Leaving, NoMain, Named
<1>9. ~Shows'
    BY <1>1, <1>5, WhileClosures DEF Shows
<1>10. Answers'
    BY <1>1, <1>4, <1>9 DEF Answers, Shows
<1>11. FrontendIsCurrent'
    BY <1>1, <1>9 DEF IInv, FrontendIsCurrent, ShownIsRunning, RequestsOfThisGame
<1>12. NoStaleCancel' /\ CrashIsLoss'
    BY <1>1, <1>6 DEF NoStaleCancel, CrashIsLoss
<1>13. TypeOK'
    BY <1>1, <1>2, QueuesType DEF IInv, TypeOK
<1> QED BY <1>4, <1>7, <1>8, <1>10, <1>11, <1>12, <1>13 DEF IInv

\* A closure finds what it was queued for, unless the connection was lost.
LEMMA ClosureCrashesStep == IInv /\ ClosureCrashes => IInv'
<1> SUFFICES ASSUME IInv, ClosureCrashes PROVE IInv'
    OBVIOUS
<1>1. main = "closures" /\ Alive /\ closures # <<>> /\ Crash
    BY WhileClosures DEF ClosureCrashes
<1>2. Stage /\ ~Fresh /\ ~Running
    BY <1>1, WhileClosures DEF IInv
<1>3. CASE Head(closures) = "configure" /\ has_managers
    BY <1>1, <1>2, <1>3, Queues, QueuesDiffer
    DEF Stage, Begun, Loading, NotLoaded, Initializing, Creating, Broken
<1>4. CASE Head(closures) = "unpack" /\ (~has_managers \/ connection # "up")
    <2>1. closures = ToUnpack
        BY <1>1, <1>2, <1>4, Queues, QueuesDiffer
        DEF Stage, Begun, Loading, NotLoaded, Initializing, Creating, Broken
    <2>2. Loading \/ lost
        BY <1>2, <2>1, QueuesDiffer
        DEF Stage, Begun, Loading, NotLoaded, Initializing, Creating, Broken
    <2>3. lost
        BY <1>4, <2>1, <2>2, QueuesDiffer DEF Loading, Connected
    <2> QED BY <1>1, <2>3, CrashStep
<1>5. CASE Head(closures) = "create" /\ (~has_managers \/ ~has_map \/ ~has_state)
    <2>1. closures = ToCreate
        BY <1>1, <1>2, <1>5, Queues, QueuesDiffer
        DEF Stage, Begun, Loading, NotLoaded, Initializing, Creating, Broken
    <2>2. Creating \/ lost
        BY <1>2, <2>1, QueuesDiffer
        DEF Stage, Begun, Loading, NotLoaded, Initializing, Creating, Broken
    <2>3. lost
        BY <1>5, <2>1, <2>2, QueuesDiffer DEF Creating
    <2> QED BY <1>1, <2>3, CrashStep
<1> QED BY <1>3, <1>4, <1>5 DEF ClosureCrashes

\* Whatever closure MAIN runs,
LEMMA RunClosureStep == IInv /\ RunClosure => IInv'
    BY ConfigureStep, UnpackStep, SnapshotMismatchStep, CreateStep, CreateFailsStep,
       ClosureCrashesStep DEF RunClosure

\* and whatever else MAIN does, the invariant is kept.
LEMMA MainStep == IInv /\ Main => IInv'
    BY RunClosureStep, StartGameStep, ClickResetStep, NoClickStep, PollInitStep, NothingYetStep,
       PollMapDataStep, PollResetStep, PollFrontendRequestsStep, NothingToShowStep,
       NextFrameStep, AwaitResetStep, ReturnToMenuStep DEF Main

-----------------------------------------------------------------------------
(* GAME takes requests, and gives the responses *)

\* What is the same of both: requests keep everything but their phase.
LEMMA MovedStep ==
    ASSUME IInv, NEW from, NEW to,
           \/ from = "new" /\ to = "processing"
           \/ from = "answered" /\ to = "executed",
           Table(states'), Moved(Range(states), Range(states'), from, to),
           NotBusy, NotBusy', game' \in {"processing", "connection"}, Batch',
           UNCHANGED <<closures, main, frontendVars, backendVars, historyVars>>
    PROVE  IInv'
<1> USE DEF frontendVars, backendVars, historyVars
<1>1. \A q \in Range(states') : \E r \in Range(states) :
        /\ q.op = r.op /\ q.who = r.who /\ q.result = r.result /\ q.items = r.items
        /\ q.phase = IF r.phase = from THEN to ELSE r.phase
    BY DEF Moved, After, InPhase
<1>2. \A r \in Range(states) : \E q \in Range(states') :
        /\ q.op = r.op /\ q.who = r.who
        /\ q.phase = IF r.phase = from THEN to ELSE r.phase
    BY DEF Moved, After, InPhase
<1>3. Kept
    <2>1. InitsLater
        BY <1>1 DEF InitsLater
    <2>2. Undisturbed
        BY <2>1 DEF Undisturbed
    <2> QED BY <2>2, StageKept
<1>4. Stage'
    BY <1>3, StageStays
<1>5. NoMain(Range(states)) => NoMain(Range(states'))
    BY <1>1 DEF NoMain
<1>6. Ids'
    BY <1>1 DEF IInv, Ids
<1>7. Loop'
    BY <1>1, <1>5 DEF IInv, Loop, Named
<1>8. Leaving' => Leaving
    BY <1>5 DEF Leaving
<1>9. Ends'
    BY <1>1, <1>3, <1>8 DEF IInv, Ends, Alive, Kept, Named
<1>10. Answers'
    BY <1>1, <1>3 DEF IInv, Answers, Kept
<1>11. NoStaleCancel' /\ CrashIsLoss'
    BY <1>2 DEF IInv, NoStaleCancel, CrashIsLoss
<1>12. FrontendIsCurrent'
    <2>1. ResetAsked => ResetAsked'
        BY <1>2 DEF ResetAsked
    <2>2. Shows' => Shows
        BY <1>1 DEF Shows
    <2>3. ShownIsRunning'
        BY <2>1, <2>2 DEF IInv, FrontendIsCurrent, ShownIsRunning, Alive
    <2>4. RequestsOfThisGame'
        BY <1>1 DEF IInv, FrontendIsCurrent, RequestsOfThisGame
    <2> QED BY <2>3, <2>4 DEF FrontendIsCurrent
<1>13. TypeOK'
    <2>1. states' \in Seq(Requests) /\ Len(states') <= 3
        BY <1>6, AtMostThree DEF Ids
    <2> QED BY <2>1 DEF IInv, TypeOK
<1> QED BY <1>4, <1>6, <1>7, <1>9, <1>10, <1>11, <1>12, <1>13 DEF IInv

\* Whatever is new is processed, the main loop's reset with it.
LEMMA TakeRequestsStep == IInv /\ TakeRequests => IInv'
<1> SUFFICES ASSUME IInv, TakeRequests PROVE IInv'
    OBVIOUS
<1>1. Table(states') /\ Moved(Range(states), Range(states'), "new", "processing")
    BY TableMoved DEF IInv, TakeRequests, Phases
<1>2. \A q \in Range(states') : \E r \in Range(states) :
        q.who = r.who /\ q.phase = IF r.phase = "new" THEN "processing" ELSE r.phase
    BY <1>1 DEF Moved, After, InPhase
<1>3. /\ game = "requests" /\ game' = "processing"
      /\ UNCHANGED <<closures, main, frontendVars, backendVars, historyVars>>
    BY DEF TakeRequests
<1>4. \A r \in Range(states) : r.phase \in {"new", "executed"}
    BY <1>3 DEF IInv, Batch
<1>5. \A q \in Range(states') : q.phase \in {"processing", "executed"}
    BY <1>2, <1>4
<1>6. \A m \in Range(states') : m.who = "main" /\ m.phase = "executed" =>
        \A q \in Range(states') : q.phase = "executed"
    BY <1>2, <1>4 DEF IInv, Batch
<1>7. Batch'
    BY <1>3, <1>5, <1>6 DEF Batch
<1> QED BY <1>1, <1>3, <1>7, MovedStep DEF NotBusy

\* Nothing is left to process: all responses can be read.
LEMMA SetResponsesStep == IInv /\ SetResponses => IInv'
<1> SUFFICES ASSUME IInv, SetResponses PROVE IInv'
    OBVIOUS
<1>1. Table(states') /\ Moved(Range(states), Range(states'), "answered", "executed")
    BY TableMoved DEF IInv, SetResponses, Phases
<1>2. \A q \in Range(states') : \E r \in Range(states) :
        q.who = r.who /\ q.phase = IF r.phase = "answered" THEN "executed" ELSE r.phase
    BY <1>1 DEF Moved, After, InPhase
<1>3. /\ game = "processing" /\ game' = "connection"
      /\ \A r \in Range(states) : r.phase # "processing"
      /\ UNCHANGED <<closures, main, frontendVars, backendVars, historyVars>>
    BY DEF SetResponses
<1>4. \A r \in Range(states) : r.phase \in {"new", "answered", "executed"}
    BY <1>3, ByName DEF IInv, Requests, Phases
<1>5. \A q \in Range(states') : q.phase \in {"new", "executed"}
    BY <1>2, <1>4
<1>6. \A m \in Range(states') : m.who = "main" /\ m.phase = "executed" =>
        \A q \in Range(states') : q.phase = "executed"
    BY <1>2, <1>4 DEF IInv, Batch
<1>7. Batch'
    BY <1>3, <1>5, <1>6 DEF Batch
<1> QED BY <1>1, <1>3, <1>7, MovedStep DEF NotBusy

-----------------------------------------------------------------------------
(* GAME processes a request *)

\* The main loop's reset is processed when all the others have been.
LEMMA NextRequest ==
    ASSUME IInv, NEW i \in DOMAIN states, IsNext(i)
    PROVE  /\ states[i] \in Range(states) /\ states[i] \in Requests
           /\ \A q \in Range(states) : states[i].who = "main" /\ q # states[i] =>
                q.phase = "executed" \/ (~Nested /\ q.phase = "answered")
<1>0. Table(states) /\ Batch
    BY DEF IInv
<1>1. /\ states \in Seq(Requests) /\ Len(states) \in Nat /\ DOMAIN states = 1..Len(states)
      /\ \A j \in 1..Len(states) : states[j] \in Requests /\ states[j] \in Range(states)
      /\ \A r \in Range(states) : \E j \in 1..Len(states) : r = states[j]
    BY <1>0, InRange DEF Table
<1>2. ASSUME NEW q \in Range(states), states[i].who = "main", q # states[i]
      PROVE  q.phase = "executed" \/ (~Nested /\ q.phase = "answered")
    <2>1. PICK j \in 1..Len(states) : q = states[j]
        BY <1>1
    <2>2. i = Len(states) /\ j # i
        BY <1>0, <1>2, <2>1 DEF Table, MainLast
    <2>3. j \in 1..(i - 1)
        BY <2>1, <2>2, <1>1
    <2>4. q.phase # states[i].phase
        BY <2>1, <2>3 DEF IsNext
    <2>5. q.phase \in Phases
        BY <1>1, <2>1 DEF Requests
    <2>6. states[i] \in Range(states)
        BY <1>1
    <2>7. CASE Nested
        BY <1>0, <2>4, <2>5, <2>6, <2>7 DEF Batch, IsNext, Nested
    <2>8. CASE ~Nested
        BY <1>0, <1>2, <2>4, <2>5, <2>6, <2>8 DEF Batch, IsNext, Nested, Phases
    <2> QED BY <2>7, <2>8
<1> QED BY <1>1, <1>2

\* What Answer does to the request.
LEMMA AnswerAt ==
    ASSUME NEW i \in DOMAIN states, states[i] \in Requests,
           NEW result \in Results, NEW items,
           Answer(i, result, items)
    PROVE  states' = [states EXCEPT ![i] =
                Answered(states[i], IF Nested THEN "executed" ELSE "answered", result, items)]
<1>0. PICK phase \in Phases : phase = IF Nested THEN "executed" ELSE "answered"
    BY DEF Phases
<1>1. PICK r \in Requests : r = states[i]
    OBVIOUS
<1> DEFINE q == [r EXCEPT !.phase = phase]
           s == [q EXCEPT !.result = result]
<1>2. q \in Requests /\ q = Answered(r, phase, r.result, r.items)
    BY DEF Requests, Answered
<1>3. states' = [states EXCEPT ![i] = [s EXCEPT !.items = items]]
    BY <1>0, <1>1 DEF Answer
<1> HIDE DEF q
<1>4. s \in Requests /\ s = Answered(q, q.phase, result, q.items)
    BY <1>2 DEF Requests, Answered
<1> HIDE DEF s
<1>5. [s EXCEPT !.items = items] = Answered(s, s.phase, s.result, items)
    BY <1>4 DEF Requests, Answered
<1>6. [s EXCEPT !.items = items] = Answered(r, phase, result, items)
    BY <1>2, <1>4, <1>5 DEF Answered
<1> QED BY <1>0, <1>1, <1>3, <1>6

\* What is the same of all answers but that to "init".
LEMMA AnswerStep ==
    ASSUME IInv, NEW i \in DOMAIN states, IsNext(i), states[i].op # "init",
           NEW result \in Results, NEW items \in SUBSET FrontendRequests,
           Answer(i, result, items),
           UNCHANGED <<closures, main, frontendVars, game>>
    PROVE  \E x \in Requests :
            /\ x.op = states[i].op /\ x.who = states[i].who
            /\ x.phase \in {"answered", "executed"} /\ x.result = result /\ x.items = items
            /\ Table(states') /\ Range(states') = (Range(states) \ {states[i]}) \cup {x}
            /\ Ids' /\ Loop' /\ Batch' /\ CrashIsLoss'
            /\ (Leaving' => Leaving) /\ InitsLater
            /\ states' \in Seq(Requests) /\ Len(states') <= 3
<1> USE DEF frontendVars
<1> DEFINE phase == IF Nested THEN "executed" ELSE "answered"
           x == Answered(states[i], phase, result, items)
           r == states[i]
<1>0. Table(states) /\ Ids /\ Loop /\ Batch
    BY DEF IInv
<1>1. phase \in Phases
    BY DEF Phases
<1>2. x \in Requests /\ x.op = r.op /\ x.who = r.who
    BY <1>0, <1>1, InRange DEF Requests, Answered, Table
<1>3. Table(states') /\ Range(states') = (Range(states) \ {r}) \cup {x}
    <2>1. r \in Requests
        BY <1>0, InRange DEF Table
    <2>2. states' = [states EXCEPT ![i] = x]
        BY <2>1, AnswerAt
    <2> HIDE DEF x
    <2>3. x \in Requests /\ x.op = states[i].op /\ x.who = states[i].who
        BY <1>2
    <2>4. ASSUME NEW U, U = [states EXCEPT ![i] = x]
          PROVE  Replaced(states, U, i, x)
        BY <2>3, <2>4, <1>0, TableAnswered
    <2> QED BY <2>2, <2>4 DEF Replaced
<1>4. /\ x.op = r.op /\ x.who = r.who /\ x.result = result /\ x.items = items
      /\ x.phase = phase
    BY DEF Answered
<1>5. /\ r \in Range(states)
      /\ \A q \in Range(states) : r.who = "main" /\ q # r =>
            q.phase = "executed" \/ (~Nested /\ q.phase = "answered")
    BY NextRequest
<1>6. r.op # "init"
    OBVIOUS
<1>7. r.phase \in {"new", "processing"}
    BY DEF IsNext
<1> HIDE DEF x, r
<1>8. \A q \in Range(states') : q \in Range(states) \/ q = x
    BY <1>3
<1>9. Ids'
    BY <1>0, <1>4, <1>5, <1>8 DEF Ids
<1>10. NoMain(Range(states)) => NoMain(Range(states'))
    BY <1>4, <1>5, <1>8 DEF NoMain
<1>11. Loop'
    BY <1>0, <1>4, <1>5, <1>6, <1>8, <1>10 DEF Loop, Named
<1>12. Batch'
    <2>1. (game' \in {"requests", "connection", "initialize"}) =>
            \A q \in Range(states') : q.phase \in {"new", "executed"}
        BY <1>0, <1>4, <1>8 DEF Batch, IsNext, Nested
    <2>2. game' # "preparing"
        BY DEF IsNext
    <2>3. ASSUME NEW m \in Range(states'), m.who = "main", NEW q \in Range(states')
          PROVE  /\ m.phase = "processing" => q.phase # "new"
                 /\ m.phase = "answered" => q.phase \in {"answered", "executed"}
                 /\ m.phase = "executed" => q.phase = "executed"
        <3>1. CASE m = x
            <4>1. q = x \/ (q \in Range(states) /\ q # r)
                BY <1>3
            <4> QED BY <3>1, <4>1, <1>4, <1>5, <2>3
        <3>2. CASE m # x /\ q = x
            <4>1. m \in Range(states)
                BY <3>2, <1>8
            <4>2. /\ m.phase = "processing" => r.phase # "new"
                  /\ m.phase = "answered" => r.phase \in {"answered", "executed"}
                  /\ m.phase = "executed" => r.phase = "executed"
                BY <4>1, <2>3, <1>0, <1>5 DEF Batch
            <4> QED BY <4>2, <3>2, <1>4, <1>7
        <3>3. CASE m # x /\ q # x
            BY <3>3, <2>3, <1>0, <1>8 DEF Batch
        <3> QED BY <3>1, <3>2, <3>3
    <2> QED BY <2>1, <2>2, <2>3 DEF Batch
<1>13. CrashIsLoss'
    BY DEF IsNext, Alive, CrashIsLoss
<1>14. Leaving' => Leaving
    BY <1>10 DEF Leaving
<1>15. InitsLater
    BY <1>4, <1>6, <1>8 DEF InitsLater
<1>16. states' \in Seq(Requests) /\ Len(states') <= 3
    BY <1>3, <1>9, AtMostThree DEF Ids
<1>17. x.phase \in {"answered", "executed"}
    BY <1>4
<1> HIDE DEF phase
<1> QED BY <1>2, <1>3, <1>4, <1>9, <1>11, <1>12, <1>13, <1>14, <1>15, <1>16, <1>17 DEF r

\* A map is given out by a game that runs, and an error by one that failed.
LEMMA GetMapDataStep ==
    ASSUME IInv, NEW i \in DOMAIN states, GetMapData(i)
    PROVE  IInv'
<1> USE DEF frontendVars, historyVars
<1> DEFINE r == states[i]
<1>0. Table(states) /\ Ends /\ Answers /\ Stage /\ NoStaleCancel /\ FrontendIsCurrent
    BY DEF IInv
<1>1. /\ IsNext(i) /\ r.op = "map" /\ Answer(i, MapDataResult, {})
      /\ map_data' = (map_data /\ MapDataResult # "SUCCESS")
      /\ UNCHANGED <<closures, main, frontendVars, game, game_state, init_cancel, init_error,
                     has_state, has_managers, has_map, connection, frontend_requests, historyVars>>
    BY DEF GetMapData
<1>2. MapDataResult \in Results
    BY DEF MapDataResult, Results
<1>3. PICK x \in Requests :
        /\ x.op = r.op /\ x.who = r.who
        /\ x.phase \in {"answered", "executed"} /\ x.result = MapDataResult /\ x.items = {}
        /\ Table(states') /\ Range(states') = (Range(states) \ {r}) \cup {x}
        /\ Ids' /\ Loop' /\ Batch' /\ CrashIsLoss'
        /\ (Leaving' => Leaving) /\ InitsLater
        /\ states' \in Seq(Requests) /\ Len(states') <= 3
    BY <1>1, <1>2, AnswerStep
<1>4. r \in Range(states) /\ ~Begun
    BY <1>0, <1>1, InRange DEF Table, IsNext, Begun
<1> HIDE DEF r
<1>5. Kept
    <2>1. Undisturbed
        BY <1>1, <1>3 DEF Undisturbed
    <2> QED BY <2>1, StageKept
<1>6. Stage'
    BY <1>5, StageStays
<1>7. game_state = "RUNNING" => Running
    BY <1>0 DEF Stage, Fresh, Begun, Loading, NotLoaded, Initializing, Creating, Running, Broken
<1>8. x.result \in {"ERROR", "ABORTED"} => lost \/ Fresh \/ Running
    BY <1>0, <1>3, <1>4, <1>7 DEF MapDataResult, Ends
<1>9. x.result = "SUCCESS" => Running
    BY <1>3, <1>7 DEF MapDataResult
<1>10. Ends'
    BY <1>0, <1>1, <1>3, <1>5 DEF Ends, Alive, Kept, Named
<1>11. Answers'
    BY <1>0, <1>1, <1>3, <1>4, <1>5, <1>8, <1>9 DEF Answers, Kept
<1>12. NoStaleCancel'
    BY <1>0, <1>1, <1>3 DEF NoStaleCancel
<1>13. ShownIsRunning'
    <2>1. ResetAsked => ResetAsked'
        BY <1>1, <1>3 DEF ResetAsked
    <2>2. Shows' => Shows \/ Running
        BY <1>1, <1>3, <1>9 DEF Shows
    <2> QED BY <2>1, <2>2, <1>0, <1>1 DEF FrontendIsCurrent, ShownIsRunning, Alive, Running
<1>14. RequestsOfThisGame'
    BY <1>0, <1>1, <1>3 DEF FrontendIsCurrent, RequestsOfThisGame
<1>15. TypeOK'
    <2>1. map_data' \in BOOLEAN
        BY <1>1
    <2> QED BY <2>1, <1>1, <1>3 DEF IInv, TypeOK
<1> QED BY <1>3, <1>6, <1>10, <1>11, <1>12, <1>13, <1>14, <1>15 DEF IInv, FrontendIsCurrent

\* The frontend's requests are handed over, those of this game.
LEMMA GetFrontendRequestsStep ==
    ASSUME IInv, NEW i \in DOMAIN states, GetFrontendRequests(i)
    PROVE  IInv'
<1> USE DEF frontendVars, historyVars
<1> DEFINE r == states[i]
<1>0. Table(states) /\ Ends /\ Answers /\ Stage /\ NoStaleCancel /\ FrontendIsCurrent
    BY DEF IInv
<1>1. /\ IsNext(i) /\ r.op = "frontend" /\ Answer(i, "SUCCESS", frontend_requests)
      /\ frontend_requests' = {}
      /\ UNCHANGED <<closures, main, frontendVars, game, game_state, init_cancel, init_error,
                     has_state, has_managers, has_map, map_data, connection, historyVars>>
    BY DEF GetFrontendRequests
<1>2. "SUCCESS" \in Results /\ frontend_requests \in SUBSET FrontendRequests
    BY DEF Results, IInv, TypeOK
<1>3. PICK x \in Requests :
        /\ x.op = r.op /\ x.who = r.who
        /\ x.phase \in {"answered", "executed"} /\ x.result = "SUCCESS"
        /\ x.items = frontend_requests
        /\ Table(states') /\ Range(states') = (Range(states) \ {r}) \cup {x}
        /\ Ids' /\ Loop' /\ Batch' /\ CrashIsLoss'
        /\ (Leaving' => Leaving) /\ InitsLater
        /\ states' \in Seq(Requests) /\ Len(states') <= 3
    BY <1>1, <1>2, AnswerStep
<1> HIDE DEF r
<1>4. Kept
    <2>1. Undisturbed
        BY <1>1, <1>3 DEF Undisturbed
    <2> QED BY <2>1, StageKept
<1>5. Stage'
    BY <1>4, StageStays
<1>6. Ends'
    BY <1>0, <1>1, <1>3, <1>4 DEF Ends, Alive, Kept, Named
<1>7. Answers'
    BY <1>0, <1>1, <1>3, <1>4 DEF Answers, Kept
<1>8. NoStaleCancel'
    BY <1>0, <1>1, <1>3 DEF NoStaleCancel
<1>9. ShownIsRunning'
    <2>1. ResetAsked => ResetAsked'
        BY <1>1, <1>3 DEF ResetAsked
    <2>2. Shows' => Shows
        BY <1>1, <1>3 DEF Shows
    <2> QED BY <2>1, <2>2, <1>0, <1>1 DEF FrontendIsCurrent, ShownIsRunning, Alive
<1>10. RequestsOfThisGame'
    BY <1>0, <1>1, <1>3 DEF FrontendIsCurrent, RequestsOfThisGame
<1>11. TypeOK'
    BY <1>1, <1>3 DEF IInv, TypeOK
<1> QED BY <1>3, <1>5, <1>6, <1>7, <1>8, <1>9, <1>10, <1>11 DEF IInv, FrontendIsCurrent

\* A reset brings a game back to its beginning, unless the connection was
\* lost: then closures may be left.
LEMMA ResetStep ==
    ASSUME IInv, NEW i \in DOMAIN states, Reset(i)
    PROVE  IInv'
<1> USE DEF frontendVars, historyVars
<1> DEFINE r == states[i]
<1>0. Table(states) /\ Ids /\ Loop /\ Ends /\ Answers /\ Stage /\ FrontendIsCurrent
    BY DEF IInv
<1>1. /\ IsNext(i) /\ r.op = "reset" /\ Answer(i, "SUCCESS", {})
      /\ game_state' = "NONE" /\ init_cancel' = FALSE /\ has_managers' = FALSE
      /\ has_map' = FALSE /\ frontend_requests' = {}
      /\ connection' = IF has_state THEN "none" ELSE connection
      /\ UNCHANGED <<closures, main, frontendVars, game, init_error, has_state, map_data,
                     historyVars>>
    BY DEF Reset, ResetGame
<1>2. PICK x \in Requests :
        /\ x.op = r.op /\ x.who = r.who
        /\ x.phase \in {"answered", "executed"} /\ x.result = "SUCCESS" /\ x.items = {}
        /\ Table(states') /\ Range(states') = (Range(states) \ {r}) \cup {x}
        /\ Ids' /\ Loop' /\ Batch' /\ CrashIsLoss'
        /\ (Leaving' => Leaving) /\ InitsLater
        /\ states' \in Seq(Requests) /\ Len(states') <= 3
    <2>1. "SUCCESS" \in Results /\ {} \in SUBSET FrontendRequests
        BY DEF Results
    <2> QED BY <1>1, <2>1, AnswerStep
<1>3. r \in Range(states) /\ r.who \in {"frontend", "main"}
    BY <1>0, InRange DEF Table, Requests
<1>4. game # "preparing" /\ Alive
    BY <1>1 DEF IsNext
<1> HIDE DEF r
<1>5. \A q \in Range(states) : q.op # "init"
    <2> SUFFICES ASSUME NEW q \in Range(states), q.op = "init" PROVE FALSE
        OBVIOUS
    <2>1. NoMain(Range(states))
        BY <1>0 DEF Loop
    <2>2. q.who = "frontend" /\ r.who = "frontend"
        BY <2>1, <1>0, <1>3, ByName DEF NoMain
    <2> QED BY <2>2, <1>0, <1>1, <1>3 DEF Ids
<1>6. \A q \in Range(states') : q.op # "init"
    BY <1>1, <1>2, <1>5
<1>7. lost \/ Fresh \/ Running
    BY <1>0, <1>1, <1>3 DEF Answers
<1>8. Fresh \/ Running => Fresh'
    BY <1>1, <1>6 DEF Fresh, Running, NotBusy
<1>9. lost /\ ~Fresh /\ ~Running => Broken'
    <2> SUFFICES ASSUME lost, ~Fresh, ~Running PROVE Broken'
        OBVIOUS
    <2>1. role = "client" /\ InitDone' /\ game' # "preparing" /\ lost' /\ role' = "client"
        BY <1>0, <1>1, <1>4, <1>6 DEF Ends, IInv, TypeOK, InitDone
    <2>2. CASE Loading
        BY <2>1, <2>2, <1>1 DEF Loading, Broken, NotBusy
    <2>3. CASE Initializing
        BY <2>1, <2>3, <1>1 DEF Initializing, Broken
    <2>4. CASE Creating
        BY <2>1, <2>4, <1>1 DEF Creating, Broken, NotBusy
    <2>5. CASE Broken
        BY <2>1, <2>5, <1>1 DEF Broken, NotBusy
    <2> QED BY <2>1, <2>2, <2>3, <2>4, <2>5, <1>0, <1>4 DEF Stage, Begun, NotLoaded
<1>10. Stage'
    BY <1>7, <1>8, <1>9 DEF Stage
<1>11. Ends'
    <2>1. Leaving' /\ Alive' => InitDone' /\ Fresh'
        BY <1>0, <1>2, <1>4, <1>6, <1>8 DEF Ends, InitDone
    <2>2. init_error' /\ ~lost' => Fresh'
        BY <1>0, <1>1, <1>4, <1>8 DEF Ends, Begun
    <2> QED BY <2>1, <2>2, <1>0, <1>1 DEF Ends
<1>12. \A q \in Range(states) : q.op = "map" => q.result # "SUCCESS"
    <2> SUFFICES ASSUME NEW q \in Range(states), q.op = "map", q.result = "SUCCESS" PROVE FALSE
        OBVIOUS
    <2>1. q.who = "frontend"
        BY <1>0, ByName
    <2>2. r.who = "main" /\ ~shown
        BY <2>1, <1>0, <1>1, <1>3 DEF Ids
    <2>3. Leaving
        BY <2>2, <1>3 DEF Leaving, NoMain
    <2> QED BY <2>2, <2>3, <1>0, <1>4 DEF Ends, Answers, Fresh, Running
<1>13. Answers'
    <2>1. InitDone'
        BY <1>6 DEF InitDone
    <2>2. lost' \/ Fresh'
        BY <1>1, <1>7, <1>8
    <2> QED BY <2>1, <2>2, <1>1, <1>2, <1>12 DEF Answers
<1>14. NoStaleCancel'
    BY <1>1 DEF NoStaleCancel
<1>15. FrontendIsCurrent'
    <2>1. ResetAsked'
        BY <1>1, <1>2 DEF ResetAsked
    <2>2. RequestsOfThisGame'
        BY <1>0, <1>1, <1>2 DEF FrontendIsCurrent, RequestsOfThisGame
    <2> QED BY <2>1, <2>2 DEF FrontendIsCurrent, ShownIsRunning
<1>16. TypeOK'
    <2>1. connection' \in {"none", "up", "closing"}
        BY <1>1 DEF IInv, TypeOK
    <2>2. frontend_requests' \in SUBSET FrontendRequests /\ game_state' = "NONE"
        BY <1>1
    <2>3. {init_cancel', init_error', has_state', has_managers', has_map', map_data'}
            \subseteq BOOLEAN
        BY <1>1 DEF IInv, TypeOK
    <2>4. UNCHANGED <<closures, main, frontendVars, game, historyVars>>
        BY <1>1
    <2>5. states' \in Seq(Requests) /\ Len(states') <= 3
        BY <1>2
    <2> QED BY <2>1, <2>2, <2>3, <2>4, <2>5 DEF IInv, TypeOK
<1> QED BY <1>2, <1>10, <1>11, <1>13, <1>14, <1>15, <1>16 DEF IInv

\* While the frontend waits for "init", it waits for nothing else, and so
\* does the main loop.
LEMMA InitAlone ==
    ASSUME IInv, NEW r \in Range(states), r.op = "init"
    PROVE  /\ mt_ids = {"init"} /\ ~shown /\ NoMain(Range(states))
           /\ \A q \in Range(states) : q = r
           /\ ~init_cancel
           /\ (r.phase # "executed" /\ Alive => ~Leaving)
<1>0. Table(states) /\ Ids /\ Loop
    BY DEF IInv
<1>1. NoMain(Range(states)) /\ r.who = "frontend"
    BY <1>0, ByName DEF Loop
<1>2. mt_ids = {"init"} /\ ~shown
    BY <1>0, <1>1 DEF Ids
<1>3. \A q \in Range(states) : q.who = "frontend" /\ q.op = "init"
    BY <1>0, <1>1, <1>2, ByName DEF Ids, NoMain, Requests
<1>4. \A q \in Range(states) : q = r
    BY <1>0, <1>1, <1>3, ByName
<1>5. ~init_cancel
    BY <1>3 DEF IInv, NoStaleCancel
<1>6. r.phase # "executed" /\ Alive => ~Leaving
    BY DEF IInv, Ends, InitDone
<1> QED BY <1>1, <1>2, <1>4, <1>5, <1>6

\* A game begins where the one before was reset, and with nothing left of it.
LEMMA BeginInitGameStep ==
    ASSUME IInv, NEW i \in DOMAIN states, BeginInitGame(i)
    PROVE  IInv'
<1> USE DEF frontendVars, historyVars
<1> DEFINE r == states[i]
<1>0. Table(states) /\ Ids /\ Loop /\ Batch /\ Ends /\ Answers /\ Stage /\ FrontendIsCurrent
    BY DEF IInv
<1>1. /\ Alive /\ game = "processing" /\ r.op = "init" /\ r.phase = "processing"
      /\ main # "closures" /\ closures' = Append(closures, "configure")
      /\ game_state = "NONE" => UNCHANGED <<game_state, init_cancel, has_managers, has_map,
                                            map_data, connection, frontend_requests>>
      /\ game' = "preparing"
      /\ UNCHANGED <<states, main, frontendVars, init_error, has_state, historyVars>>
    BY DEF BeginInitGame, IsNext, Nested
<1>2. r \in Range(states)
    BY <1>0, InRange DEF Table
<1> HIDE DEF r
<1>3. /\ ~Leaving /\ ~shown /\ ~init_cancel /\ NoMain(Range(states))
      /\ \A q \in Range(states) : q = r
    BY <1>1, <1>2, InitAlone
<1>4. Fresh
    BY <1>0, <1>1, <1>2
    DEF Stage, Begun, Loading, NotLoaded, Initializing, Creating, Running, Broken, InitTaken,
        InitDone
<1>5. UNCHANGED <<game_state, init_cancel, has_managers, has_map, map_data, connection,
                  frontend_requests>>
    BY <1>1, <1>4 DEF Fresh
<1>6. closures' = ToConfigure
    BY <1>1, <1>4, Queues DEF Fresh
<1>7. Begun' /\ Stage'
    <2>1. Begun'
        BY <1>1, <1>2, <1>4, <1>5, <1>6 DEF Fresh, Begun, Connected
    <2> QED BY <2>1 DEF Stage
<1>8. Table(states)' /\ Ids' /\ Loop' /\ Batch'
    BY <1>0, <1>1, <1>2 DEF Ids, Loop, NoMain, Batch
<1>9. Ends'
    BY <1>0, <1>1, <1>3, <1>5, <1>7 DEF Ends, Leaving, NoMain, Named
<1>10. Answers'
    BY <1>1, <1>2, <1>3 DEF Answers
<1>11. NoStaleCancel' /\ CrashIsLoss' /\ FrontendIsCurrent'
    BY <1>0, <1>1, <1>3, <1>5
    DEF NoStaleCancel, CrashIsLoss, FrontendIsCurrent, ShownIsRunning, ResetAsked, Shows, Alive,
        RequestsOfThisGame
<1>12. TypeOK'
    BY <1>1, <1>5, <1>6, QueuesType DEF IInv, TypeOK
<1> QED BY <1>7, <1>8, <1>9, <1>10, <1>11, <1>12 DEF IInv

\* The response to "init", which brings nothing but its result.
InitAnswered(i, result) ==
    states' = [states EXCEPT ![i].phase = "answered", ![i].result = result]

\* The request stays at its place.
LEMMA InitAnsweredAt ==
    ASSUME NEW i \in DOMAIN states, states[i] \in Requests, NEW result, InitAnswered(i, result)
    PROVE  states' = [states EXCEPT ![i] =
                Answered(states[i], "answered", result, states[i].items)]
<1>1. PICK r \in Requests : r = states[i]
    OBVIOUS
<1> DEFINE q == [r EXCEPT !.phase = "answered"]
<1>2. q \in Requests /\ q = Answered(r, "answered", r.result, r.items)
    BY DEF Requests, Answered, Phases
<1>3. states' = [states EXCEPT ![i] = [q EXCEPT !.result = result]]
    BY <1>1 DEF InitAnswered
<1> HIDE DEF q
<1>4. [q EXCEPT !.result = result] = Answered(q, q.phase, result, q.items)
    BY <1>2 DEF Requests, Answered
<1>5. [q EXCEPT !.result = result] = Answered(r, "answered", result, r.items)
    BY <1>2, <1>4 DEF Answered
<1> QED BY <1>1, <1>3, <1>5

\* What InitGame leaves, when it does not crash.
Prepared(i) ==
    /\ \E result \in {"SUCCESS", "NONE"} : InitAnswered(i, result)
    /\ frontend_requests' = {} /\ init_error' = FALSE /\ game' = "processing"
    /\ unloadable' \in BOOLEAN
    /\ UNCHANGED <<closures, main, frontendVars, init_cancel, has_state, has_managers, map_data,
                   connection, number, role, lost>>
    /\ \/ role = "client" /\ game_state' = "PREPARING_MAP" /\ has_map' = has_map
       \/ role = "master" /\ game_state' \in {"INITIALIZING", "PREPARING_MAP"} /\ has_map' = TRUE

\* The map is prepared, or the slots of a lost connection are used.
LEMMA PrepareMapCases ==
    ASSUME IInv, NEW i \in DOMAIN states, PrepareMap(i)
    PROVE  Prepared(i) \/ (role = "client" /\ connection = "none" /\ Crash)
<1>1. unloadable \in BOOLEAN
    BY DEF IInv, TypeOK
<1>2. CASE /\ role = "client" /\ connection # "none"
           /\ game_state' = "PREPARING_MAP"
           /\ InitAnswered(i, "SUCCESS")
           /\ frontend_requests' = {} /\ init_error' = FALSE /\ game' = "processing"
           /\ UNCHANGED <<closures, main, frontendVars, init_cancel, has_state, has_managers,
                          has_map, map_data, connection, historyVars>>
    BY <1>1, <1>2 DEF Prepared, historyVars
<1>3. CASE /\ role = "master"
           /\ \E loaded \in BOOLEAN :
                /\ game_state' = IF loaded THEN "INITIALIZING" ELSE "PREPARING_MAP"
                /\ InitAnswered(i, IF loaded THEN "SUCCESS" ELSE "NONE")
                /\ unloadable' = ~loaded
           /\ has_map' = TRUE
           /\ frontend_requests' = {} /\ init_error' = FALSE /\ game' = "processing"
           /\ UNCHANGED <<closures, main, frontendVars, init_cancel, has_state, has_managers,
                          map_data, connection, number, role, lost>>
    <2>1. CASE /\ game_state' = "INITIALIZING" /\ InitAnswered(i, "SUCCESS")
               /\ unloadable' = FALSE
        BY <1>3, <2>1 DEF Prepared
    <2>2. CASE /\ game_state' = "PREPARING_MAP" /\ InitAnswered(i, "NONE")
               /\ unloadable' = TRUE
        BY <1>3, <2>2 DEF Prepared
    <2>3. PICK loaded \in BOOLEAN :
                /\ game_state' = IF loaded THEN "INITIALIZING" ELSE "PREPARING_MAP"
                /\ InitAnswered(i, IF loaded THEN "SUCCESS" ELSE "NONE")
                /\ unloadable' = ~loaded
        BY <1>3
    <2>4. CASE loaded = TRUE
        BY <2>1, <2>3, <2>4
    <2>5. CASE loaded = FALSE
        BY <2>2, <2>3, <2>5
    <2> QED BY <2>4, <2>5
<1> QED BY <1>2, <1>3 DEF PrepareMap, InitAnswered

\* The frontend is told that the game has begun.
LEMMA PrepareMapStep ==
    ASSUME IInv, NEW i \in DOMAIN states, PrepareMap(i)
    PROVE  IInv'
<1> USE DEF frontendVars
<1> DEFINE r == states[i]
<1>0. Table(states) /\ Ids /\ Loop /\ Batch /\ Ends /\ Stage /\ FrontendIsCurrent
    BY DEF IInv
<1>1. Alive /\ game = "preparing" /\ r.op = "init" /\ r.phase = "processing"
    BY DEF PrepareMap
<1>2. r \in Range(states) /\ r \in Requests
    BY <1>0, InRange DEF Table
<1>3. /\ mt_ids = {"init"} /\ ~Leaving /\ ~shown /\ ~init_cancel /\ NoMain(Range(states))
      /\ \A q \in Range(states) : q = r
    <2> HIDE DEF r
    <2> QED BY <1>1, <1>2, InitAlone
<1>4. Begun
    BY <1>0, <1>1
    DEF Stage, Fresh, Loading, NotLoaded, Initializing, Creating, Running, Broken, NotBusy
<1>5. CASE role = "client" /\ connection = "none" /\ Crash
    <2>1. lost
        BY <1>4, <1>5 DEF Begun, Connected
    <2> QED BY <2>1, <1>1, <1>5, CrashStep
<1>6. CASE Prepared(i)
    <2>1. PICK result \in {"SUCCESS", "NONE"} : InitAnswered(i, result)
        BY <1>6 DEF Prepared
    <2>2. /\ frontend_requests' = {} /\ init_error' = FALSE /\ game' = "processing"
          /\ unloadable' \in BOOLEAN
          /\ UNCHANGED <<closures, main, frontendVars, init_cancel, has_state, has_managers,
                         map_data, connection, number, role, lost>>
          /\ \/ role = "client" /\ game_state' = "PREPARING_MAP" /\ has_map' = has_map
             \/ /\ role = "master" /\ game_state' \in {"INITIALIZING", "PREPARING_MAP"}
                /\ has_map' = TRUE
        BY <1>6 DEF Prepared
    <2> DEFINE x == Answered(r, "answered", result, r.items)
    <2>3. /\ x \in Requests /\ x.op = "init" /\ x.who = r.who /\ x.phase = "answered"
          /\ x.items = r.items
        BY <1>1, <1>2 DEF Requests, Answered, Phases, Results
    <2>4. states' = [states EXCEPT ![i] = x]
        BY <1>2, <2>1, InitAnsweredAt
    <2>5. Replaced(states, states', i, x)
        <3> HIDE DEF x
        <3>1. x \in Requests /\ x.op = states[i].op /\ x.who = states[i].who
            BY <1>1, <2>3
        <3>2. ASSUME NEW U, U = [states EXCEPT ![i] = x]
              PROVE  Replaced(states, U, i, x)
            BY <3>1, <3>2, <1>0, TableAnswered
        <3> QED BY <2>4, <3>2
    <2>6. Table(states') /\ Range(states') = {x}
        BY <1>3, <2>5 DEF Replaced
    <2> HIDE DEF x, r
    <2>7. x.who = "frontend"
        BY <2>3, ByName, <2>6
    <2>8. InitTaken' /\ NotBusy'
        BY <2>2, <2>3, <2>6 DEF InitTaken, NotBusy
    <2>9. Stage'
        <3>1. CASE role = "client"
            <4>1. Loading'
                BY <3>1, <1>4, <2>2, <2>8 DEF Begun, Loading
            <4> QED BY <4>1 DEF Stage
        <3>2. CASE role = "master" /\ game_state' = "PREPARING_MAP"
            <4>1. NotLoaded'
                BY <3>2, <1>4, <2>2, <2>8 DEF Begun, NotLoaded
            <4> QED BY <4>1 DEF Stage
        <3>3. CASE role = "master" /\ game_state' = "INITIALIZING"
            <4>1. Initializing'
                BY <3>3, <1>4, <2>2, <2>8 DEF Begun, Initializing
            <4> QED BY <4>1 DEF Stage
        <3> QED BY <3>1, <3>2, <3>3, <2>2
    <2>10. NoMain(Range(states'))
        BY <2>6, <2>7 DEF NoMain
    <2>11. Ids' /\ Loop' /\ Batch'
        BY <1>0, <1>1, <1>3, <2>2, <2>3, <2>6, <2>7, <2>10
        DEF Ids, Loop, Batch, Leaving, NoMain, Named
    <2>12. ~Leaving'
        BY <1>3, <2>2, <2>10 DEF Leaving
    <2>13. Ends'
        BY <1>0, <2>2, <2>3, <2>6, <2>12 DEF Ends, Named
    <2>14. Answers'
        BY <2>3, <2>6 DEF Answers
    <2>15. NoStaleCancel' /\ CrashIsLoss'
        BY <1>1, <1>3, <2>2 DEF NoStaleCancel, CrashIsLoss, Alive
    <2>16. FrontendIsCurrent'
        <3>1. ~Shows'
            BY <1>3, <2>2, <2>3, <2>6 DEF Shows
        <3>2. RequestsOfThisGame'
            BY <1>0, <1>2, <2>2, <2>3, <2>6 DEF FrontendIsCurrent, RequestsOfThisGame
        <3> QED BY <3>1, <3>2 DEF FrontendIsCurrent, ShownIsRunning
    <2>17. TypeOK'
        <3>1. states' \in Seq(Requests) /\ Len(states') <= 3
            BY <2>6, <2>11, AtMostThree DEF Ids
        <3>2. {init_cancel', init_error', has_state', has_managers', has_map', map_data'}
                \subseteq BOOLEAN
            BY <2>2 DEF IInv, TypeOK
        <3>3. /\ frontend_requests' \in SUBSET FrontendRequests
              /\ game_state' \in {"INITIALIZING", "PREPARING_MAP"}
            BY <2>2
        <3> QED BY <3>1, <3>2, <3>3, <2>2 DEF IInv, TypeOK
    <2> QED BY <2>6, <2>9, <2>11, <2>13, <2>14, <2>15, <2>16, <2>17 DEF IInv
<1> QED BY <1>5, <1>6, PrepareMapCases

\* Whatever request GAME processes, the invariant is kept.
LEMMA ProcessRequestStep == IInv /\ ProcessRequest => IInv'
    BY BeginInitGameStep, PrepareMapStep, GetMapDataStep, ResetStep, GetFrontendRequestsStep
    DEF ProcessRequest

-----------------------------------------------------------------------------
(* GAME looks at the connection *)

\* The game goes on, with or without its connection.
LEMMA ConnectionStep ==
    ASSUME IInv, Alive, game \in {"connection", "initialize"}, game' \in {"requests", "initialize"},
           UNCHANGED <<requestVars, main, frontendVars, game_state, init_cancel, has_state,
                       has_managers, has_map, map_data, number, role, unloadable>>,
           Stage', Fresh => Fresh', Running => Running', RequestsOfThisGame',
           \/ UNCHANGED <<lost, connection, init_error>>
           \/ lost' = TRUE /\ connection' = "none" /\ role = "client" /\ init_error' \in BOOLEAN,
           frontend_requests' \in SUBSET FrontendRequests
    PROVE  IInv'
<1> USE DEF requestVars, frontendVars
<1>1. InitDone => InitDone'
    BY DEF InitDone
<1>2. Table(states)' /\ Ids' /\ Loop' /\ Batch'
    BY DEF IInv, Ids, Loop, NoMain, Batch
<1>3. Ends'
    <2>1. (Leaving => Leaving') /\ (Leaving' => Leaving) /\ ~Begun
        BY DEF Leaving, NoMain, Begun
    <2> QED BY <2>1, <1>1 DEF IInv, Ends, Alive, Named
<1>4. Answers'
    BY <1>1 DEF IInv, Answers
<1>5. NoStaleCancel' /\ CrashIsLoss'
    BY DEF IInv, NoStaleCancel, CrashIsLoss, Alive
<1>6. FrontendIsCurrent'
    BY DEF IInv, FrontendIsCurrent, ShownIsRunning, Shows, ResetAsked, Alive
<1>7. TypeOK'
    <2>1. connection' \in {"none", "up", "closing"} /\ {lost', unloadable'} \subseteq BOOLEAN
        BY DEF IInv, TypeOK
    <2>2. {init_cancel', init_error', has_state', has_managers', has_map', map_data'}
            \subseteq BOOLEAN
        BY DEF IInv, TypeOK
    <2> QED BY <2>1, <2>2 DEF IInv, TypeOK
<1> QED BY <1>2, <1>3, <1>4, <1>5, <1>6, <1>7 DEF IInv

\* The map is initialized next, if there is one to initialize.
LEMMA NothingReceivedStep == IInv /\ NothingReceived => IInv'
<1> SUFFICES ASSUME IInv, NothingReceived PROVE IInv'
    OBVIOUS
<1> USE DEF requestVars, frontendVars, backendVars, historyVars
<1>1. /\ Alive /\ game = "connection" /\ game' = AfterConnection
      /\ UNCHANGED <<requestVars, main, frontendVars, backendVars, historyVars>>
    BY DEF NothingReceived
<1>2. CASE game' = "initialize"
    <2>1. Initializing
        BY <1>1, <1>2
        DEF AfterConnection, IInv, Stage, Fresh, Begun, Loading, NotLoaded, Creating, Running,
            Broken
    <2>2. Initializing'
        BY <1>1, <1>2, <2>1 DEF Initializing, InitTaken
    <2>3. Stage' /\ ~Fresh /\ ~Running
        BY <2>1, <2>2 DEF Stage, Fresh, Running, Initializing
    <2>4. RequestsOfThisGame' /\ frontend_requests' \in SUBSET FrontendRequests
        BY <1>1 DEF IInv, TypeOK, FrontendIsCurrent, RequestsOfThisGame
    <2> QED BY <1>1, <1>2, <2>3, <2>4, ConnectionStep
<1>3. CASE game' = "requests"
    <2>1. Kept
        <3>1. InitsLater
            BY <1>1 DEF InitsLater
        <3>2. Undisturbed
            BY <1>1, <1>3, <3>1 DEF Undisturbed, NotBusy
        <3> QED BY <3>2, StageKept
    <2>2. Stage'
        BY <2>1, StageStays
    <2>3. RequestsOfThisGame' /\ frontend_requests' \in SUBSET FrontendRequests
        BY <1>1 DEF IInv, TypeOK, FrontendIsCurrent, RequestsOfThisGame
    <2> QED BY <1>1, <1>3, <2>1, <2>2, <2>3, ConnectionStep DEF Kept
<1> QED BY <1>1, <1>2, <1>3 DEF AfterConnection

\* A client loses its connection, and the game stays where it is.
LEMMA DisconnectedStep == IInv /\ Disconnected => IInv'
<1> SUFFICES ASSUME IInv, Disconnected PROVE IInv'
    OBVIOUS
<1> USE DEF requestVars, frontendVars
<1>1. /\ Alive /\ game \in {"connection", "initialize"} /\ has_state /\ connection # "none"
      /\ connection' = "none" /\ lost' = TRUE
      /\ game' = IF game = "connection" THEN AfterConnection ELSE game
      /\ UNCHANGED <<requestVars, main, frontendVars, game_state, init_cancel, has_state,
                     has_managers, has_map, map_data, number, role, unloadable>>
    BY DEF Disconnected, LoseConnection
<1>2. \/ /\ game_state # "RUNNING" /\ init_error' = TRUE
         /\ frontend_requests' = frontend_requests
      \/ /\ game_state = "RUNNING" /\ init_error' = init_error
         /\ frontend_requests' = frontend_requests \cup {<<"quit", number>>}
    BY DEF Disconnected, LoseConnection
<1>3. role = "client" /\ ~lost
    BY <1>1 DEF IInv, Ends, TypeOK
<1>4. /\ game' \in {"requests", "initialize"}
      /\ NotBusy /\ game_state # "INITIALIZING" => NotBusy'
    BY <1>1 DEF AfterConnection, NotBusy
<1>5. Connected' /\ (InitDone => InitDone') /\ (InitTaken => InitTaken')
    BY <1>1 DEF Connected, InitDone, InitTaken
<1>6. Fresh => Fresh'
    BY <1>1, <1>2, <1>4, <1>5 DEF Fresh
<1>7. Running => Running'
    BY <1>1, <1>4, <1>5 DEF Running
<1>8. Stage'
    <2>1. Loading => Loading'
        BY <1>1, <1>4, <1>5 DEF Loading
    <2>2. Initializing => Initializing'
        BY <1>1, <1>4, <1>5 DEF Initializing
    <2>3. Creating => Creating'
        BY <1>1, <1>4, <1>5 DEF Creating
    <2>4. ~Begun /\ ~NotLoaded /\ ~Broken
        BY <1>1, <1>3 DEF Begun, NotLoaded, Broken
    <2> QED BY <1>6, <1>7, <2>1, <2>2, <2>3, <2>4 DEF IInv, Stage
<1>9. RequestsOfThisGame'
    BY <1>1, <1>2 DEF IInv, FrontendIsCurrent, RequestsOfThisGame
<1>10. frontend_requests' \in SUBSET FrontendRequests
    BY <1>2 DEF IInv, TypeOK, FrontendRequests
<1>11. init_error' \in BOOLEAN
    BY <1>2 DEF IInv, TypeOK
<1> QED BY <1>1, <1>3, <1>4, <1>6, <1>7, <1>8, <1>9, <1>10, <1>11, ConnectionStep

\* A client has its snapshot, and queues it to be unpacked.
LEMMA CompleteDownloadStep == IInv /\ CompleteDownload => IInv'
<1> SUFFICES ASSUME IInv, CompleteDownload PROVE IInv'
    OBVIOUS
<1> USE DEF frontendVars, backendVars, historyVars
<1>1. /\ Alive /\ game = "connection" /\ main # "closures" /\ game' = "requests"
      /\ has_state /\ role = "client" /\ connection = "up"
      /\ game_state = "PREPARING_MAP" /\ ~Contains(closures, "unpack")
      /\ closures' = Append(closures, "unpack")
      /\ UNCHANGED <<states, main, frontendVars, backendVars, historyVars>>
    BY DEF CompleteDownload, Downloading
<1>2. Loading /\ ~Fresh /\ ~Running /\ ~Begun
    BY <1>1
    DEF IInv, Stage, Fresh, Begun, NotLoaded, Initializing, Creating, Running, Broken
<1>3. InitDone /\ InitDone' /\ InitTaken'
    BY <1>1, <1>2 DEF IInv, Batch, Loading, InitTaken, InitDone
<1>4. Connected' /\ NotBusy'
    BY <1>1 DEF Connected, NotBusy
<1>5. \/ closures = ToConfigure /\ closures' = ToConfigureAndUnpack /\ ~has_managers
      \/ closures = <<>> /\ closures' = ToUnpack /\ has_managers
    BY <1>1, <1>2, Queues, UnpackQueued DEF Loading
<1>6. Loading' /\ Stage'
    <2>1. Loading'
        BY <1>1, <1>2, <1>3, <1>4, <1>5 DEF Loading
    <2> QED BY <2>1 DEF Stage
<1>7. Table(states)' /\ Ids' /\ Loop' /\ Batch'
    BY <1>1 DEF IInv, Ids, Loop, NoMain, Batch
<1>8. Ends'
    BY <1>1, <1>2 DEF IInv, Ends, Leaving, NoMain, Alive, Named
<1>9. Answers'
    BY <1>1, <1>2, <1>3 DEF IInv, Answers
<1>10. NoStaleCancel' /\ CrashIsLoss' /\ FrontendIsCurrent'
    BY <1>1
    DEF IInv, NoStaleCancel, CrashIsLoss, FrontendIsCurrent, ShownIsRunning, Shows, ResetAsked,
        Alive, RequestsOfThisGame
<1>11. TypeOK'
    BY <1>1, <1>5, QueuesType DEF IInv, TypeOK
<1> QED BY <1>6, <1>7, <1>8, <1>9, <1>10, <1>11 DEF IInv

-----------------------------------------------------------------------------
(* GAME initializes the map *)

\* A map is initialized at the stage for it, or after the reset of a game
\* that lost its connection.
LEMMA WhileInitialize ==
    ASSUME IInv, Alive, game = "initialize"
    PROVE  /\ Initializing \/ Broken
           /\ ~Fresh /\ ~Running /\ ~Begun /\ ~Leaving /\ ~Shows
           /\ Initializing => InitDone /\ game_state = "INITIALIZING"
           /\ Initializing /\ lost => closures = <<>>
           /\ Broken => lost /\ ~has_map
<1>1. (Initializing \/ Broken) /\ ~Fresh /\ ~Running /\ ~Begun
    BY DEF IInv, Stage, Fresh, Begun, Loading, NotLoaded, Creating, Running, NotBusy
<1>2. ~Leaving /\ ~Shows
    BY <1>1 DEF IInv, Ends, Answers, Leaving, Shows
<1>3. Initializing => InitDone /\ game_state = "INITIALIZING"
    BY DEF IInv, Batch, Initializing, InitTaken, InitDone
<1>4. Initializing /\ lost => closures = <<>>
    BY DEF IInv, Ends, Initializing
<1>5. Broken => lost /\ ~has_map
    BY DEF Broken
<1> QED BY <1>1, <1>2, <1>3, <1>4, <1>5

\* The map is deleted under Map::Initialize by the reset of a game that was lost.
LEMMA InitializeCrashesStep == IInv /\ InitializeCrashes => IInv'
<1> SUFFICES ASSUME IInv, InitializeCrashes PROVE IInv'
    OBVIOUS
<1>1. lost
    BY WhileInitialize DEF InitializeCrashes, CannotInitialize, Initializing
<1> QED BY <1>1, CrashStep DEF InitializeCrashes

\* Only a game that was lost is reset while its map is initialized.
LEMMA InitializeAbortedStep == IInv /\ InitializeAborted => IInv'
<1> SUFFICES ASSUME IInv, InitializeAborted PROVE IInv'
    OBVIOUS
<1> USE DEF requestVars, historyVars
<1>1. /\ Alive /\ game = "initialize" /\ has_map /\ init_cancel /\ game' = "requests"
      /\ game_state' = "NONE" /\ init_cancel' = FALSE
      /\ has_managers' = FALSE /\ has_map' = FALSE /\ frontend_requests' = {}
      /\ connection' \in {"none", connection} /\ (has_state => connection' = "none")
      /\ has_state' = FALSE /\ init_error' = TRUE /\ ui' = "popup"
      /\ UNCHANGED <<requestVars, main, reset_needed, mt_ids, shown, on_game_exit, map_data,
                     historyVars>>
    BY DEF InitializeAborted, InitFailed, ResetGame
<1>2. Initializing /\ InitDone /\ ~Leaving /\ ~Shows /\ ~Running /\ ~Fresh
    BY <1>1, WhileInitialize
<1>3. lost
    BY <1>1, <1>2 DEF IInv, NoStaleCancel, Answers
<1>4. closures = <<>> /\ has_state /\ connection' = "none"
    BY <1>1, <1>2, <1>3, WhileInitialize DEF Initializing
<1>5. InitDone' /\ Fresh' /\ Stage'
    <2>1. InitDone' /\ NotBusy'
        BY <1>1, <1>2 DEF InitDone, NotBusy
    <2>2. Fresh'
        BY <2>1, <1>1, <1>4 DEF Fresh, InitDone
    <2> QED BY <2>1, <2>2 DEF Stage
<1>6. Table(states)' /\ Ids' /\ Loop' /\ Batch'
    BY <1>1, <1>2 DEF IInv, Ids, Loop, NoMain, Batch, Leaving
<1>7. Ends'
    BY <1>1, <1>4, <1>5 DEF IInv, Ends
<1>8. ~Shows'
    BY <1>1, <1>2 DEF Shows
<1>9. Answers'
    BY <1>1, <1>3, <1>5, <1>8 DEF Answers, Shows
<1>10. FrontendIsCurrent'
    BY <1>1, <1>8 DEF IInv, FrontendIsCurrent, ShownIsRunning, RequestsOfThisGame
<1>11. NoStaleCancel' /\ CrashIsLoss'
    BY <1>1 DEF NoStaleCancel, CrashIsLoss, Alive
<1>12. TypeOK'
    <2>1. {init_cancel', init_error', has_state', has_managers', has_map', map_data'}
            \subseteq BOOLEAN
        BY <1>1 DEF IInv, TypeOK
    <2>2. frontend_requests' \in SUBSET FrontendRequests
        BY <1>1
    <2> QED BY <2>1, <2>2, <1>1, <1>4 DEF IInv, TypeOK
<1> QED BY <1>5, <1>6, <1>7, <1>9, <1>10, <1>11, <1>12 DEF IInv

\* The game is to be created next, and nobody has left it.
LEMMA InitializedStep == IInv /\ Initialized => IInv'
<1> SUFFICES ASSUME IInv, Initialized PROVE IInv'
    OBVIOUS
<1> USE DEF frontendVars, historyVars
<1>1. /\ Alive /\ game = "initialize" /\ has_map /\ ~init_cancel /\ main # "closures"
      /\ map_data' = TRUE /\ game_state' = "STARTING" /\ game' = "requests"
      /\ frontend_requests' = frontend_requests \cup {<<"define", number>>}
      /\ closures' = Append(closures, "create")
      /\ UNCHANGED <<states, main, frontendVars, init_cancel, init_error, has_state,
                     has_managers, has_map, connection, historyVars>>
    BY DEF Initialized
<1>2. /\ Initializing /\ InitDone /\ game_state = "INITIALIZING"
      /\ ~Leaving /\ ~Shows /\ ~Running /\ ~Fresh /\ ~Begun
    BY <1>1, WhileInitialize
<1>3. \/ /\ closures = ToConfigure /\ closures' = ToConfigureAndCreate
         /\ ~has_managers /\ role = "master"
      \/ closures = <<>> /\ closures' = ToCreate /\ has_managers
    BY <1>1, <1>2, Queues DEF Initializing
<1>4. InitDone' /\ NotBusy'
    BY <1>1, <1>2 DEF InitDone, NotBusy
<1>5. Creating' /\ Stage'
    <2>1. Creating'
        BY <1>1, <1>2, <1>3, <1>4 DEF Initializing, Creating
    <2> QED BY <2>1 DEF Stage
<1>6. Table(states)' /\ Ids' /\ Loop' /\ Batch'
    BY <1>1 DEF IInv, Ids, Loop, NoMain, Batch
<1>7. Ends'
    BY <1>1, <1>2 DEF IInv, Ends, Leaving, NoMain, Named
<1>8. ~Shows'
    BY <1>1, <1>2 DEF Shows
<1>9. Answers'
    BY <1>1, <1>2, <1>4, <1>8 DEF IInv, Answers, Shows
<1>10. FrontendIsCurrent'
    <2>1. RequestsOfThisGame'
        BY <1>1 DEF IInv, FrontendIsCurrent, RequestsOfThisGame
    <2> QED BY <2>1, <1>8 DEF FrontendIsCurrent, ShownIsRunning
<1>11. NoStaleCancel' /\ CrashIsLoss'
    BY <1>1 DEF NoStaleCancel, CrashIsLoss, Alive
<1>12. TypeOK'
    <2>1. frontend_requests' \in SUBSET FrontendRequests
        BY <1>1 DEF IInv, TypeOK, FrontendRequests
    <2>2. closures' \in Seq({"configure", "unpack", "create"})
        BY <1>3, QueuesType
    <2>3. {init_cancel', init_error', has_state', has_managers', has_map', map_data'}
            \subseteq BOOLEAN
        BY <1>1 DEF IInv, TypeOK
    <2> QED BY <2>1, <2>2, <2>3, <1>1 DEF IInv, TypeOK
<1> QED BY <1>5, <1>6, <1>7, <1>9, <1>10, <1>11, <1>12 DEF IInv

\* Whatever GAME does, the invariant is kept.
LEMMA GameStep == IInv /\ Game => IInv'
    BY TakeRequestsStep, ProcessRequestStep, SetResponsesStep, NothingReceivedStep,
       CompleteDownloadStep, DisconnectedStep, InitializeCrashesStep, InitializeAbortedStep,
       InitializedStep DEF Game

-----------------------------------------------------------------------------
(* The theorems *)

\* The invariant holds at first, when nothing runs,
LEMMA IInvInit == Init => IInv
<1> SUFFICES ASSUME Init PROVE IInv
    OBVIOUS
<1>1. Range(states) = {}
    BY DEF Init, Range
<1>2. Table(states)
    BY DEF Init, Table, Distinct, MainLast
<1>3. Fresh /\ Stage /\ InitDone
    <2>1. Fresh
        BY <1>1 DEF Init, Fresh, NotBusy
    <2> QED BY <2>1, <1>1 DEF Stage, InitDone
<1>4. Ids /\ Loop /\ Batch /\ Answers
    BY <1>1 DEF Init, Ids, Loop, Batch, Answers
<1>5. Ends
    BY <1>1, <1>3 DEF Init, Ends
<1>6. NoStaleCancel /\ CrashIsLoss
    BY DEF Init, NoStaleCancel, CrashIsLoss
<1>7. FrontendIsCurrent
    BY <1>1 DEF Init, FrontendIsCurrent, ShownIsRunning, Shows, RequestsOfThisGame
<1>8. TypeOK
    <2>1. states \in Seq(Requests) /\ Len(states) = 0
        BY <1>2 DEF Init, Table
    <2>2. closures \in Seq({"configure", "unpack", "create"})
        BY DEF Init
    <2>3. number \in 0..MaxGames
        BY MaxGamesAssumption DEF Init
    <2>4. mt_ids \in SUBSET Ops /\ frontend_requests \in SUBSET FrontendRequests
        BY DEF Init
    <2>5. Len(states) <= 3
        BY <2>1
    <2>6. states \in Seq(Requests)
        BY <1>2 DEF Table
    <2> QED BY <2>2, <2>3, <2>4, <2>5, <2>6 DEF Init, TypeOK
<1> QED BY <1>2, <1>3, <1>4, <1>5, <1>6, <1>7, <1>8 DEF IInv

\* while nothing happens,
LEMMA IInvStutters == IInv /\ UNCHANGED vars => IInv'
<1> SUFFICES ASSUME IInv, UNCHANGED vars PROVE IInv'
    OBVIOUS
<1> USE DEF vars, requestVars, frontendVars, backendVars, historyVars
<1>1. Kept
    <2>1. Undisturbed
        BY DEF Undisturbed, InitsLater
    <2> QED BY <2>1, StageKept
<1>2. Stage'
    BY <1>1, StageStays
<1>3. Table(states)' /\ Ids' /\ Loop' /\ Batch'
    BY DEF IInv, Ids, Loop, NoMain, Batch
<1>4. Ends'
    BY <1>1 DEF IInv, Ends, Leaving, NoMain, Alive, Kept, Named
<1>5. Answers'
    BY <1>1 DEF IInv, Answers, Kept
<1>6. NoStaleCancel' /\ CrashIsLoss' /\ FrontendIsCurrent'
    BY DEF IInv, NoStaleCancel, CrashIsLoss, FrontendIsCurrent, ShownIsRunning, Shows, ResetAsked,
           Alive, RequestsOfThisGame
<1>7. TypeOK'
    BY DEF IInv, TypeOK
<1> QED BY <1>2, <1>3, <1>4, <1>5, <1>6, <1>7 DEF IInv

\* and after every step:
LEMMA IInvStep == IInv /\ [Next]_vars => IInv'
    BY MainStep, GameStep, IInvStutters DEF Next

\* it holds for ever.
LEMMA Inductive == Spec => []IInv
    BY IInvInit, IInvStep, PTL DEF Spec

\* What MAIN and GAME share keeps its types, and the table of requests never
\* holds more than three: nobody asks for a thing again before it is answered
\* or canceled.
THEOREM TypeCorrect == Spec => []TypeOK
<1>1. IInv => TypeOK
    BY DEF IInv
<1> QED BY Inductive, <1>1, PTL

\* m_init_cancel is up only while a reset is on its way to GAME, which takes it
\* down: whoever stops Map::Initialize stops the game that is to be reset, and
\* never the one that is started after it.
THEOREM CancelIsNeverStale == Spec => []NoStaleCancel
<1>1. IInv => NoStaleCancel
    BY DEF IInv
<1> QED BY Inductive, <1>1, PTL

\* The frontend never shows a game, and is never about to, that the backend
\* does not run, and never gets a request of a game before.
THEOREM FrontendShowsItsGame == Spec => []FrontendIsCurrent
<1>1. IInv => FrontendIsCurrent
    BY DEF IInv
<1> QED BY Inductive, <1>1, PTL

\* However games are started, fail, are reset and are started again: the
\* managers, the map and the state are there when they are used, unless a
\* client has lost its connection.
THEOREM CrashesOnlyWhenLost == Spec => []CrashIsLoss
<1>1. IInv => CrashIsLoss
    BY DEF IInv
<1> QED BY Inductive, <1>1, PTL

=============================================================================
