----------------------- MODULE RealTimeProcessorProofs -----------------------
(***************************************************************************)
(* Theorems of RealTimeProcessor, for any hands, batch size, topic and     *)
(* number of faults: wherever a batch of autocommitted statements is       *)
(* interrupted, no table holds a hand twice, no alert lacks its history,   *)
(* and what the committed offset passed is there or yet to be rewritten.   *)
(* Most leaves that speak of concatenations are instances of a lemma about *)
(* any sequences, found by Zenon; SMT is given lengths and places only.    *)
(***************************************************************************)
EXTENDS RealTimeProcessor, SequenceTheorems, TLAPS

-----------------------------------------------------------------------------
(* The statements of a batch. *)

\* The place of the statement that deletes from table t, and of the one that
\* appends to it.
DeletedAt(t) ==
  CASE t = "ALERTS"      -> 1
    [] t = "RULE_FLAGS"  -> 2
    [] t = "FEATURES"    -> 3
    [] t = "RAW_ACTIONS" -> 4
    [] t = "RAW_PLAYERS" -> 5
    [] t = "RAW_HANDS"   -> 6

InsertedAt(t) ==
  CASE t = "RAW_HANDS"   -> 7
    [] t = "RAW_ACTIONS" -> 8
    [] t = "RAW_PLAYERS" -> 9
    [] t = "FEATURES"    -> 10
    [] t = "RULE_FLAGS"  -> 11
    [] t = "ALERTS"      -> 12

\* The names of the six tables.
LEMMA TableNames ==
  /\ Table = {"ALERTS", "RULE_FLAGS", "FEATURES", "RAW_ACTIONS", "RAW_PLAYERS", "RAW_HANDS"}
  /\ Range(Written) = Table \ {"ALERTS"}
<1>1. Range(Deleted) = {"ALERTS", "RULE_FLAGS", "FEATURES", "RAW_ACTIONS", "RAW_PLAYERS", "RAW_HANDS"}
  <2>1. DOMAIN Deleted = 1 .. 6
    BY DEF Deleted
  <2> QED
    BY <2>1 DEF Range, Deleted
<1>2. Range(Written) = {"RAW_HANDS", "RAW_ACTIONS", "RAW_PLAYERS", "FEATURES", "RULE_FLAGS"}
  <2>1. DOMAIN Written = 1 .. 5
    BY DEF Written
  <2> QED
    BY <2>1 DEF Range, Written
<1> QED
  BY <1>1, <1>2 DEF Table

\* Deletes take places 1 to 6, the alerts' first; appends 7 to 12, the alerts' last.
LEMMA Places ==
  /\ \A t \in Table : DeletedAt(t) \in 1 .. 6 /\ InsertedAt(t) \in 7 .. 12
  /\ \A t, u \in Table : DeletedAt(t) = DeletedAt(u) => t = u
  /\ \A t, u \in Table : InsertedAt(t) = InsertedAt(u) => t = u
  /\ "ALERTS" \in Table /\ DeletedAt("ALERTS") = 1 /\ InsertedAt("ALERTS") = 12
  /\ \A t \in Range(Written) : t \in Table /\ t # "ALERTS" /\ InsertedAt(t) < 12
<1>1. \A t \in Table : DeletedAt(t) \in 1 .. 6 /\ InsertedAt(t) \in 7 .. 12
  BY TableNames DEF DeletedAt, InsertedAt
<1>2. \A t, u \in Table : DeletedAt(t) = DeletedAt(u) => t = u
  BY TableNames DEF DeletedAt
<1>3. \A t, u \in Table : InsertedAt(t) = InsertedAt(u) => t = u
  BY TableNames DEF InsertedAt
<1>4. "ALERTS" \in Table /\ DeletedAt("ALERTS") = 1 /\ InsertedAt("ALERTS") = 12
  BY TableNames DEF DeletedAt, InsertedAt
<1>5. \A t \in Range(Written) : t \in Table /\ t # "ALERTS" /\ InsertedAt(t) < 12
  BY TableNames DEF InsertedAt
<1> QED
  BY <1>1, <1>2, <1>3, <1>4, <1>5

\* A function on 1 .. n is a sequence of length n.
LEMMA FunctionSequence ==
  ASSUME NEW S, NEW n \in Nat, NEW f \in [1 .. n -> S]
  PROVE  f \in Seq(S) /\ Len(f) = n
<1>1. f \in Seq(S)
  BY SeqDef
<1>2. 1 .. Len(f) = 1 .. n /\ Len(f) \in Nat
  BY <1>1, LenProperties
<1> QED
  BY <1>1, <1>2

\* What a concatenation holds where.
LEMMA ConcatAt ==
  ASSUME NEW S, NEW a \in Seq(S), NEW b \in Seq(S)
  PROVE  /\ a \o b \in Seq(S) /\ Len(a \o b) = Len(a) + Len(b)
         /\ \A i \in 1 .. Len(a) : (a \o b)[i] = a[i]
         /\ \A i \in Len(a) + 1 .. Len(a) + Len(b) : (a \o b)[i] = b[i - Len(a)]
OBVIOUS

\* A sequence of a given length.
Sized(S, s, n) == s \in Seq(S) /\ Len(s) = n

\* What is where in s, the concatenation of six elements, five and end.
Pieces(S, s, del, ins, end) ==
  /\ s \in Seq(S) /\ Len(s) = 11 + Len(end)
  /\ \A i \in 1 .. 6 : s[i] = del[i]
  /\ \A i \in 7 .. 11 : s[i] = ins[i - 6]
  /\ Len(end) = 1 => s[12] = end[1]

\* The concatenation of six, five and at most one.
LEMMA ThreePieces ==
  ASSUME NEW S, NEW del, NEW ins, NEW end,
         Sized(S, del, 6), Sized(S, ins, 5), Sized(S, end, 0) \/ Sized(S, end, 1)
  PROVE  Pieces(S, del \o ins \o end, del, ins, end)
<1>1. del \in Seq(S) /\ ins \in Seq(S) /\ end \in Seq(S)
  BY Zenon DEF Sized
<1>2. Len(del) = 6 /\ Len(ins) = 5
  BY Zenon DEF Sized
<1>3. del \o ins \in Seq(S) /\ Len(del \o ins) = Len(del) + Len(ins)
  BY <1>1, ConcatAt, Zenon
<1>4. \A i \in 1 .. Len(del) : (del \o ins)[i] = del[i]
  BY <1>1, ConcatAt, Zenon
<1>5. \A i \in Len(del) + 1 .. Len(del) + Len(ins) : (del \o ins)[i] = ins[i - Len(del)]
  BY <1>1, ConcatAt, Zenon
<1>6. /\ del \o ins \o end \in Seq(S)
      /\ Len(del \o ins \o end) = Len(del \o ins) + Len(end)
  <2>1. ASSUME NEW f, f \in Seq(S)
        PROVE  f \o end \in Seq(S) /\ Len(f \o end) = Len(f) + Len(end)
    BY <1>1, <2>1, ConcatAt, Zenon
  <2> QED
    BY <1>3, <2>1, Zenon
<1>7. /\ \A i \in 1 .. Len(del \o ins) : (del \o ins \o end)[i] = (del \o ins)[i]
      /\ \A i \in Len(del \o ins) + 1 .. Len(del \o ins) + Len(end) :
           (del \o ins \o end)[i] = end[i - Len(del \o ins)]
  <2>1. ASSUME NEW f, f \in Seq(S)
        PROVE  \A i \in 1 .. Len(f) : (f \o end)[i] = f[i]
    BY <1>1, <2>1, ConcatAt, Zenon
  <2>2. ASSUME NEW f, f \in Seq(S)
        PROVE  \A i \in Len(f) + 1 .. Len(f) + Len(end) : (f \o end)[i] = end[i - Len(f)]
    BY <1>1, <2>2, ConcatAt, Zenon
  <2> QED
    BY <1>3, <2>1, <2>2, Zenon
<1>8. Len(del \o ins) = 11
  BY <1>2, <1>3
<1>9. \A i \in 1 .. 6 : (del \o ins \o end)[i] = del[i]
  <2>1. \A i \in 1 .. 6 : (del \o ins)[i] = del[i]
    BY <1>2, <1>4
  <2>2. \A i \in 1 .. 6 : i \in 1 .. Len(del \o ins)
    BY <1>8
  <2> QED
    BY <1>7, <2>1, <2>2, Zenon
<1>10. \A i \in 7 .. 11 : (del \o ins \o end)[i] = ins[i - 6]
  <2>1. \A i \in 7 .. 11 : i \in Len(del) + 1 .. Len(del) + Len(ins) /\ i \in 1 .. Len(del \o ins)
    BY <1>2, <1>8
  <2>2. \A i \in 7 .. 11 : (del \o ins \o end)[i] = ins[i - Len(del)]
    BY <1>5, <1>7, <2>1, Zenon
  <2> QED
    BY <1>2, <2>2, Zenon
<1>11. Len(end) = 1 => (del \o ins \o end)[12] = end[1]
  <2>1. \A i \in Len(del \o ins) + 1 .. Len(del \o ins) + Len(end) :
          (del \o ins \o end)[i] = end[i - Len(del \o ins)]
    BY <1>7, Zenon
  <2>2. Len(end) = 1 => 12 \in Len(del \o ins) + 1 .. Len(del \o ins) + Len(end)
    BY <1>8
  <2>3. 12 - Len(del \o ins) = 1
    BY <1>8
  <2> QED
    BY <2>1, <2>2, <2>3, Zenon
<1>12. Len(del \o ins \o end) = 11 + Len(end)
  BY <1>6, <1>8
<1> QED
  BY <1>6, <1>9, <1>10, <1>11, <1>12, Zenon DEF Pieces

\* Statement s is the one of its table that belongs at place i.
Placed(i, s) ==
  \/ \E t \in Table : i = DeletedAt(t) /\ s = [op |-> "delete", table |-> t]
  \/ \E t \in Table : i = InsertedAt(t) /\ s = [op |-> "insert", table |-> t]

\* What Statements(batch) holds at each place: see Places.
LEMMA StatementOrder ==
  ASSUME NEW batch
  PROVE  /\ Statements(batch) \in Seq(Statement)
         /\ Len(Statements(batch)) = 11 \/ Len(Statements(batch)) = 12
         /\ Len(Statements(batch)) = 11 => Range(batch) \cap Alerting = {}
         /\ \A i \in 1 .. Len(Statements(batch)) : Placed(i, Statements(batch)[i])
<1> DEFINE ins == [i \in DOMAIN Written |-> [op |-> "insert", table |-> Written[i]]]
           end == IF Range(batch) \cap Alerting = {} THEN << >>
                  ELSE <<[op |-> "insert", table |-> "ALERTS"]>>
<1>1. /\ Deletes \in Seq(Statement) /\ Len(Deletes) = 6
      /\ \A i \in 1 .. 6 : \E t \in Table : i = DeletedAt(t) /\ Deletes[i] = [op |-> "delete", table |-> t]
  <2>1. DOMAIN Deleted = 1 .. 6
    BY DEF Deleted
  <2>2. \A i \in 1 .. 6 : Deleted[i] \in Table
    BY <2>1 DEF Table, Range
  <2>3. \A i \in 1 .. 6 : i = DeletedAt(Deleted[i])
    BY DEF Deleted, DeletedAt
  <2>4. PICK n \in Nat : n = 6
    OBVIOUS
  <2>5. /\ Deletes \in [1 .. n -> Statement]
        /\ \A i \in 1 .. 6 : Deletes[i] = [op |-> "delete", table |-> Deleted[i]]
    BY <2>1, <2>2, <2>4 DEF Deletes, Statement
  <2>6. Deletes \in Seq(Statement) /\ Len(Deletes) = n
    BY <2>5, FunctionSequence
  <2>7. \A i \in 1 .. 6 : \E t \in Table : i = DeletedAt(t) /\ Deletes[i] = [op |-> "delete", table |-> t]
    BY <2>2, <2>3, <2>5, Zenon
  <2> QED
    BY <2>4, <2>6, <2>7
<1>2. /\ ins \in Seq(Statement) /\ Len(ins) = 5
      /\ \A i \in 7 .. 11 : \E t \in Table :
           i = InsertedAt(t) /\ ins[i - 6] = [op |-> "insert", table |-> t]
  <2>1. DOMAIN Written = 1 .. 5
    BY DEF Written
  <2>2. \A i \in 1 .. 5 : Written[i] \in Table
    BY <2>1, TableNames DEF Range
  <2>3. \A i \in 1 .. 5 : i + 6 = InsertedAt(Written[i])
    BY DEF Written, InsertedAt
  <2>4. PICK n \in Nat : n = 5
    OBVIOUS
  <2>5. /\ ins \in [1 .. n -> Statement]
        /\ \A i \in 1 .. 5 : ins[i] = [op |-> "insert", table |-> Written[i]]
    BY <2>1, <2>2, <2>4 DEF Statement
  <2>6. ins \in Seq(Statement) /\ Len(ins) = n
    BY <2>5, FunctionSequence
  <2> HIDE DEF ins
  <2>7. \A i \in 7 .. 11 : i - 6 \in 1 .. 5 /\ (i - 6) + 6 = i
    OBVIOUS
  <2>8. \A i \in 7 .. 11 : \E t \in Table :
          i = InsertedAt(t) /\ ins[i - 6] = [op |-> "insert", table |-> t]
    BY <2>2, <2>3, <2>5, <2>7, Zenon
  <2> QED
    BY <2>4, <2>6, <2>8
<1>3. /\ end \in Seq(Statement)
      /\ \/ Len(end) = 0 /\ Range(batch) \cap Alerting = {}
         \/ Len(end) = 1 /\ end[1] = [op |-> "insert", table |-> "ALERTS"]
  <2>1. [op |-> "insert", table |-> "ALERTS"] \in Statement
    BY TableNames DEF Statement
  <2> QED
    BY <2>1
<1>4. Statements(batch) = Deletes \o ins \o end
  BY DEF Statements
<1> HIDE DEF ins, end
<1>5. /\ Statements(batch) \in Seq(Statement)
      /\ Len(Statements(batch)) = 11 + Len(end)
      /\ \A i \in 1 .. 6 : Statements(batch)[i] = Deletes[i]
      /\ \A i \in 7 .. 11 : Statements(batch)[i] = ins[i - 6]
      /\ Len(end) = 1 => Statements(batch)[12] = end[1]
  <2>1. /\ Sized(Statement, Deletes, 6) /\ Sized(Statement, ins, 5)
        /\ Sized(Statement, end, 0) \/ Sized(Statement, end, 1)
    BY <1>1, <1>2, <1>3, Zenon DEF Sized
  <2>2. Pieces(Statement, Deletes \o ins \o end, Deletes, ins, end)
    BY <2>1, ThreePieces, Zenon
  <2> QED
    BY <1>4, <2>2, Zenon DEF Pieces
<1>6. /\ Len(Statements(batch)) = 11 \/ Len(Statements(batch)) = 12
      /\ Len(Statements(batch)) = 11 => Len(end) = 0
      /\ Len(Statements(batch)) = 12 => Len(end) = 1
  <2>1. Len(Statements(batch)) = 11 + Len(end)
    BY <1>5, Zenon
  <2>2. Len(end) = 0 \/ Len(end) = 1
    BY <1>3, Zenon
  <2>3. ASSUME NEW l, NEW m, l = 11 + m, m = 0 \/ m = 1
        PROVE  (l = 11 \/ l = 12) /\ (l = 11 => m = 0) /\ (l = 12 => m = 1)
    BY <2>3
  <2> QED
    BY <2>1, <2>2, <2>3, Zenon
<1>8. Len(Statements(batch)) = 11 => Range(batch) \cap Alerting = {}
  <2>1. 0 # 1
    OBVIOUS
  <2> QED
    BY <1>3, <1>6, <2>1, Zenon
<1>9. ASSUME NEW len, len = 11 \/ len = 12
      PROVE  \A i \in 1 .. len : i \in 1 .. 6 \/ i \in 7 .. 11 \/ (i = 12 /\ len = 12)
  BY <1>9
<1>7. ASSUME NEW i \in 1 .. Len(Statements(batch))
      PROVE  Placed(i, Statements(batch)[i])
  <2>1. \/ i \in 1 .. 6
        \/ i \in 7 .. 11
        \/ i = 12 /\ Len(Statements(batch)) = 12
    BY <1>6, <1>9, Zenon
  <2>2. CASE i \in 1 .. 6
    <3>1. \E t \in Table : i = DeletedAt(t) /\ Deletes[i] = [op |-> "delete", table |-> t]
      BY <1>1, <2>2, Zenon
    <3>2. Statements(batch)[i] = Deletes[i]
      BY <1>5, <2>2, Zenon
    <3> QED
      BY <3>1, <3>2, Zenon DEF Placed
  <2>3. CASE i \in 7 .. 11
    <3>1. \E t \in Table : i = InsertedAt(t) /\ ins[i - 6] = [op |-> "insert", table |-> t]
      BY <1>2, <2>3, Zenon
    <3>2. Statements(batch)[i] = ins[i - 6]
      BY <1>5, <2>3, Zenon
    <3> QED
      BY <3>1, <3>2, Zenon DEF Placed
  <2>4. CASE i = 12 /\ Len(Statements(batch)) = 12
    <3>1. ~ (Len(end) = 0)
      <4>1. 0 # 1
        OBVIOUS
      <4> QED
        BY <1>6, <2>4, <4>1, Zenon
    <3>2. Statements(batch)[12] = [op |-> "insert", table |-> "ALERTS"]
      BY <1>3, <1>5, <1>6, <2>4, <3>1, Zenon
    <3> QED
      BY <2>4, <3>2, Places, Zenon DEF Placed
  <2> QED
    BY <2>1, <2>2, <2>3, <2>4, Zenon
<1> QED
  BY <1>5, <1>6, <1>7, <1>8, Zenon

-----------------------------------------------------------------------------
(* The sequences of the state. *)

\* A sequence is empty exactly when its length is 0.
LEMMA EmptyLength ==
  ASSUME NEW S, NEW s \in Seq(S)
  PROVE  Len(s) \in Nat /\ (s = << >> <=> Len(s) = 0)
OBVIOUS

\* Nothing is in the empty sequence.
LEMMA EmptyRange == Range(<< >>) = {}
BY DEF Range

\* The elements of a sequence are those at its places.
LEMMA RangeOf ==
  ASSUME NEW S, NEW s \in Seq(S)
  PROVE  /\ Range(s) \subseteq S
         /\ \A x : x \in Range(s) <=> \E i \in 1 .. Len(s) : x = s[i]
BY DEF Range

\* What Append does to a log.
LEMMA Appended ==
  ASSUME NEW S, NEW s \in Seq(S), NEW x \in S
  PROVE  /\ Append(s, x) \in Seq(S) /\ Len(Append(s, x)) = Len(s) + 1
         /\ \A i \in 1 .. Len(s) : Append(s, x)[i] = s[i]
BY AppendProperties

\* What Tail leaves of the statements, and what Head takes.
LEMMA HeadAndTail ==
  ASSUME NEW S, NEW s \in Seq(S), s # << >>
  PROVE  /\ Head(s) = s[1] /\ Head(s) \in S
         /\ Tail(s) \in Seq(S) /\ Len(Tail(s)) = Len(s) - 1
         /\ \A i \in 1 .. Len(s) - 1 : Tail(s)[i] = s[i + 1]
<1>1. Head(s) = s[1]
  OBVIOUS
<1> QED
  BY <1>1, HeadTailProperties

\* Records p + 1 to p + n of l are there to be added to b.
CanPoll(S, b, l, p, n) ==
  b \in Seq(S) /\ l \in Seq(S) /\ p \in Nat /\ n \in Nat /\ n > 0 /\ p + n <= Len(l)

\* What a poll adds to the buffer.
LEMMA Polled ==
  ASSUME NEW S, NEW b, NEW l, NEW p, NEW n, CanPoll(S, b, l, p, n)
  PROVE  /\ b \o SubSeq(l, p + 1, p + n) \in Seq(S)
         /\ Len(b \o SubSeq(l, p + 1, p + n)) = Len(b) + n
         /\ Range(b \o SubSeq(l, p + 1, p + n)) = Range(b) \cup {l[o] : o \in p + 1 .. p + n}
<1> USE DEF CanPoll
<1>1. PICK c : c = SubSeq(l, p + 1, p + n)
  OBVIOUS
<1>2. c \in Seq(S)
  BY <1>1
<1>3. Len(c) = n /\ \A i \in 1 .. n : c[i] = l[p + i]
  BY <1>1
<1>4. b \in Seq(S)
  OBVIOUS
<1>5. Range(c) = {l[o] : o \in p + 1 .. p + n}
  <2>1. \A x : x \in Range(c) <=> \E i \in 1 .. Len(c) : x = c[i]
    BY <1>2, RangeOf, Zenon
  <2>2. \A x : x \in Range(c) <=> \E i \in 1 .. n : x = l[p + i]
    BY <1>3, <2>1, Zenon
  <2>3. \A i \in 1 .. n : p + i \in p + 1 .. p + n
    OBVIOUS
  <2>4. \A o \in p + 1 .. p + n : o - p \in 1 .. n /\ p + (o - p) = o
    OBVIOUS
  <2>5. \A x : (\E i \in 1 .. n : x = l[p + i]) <=> \E o \in p + 1 .. p + n : x = l[o]
    BY <2>3, <2>4, Zenon
  <2>6. \A x : x \in Range(c) <=> \E o \in p + 1 .. p + n : x = l[o]
    BY <2>2, <2>5, Zenon
  <2> QED
    BY <2>6
<1>6. Range(b \o c) = Range(b) \cup Range(c)
  BY <1>2, <1>4, RangeConcatenation
<1>7. b \o c \in Seq(S) /\ Len(b \o c) = Len(b) + n
  <2>1. b \o c \in Seq(S) /\ Len(b \o c) = Len(b) + Len(c)
    BY <1>2, <1>4, ConcatAt, Zenon
  <2> QED
    BY <1>3, <2>1, Zenon
<1>8. Range(b \o c) = Range(b) \cup {l[o] : o \in p + 1 .. p + n}
  BY <1>5, <1>6
<1> QED
  BY <1>1, <1>7, <1>8

-----------------------------------------------------------------------------
(* The type invariant. *)

\* The shape of the state, for any number of hands, records and faults.
THEOREM TypesKept == Spec => []TypeOK
<1> USE RealTimeAssumption
<1>1. Init => TypeOK
  <2>1. /\ << >> \in Seq(Hand) /\ << >> \in Seq(Statement)
        /\ Len(<< >>) = 0
    OBVIOUS
  <2>2. SUFFICES ASSUME Init PROVE TypeOK
    OBVIOUS
  <2>3. log \in Seq(Hand) /\ buffer \in Seq(Hand) /\ todo \in Seq(Statement)
    BY <2>1, <2>2, Zenon DEF Init
  <2>4. Len(log) = 0 /\ Len(buffer) = 0 /\ todo = << >> /\ phase = "poll"
    BY <2>1, <2>2, Zenon DEF Init
  <2>5. /\ committed \in {NoOffset} \cup 0 .. Len(log)
        /\ position \in 0 .. Len(log)
        /\ stopping \in BOOLEAN
        /\ faults \in 0 .. MaxFaults
    <3>1. committed = NoOffset /\ position = 0 /\ stopping = FALSE /\ faults = 0
      BY <2>2 DEF Init
    <3>2. position \in 0 .. Len(log)
      BY <2>4, <3>1
    <3>3. faults \in 0 .. MaxFaults
      BY <3>1
    <3> QED
      BY <3>1, <3>2, <3>3, Zenon
  <2>6. rows \in [Table -> [Hand -> Nat]]
    BY <2>2 DEF Init
  <2> QED
    BY <2>3, <2>4, <2>5, <2>6 DEF TypeOK
<1>2. TypeOK /\ [Next]_vars => TypeOK'
  <2>1. SUFFICES ASSUME TypeOK, [Next]_vars PROVE TypeOK'
    OBVIOUS
  <2>2. /\ log \in Seq(Hand) /\ Len(log) <= MaxLog /\ Len(log) \in Nat
        /\ committed \in {NoOffset} \cup 0 .. Len(log)
        /\ position \in 0 .. Len(log)
        /\ buffer \in Seq(Hand) /\ Len(buffer) <= BatchSize /\ Len(buffer) \in Nat
        /\ phase \in {"poll", "write", "commit", "down"}
        /\ stopping \in BOOLEAN
        /\ todo \in Seq(Statement) /\ (todo # << >> <=> phase = "write")
        /\ rows \in [Table -> [Hand -> Nat]]
        /\ faults \in 0 .. MaxFaults
    BY <2>1, EmptyLength DEF TypeOK
  <2>3. << >> \in Seq(Hand) /\ << >> \in Seq(Statement) /\ Len(<< >>) = 0
    OBVIOUS
  <2>4. ASSUME Down, faults' \in 0 .. MaxFaults PROVE TypeOK'
    <3>1. buffer' \in Seq(Hand) /\ todo' \in Seq(Statement) /\ todo' = << >> /\ Len(buffer') = 0
      BY <2>3, <2>4, Zenon DEF Down
    <3>2. /\ log' = log /\ committed' = committed /\ position' = position /\ rows' = rows
          /\ phase' = "down" /\ stopping' = FALSE
      BY <2>4 DEF Down
    <3>3. Len(buffer') <= BatchSize
      BY <3>1
    <3> QED
      BY <2>2, <2>4, <3>1, <3>2, <3>3 DEF TypeOK
  <2>5. ASSUME NEW h \in Hand, Produce(h) PROVE TypeOK'
    <3>1. Append(log, h) \in Seq(Hand) /\ Len(Append(log, h)) = Len(log) + 1
      BY <2>2, Appended
    <3> QED
      BY <2>2, <2>5, <3>1 DEF Produce, TypeOK
  <2>6. ASSUME NEW n \in 1 .. BatchSize, Poll(n) PROVE TypeOK'
    <3>1. /\ n \in Nat /\ n > 0 /\ position \in Nat /\ position + n <= Len(log)
          /\ Len(buffer) + n <= BatchSize
      BY <2>2, <2>6 DEF Poll, Room
    <3>2. buffer' \in Seq(Hand) /\ Len(buffer') = Len(buffer) + n
      BY <2>2, <2>6, <3>1, Polled DEF Poll, CanPoll
    <3> QED
      BY <2>2, <2>6, <3>1, <3>2 DEF Poll, TypeOK
  <2>7. CASE Shutdown
    BY <2>2, <2>7 DEF Shutdown, TypeOK
  <2>8. CASE Flush
    <3>1. Statements(buffer) \in Seq(Statement) /\ Statements(buffer) # << >>
      BY StatementOrder, EmptyLength
    <3> QED
      BY <2>2, <2>4, <2>8, <3>1 DEF Flush, TypeOK
  <2>9. CASE Write
    <3>1. /\ Head(todo) \in Statement /\ Tail(todo) \in Seq(Statement)
          /\ Tail(todo) # << >> <=> Len(todo) # 1
      <4>1. todo # << >> /\ todo \in Seq(Statement)
        BY <2>2, <2>9 DEF Write
      <4>2. /\ Head(todo) \in Statement /\ Tail(todo) \in Seq(Statement)
            /\ Len(Tail(todo)) = Len(todo) - 1 /\ Len(todo) \in Nat
        BY <4>1, HeadAndTail, EmptyLength, Zenon
      <4>3. Tail(todo) = << >> <=> Len(Tail(todo)) = 0
        BY <4>2, EmptyLength, Zenon
      <4>4. Len(Tail(todo)) = 0 <=> Len(todo) = 1
        BY <4>2
      <4> QED
        BY <4>2, <4>3, <4>4, Zenon
    <3>2. ASSUME NEW copies \in [Hand -> Nat]
          PROVE  Apply(Head(todo), copies) \in [Hand -> Nat]
      BY DEF Apply
    <3>3. rows' \in [Table -> [Hand -> Nat]]
      BY <2>2, <2>9, <3>1, <3>2 DEF Write, Statement
    <3> QED
      BY <2>2, <2>9, <3>1, <3>3 DEF Write, TypeOK
  <2>10. CASE Commit
    BY <2>2, <2>3, <2>10 DEF Commit, TypeOK
  <2>11. CASE Stop
    BY <2>2, <2>4, <2>11 DEF Stop
  <2>12. CASE Die
    BY <2>2, <2>4, <2>12 DEF Die
  <2>13. StartOffset \in 0 .. Len(log)
    BY <2>2 DEF StartOffset, NoOffset
  <2>14. CASE Rejoin
    BY <2>2, <2>13, <2>14 DEF Rejoin, TypeOK
  <2>15. CASE Restart
    BY <2>2, <2>13, <2>15 DEF Restart, TypeOK
  <2>16. CASE UNCHANGED vars
    BY <2>1, <2>16 DEF vars, TypeOK
  <2> QED
    BY <2>1, <2>5, <2>6, <2>7, <2>8, <2>9, <2>10, <2>11, <2>12, <2>14, <2>15, <2>16 DEF Next
<1> QED
  BY <1>1, <1>2, PTL DEF Spec

-----------------------------------------------------------------------------
(* How far a batch is written. *)

\* The statements of the batch that are done.
Executed == Len(Statements(buffer)) - Len(todo)

\* The copies of a hand that its batch leaves in a table.
Copies(t, h) == IF t = "ALERTS" /\ h \notin Alerting THEN 0 ELSE 1

\* While a batch is written, todo is what remains of its statements, and a table
\* has no row of its hands between the delete and the append, and one after it.
Progress ==
  phase = "write" =>
    /\ Len(todo) \in 1 .. Len(Statements(buffer))
    /\ \A i \in 1 .. Len(todo) : todo[i] = Statements(buffer)[Executed + i]
    /\ \A t \in Table : \A h \in Range(buffer) :
         /\ DeletedAt(t) <= Executed /\ Executed < InsertedAt(t) => rows[t][h] = 0
         /\ InsertedAt(t) <= Executed => rows[t][h] = Copies(t, h)

\* A batch that is about to be committed is in every table.
BatchWritten == phase = "commit" => \A h \in Range(buffer) : Persisted(h)

WriteInv == TypeOK /\ Progress /\ BatchWritten /\ RowsOnce /\ AlertsBacked

\* What one statement does: it finds its place, and touches one table and the
\* hands of the batch only.
LEMMA OneStatement ==
  ASSUME TypeOK, Progress, Write
  PROVE  /\ Executed \in Nat /\ Executed' = Executed + 1
         /\ buffer' = buffer
         /\ \E t \in Table :
              /\ \A u \in Table \ {t} : rows'[u] = rows[u]
              /\ \A h \in Hand \ Range(buffer) : rows'[t][h] = rows[t][h]
              /\ \/ /\ Executed + 1 = DeletedAt(t)
                    /\ \A h \in Range(buffer) : rows'[t][h] = 0
                 \/ /\ Executed + 1 = InsertedAt(t)
                    /\ \A h \in Range(buffer) : rows'[t][h] = Copies(t, h)
<1>1. /\ phase = "write" /\ buffer' = buffer /\ todo' = Tail(todo)
      /\ rows' = [rows EXCEPT ![Head(todo).table] = Apply(Head(todo), @)]
  BY DEF Write
<1>2. /\ todo \in Seq(Statement) /\ todo # << >>
      /\ buffer \in Seq(Hand) /\ rows \in [Table -> [Hand -> Nat]]
  BY <1>1 DEF TypeOK
<1>3. /\ Len(todo) \in 1 .. Len(Statements(buffer))
      /\ \A i \in 1 .. Len(todo) : todo[i] = Statements(buffer)[Executed + i]
      /\ \A t \in Table : \A h \in Range(buffer) :
           DeletedAt(t) <= Executed /\ Executed < InsertedAt(t) => rows[t][h] = 0
  BY <1>1 DEF Progress
<1>4. Len(Statements(buffer)) = 11 \/ Len(Statements(buffer)) = 12
  BY StatementOrder, Zenon
<1>5. Len(Tail(todo)) = Len(todo) - 1 /\ Head(todo) = todo[1]
  BY <1>2, HeadAndTail, Zenon
<1>6. /\ Executed \in Nat /\ Executed + 1 \in 1 .. Len(Statements(buffer))
      /\ 1 \in 1 .. Len(todo)
  BY <1>3, <1>4 DEF Executed
<1>7. Executed' = Executed + 1
  <2>1. Executed' = Len(Statements(buffer)) - Len(Tail(todo))
    BY <1>1, Zenon DEF Executed
  <2>2. Len(todo) \in Int /\ Len(Statements(buffer)) \in Int
    BY <1>3, <1>4
  <2>3. ASSUME NEW a \in Int, NEW b \in Int
        PROVE  a - (b - 1) = (a - b) + 1
    OBVIOUS
  <2> QED
    BY <1>5, <2>1, <2>2, <2>3, Zenon DEF Executed
<1>8. Head(todo) = Statements(buffer)[Executed + 1]
  BY <1>3, <1>5, <1>6, Zenon
<1>9. /\ Range(buffer) \subseteq Hand
      /\ \A t \in Table : rows[t] \in [Hand -> Nat]
  BY <1>2, RangeOf
<1>10. \/ \E t \in Table : Executed + 1 = DeletedAt(t) /\ Head(todo) = [op |-> "delete", table |-> t]
       \/ \E t \in Table : Executed + 1 = InsertedAt(t) /\ Head(todo) = [op |-> "insert", table |-> t]
  <2>1. Placed(Executed + 1, Statements(buffer)[Executed + 1])
    BY <1>6, StatementOrder, Zenon
  <2>2. Placed(Executed + 1, Head(todo))
    BY <1>8, <2>1, Zenon
  <2> QED
    BY <2>2, Zenon DEF Placed
<1>11. ASSUME NEW t \in Table, Executed + 1 = DeletedAt(t),
              Head(todo) = [op |-> "delete", table |-> t]
       PROVE  /\ \A u \in Table \ {t} : rows'[u] = rows[u]
              /\ \A h \in Hand \ Range(buffer) : rows'[t][h] = rows[t][h]
              /\ \A h \in Range(buffer) : rows'[t][h] = 0
  <2>1. rows'[t] = Apply(Head(todo), rows[t]) /\ \A u \in Table \ {t} : rows'[u] = rows[u]
    BY <1>1, <1>2, <1>11
  <2> QED
    BY <1>9, <1>11, <2>1 DEF Apply
<1>12. ASSUME NEW t \in Table, Executed + 1 = InsertedAt(t),
              Head(todo) = [op |-> "insert", table |-> t]
       PROVE  /\ \A u \in Table \ {t} : rows'[u] = rows[u]
              /\ \A h \in Hand \ Range(buffer) : rows'[t][h] = rows[t][h]
              /\ \A h \in Range(buffer) : rows'[t][h] = Copies(t, h)
  <2>1. rows'[t] = Apply(Head(todo), rows[t]) /\ \A u \in Table \ {t} : rows'[u] = rows[u]
    BY <1>1, <1>2, <1>12
  <2>2. DeletedAt(t) <= Executed /\ Executed < InsertedAt(t)
    BY <1>6, <1>12, Places
  <2>3. \A h \in Range(buffer) : rows[t][h] = 0
    BY <1>3, <2>2, Zenon
  <2> QED
    BY <1>9, <1>12, <2>1, <2>3 DEF Apply, Copies
<1> QED
  BY <1>1, <1>6, <1>7, <1>10, <1>11, <1>12, Zenon

\* A statement keeps the write invariant, and the last one leaves the batch written.
LEMMA WriteKeeps ==
  ASSUME WriteInv, Write, TypeOK'
  PROVE  Progress' /\ BatchWritten' /\ RowsOnce' /\ AlertsBacked'
<1>1. /\ TypeOK /\ Progress /\ RowsOnce /\ AlertsBacked
      /\ phase = "write" /\ todo' = Tail(todo)
      /\ phase' = IF Len(todo) = 1 THEN "commit" ELSE "write"
  BY DEF WriteInv, Write
<1>2. /\ todo \in Seq(Statement) /\ todo # << >>
      /\ buffer \in Seq(Hand) /\ rows \in [Table -> [Hand -> Nat]]
      /\ rows' \in [Table -> [Hand -> Nat]]
  BY <1>1 DEF TypeOK
<1>3. /\ Executed \in Nat /\ Executed' = Executed + 1 /\ buffer' = buffer
      /\ Range(buffer) \subseteq Hand
  BY <1>1, <1>2, OneStatement, RangeOf
<1>4. PICK t \in Table :
        /\ \A u \in Table \ {t} : rows'[u] = rows[u]
        /\ \A h \in Hand \ Range(buffer) : rows'[t][h] = rows[t][h]
        /\ \/ /\ Executed + 1 = DeletedAt(t)
              /\ \A h \in Range(buffer) : rows'[t][h] = 0
           \/ /\ Executed + 1 = InsertedAt(t)
              /\ \A h \in Range(buffer) : rows'[t][h] = Copies(t, h)
  BY <1>1, OneStatement, Zenon
<1>5. \A u \in Table : \A h \in Range(buffer) :
        /\ DeletedAt(u) <= Executed /\ Executed < InsertedAt(u) => rows[u][h] = 0
        /\ InsertedAt(u) <= Executed => rows[u][h] = Copies(u, h)
  BY <1>1 DEF Progress
\* The tables after the statement.
<1>6. ASSUME NEW u \in Table, NEW h \in Range(buffer)
      PROVE  /\ DeletedAt(u) <= Executed + 1 /\ Executed + 1 < InsertedAt(u) => rows'[u][h] = 0
             /\ InsertedAt(u) <= Executed + 1 => rows'[u][h] = Copies(u, h)
  <2>1. CASE u = t
    BY <1>3, <1>4, <2>1, Places
  <2>2. CASE u # t
    <3>1. rows'[u] = rows[u]
      BY <1>4, <2>2
    <3>2. DeletedAt(u) <= Executed + 1 /\ Executed + 1 < InsertedAt(u)
          => DeletedAt(u) <= Executed /\ Executed < InsertedAt(u)
      BY <1>3, <1>4, <2>2, Places
    <3>3. InsertedAt(u) <= Executed + 1 => InsertedAt(u) <= Executed
      BY <1>3, <1>4, <2>2, Places
    <3> QED
      BY <1>5, <3>1, <3>2, <3>3, Zenon
  <2> QED
    BY <2>1, <2>2
<1>7. \A u \in Table, h \in Hand \ Range(buffer) : rows'[u][h] = rows[u][h]
  BY <1>4
<1>8. RowsOnce'
  <2>1. \A u \in Table, h \in Hand : rows[u][h] <= 1
    BY <1>1 DEF RowsOnce
  <2>2. ASSUME NEW u \in Table, NEW h \in Hand
        PROVE  rows'[u][h] <= 1
    BY <1>4, <2>1 DEF Copies
  <2> QED
    BY <2>2 DEF RowsOnce
<1>9. AlertsBacked'
  <2>1. SUFFICES ASSUME NEW h \in Hand, rows'["ALERTS"][h] > 0, NEW u \in Range(Written)
                 PROVE  rows'[u][h] > 0
    BY DEF AlertsBacked
  <2>2. u \in Table /\ u # "ALERTS" /\ InsertedAt(u) < 12 /\ DeletedAt(u) \in 1 .. 6
    BY Places
  <2>3. rows["ALERTS"][h] > 0 => rows[u][h] > 0
    BY <1>1 DEF AlertsBacked
  <2>4. CASE h \notin Range(buffer)
    <3>1. rows'["ALERTS"][h] = rows["ALERTS"][h] /\ rows'[u][h] = rows[u][h]
      BY <1>7, <2>2, <2>4, Places
    <3> QED
      BY <2>1, <2>3, <3>1
  <2>5. CASE h \in Range(buffer)
    <3>1. Executed + 1 >= 12
      BY <1>3, <1>6, <2>1, <2>5, Places
    <3>2. rows'[u][h] = Copies(u, h)
      BY <1>3, <1>6, <2>2, <2>5, <3>1, Places
    <3> QED
      BY <2>2, <3>2 DEF Copies
  <2> QED
    BY <2>4, <2>5
<1>10. /\ Len(Statements(buffer)) = 11 \/ Len(Statements(buffer)) = 12
       /\ Len(todo) \in 1 .. Len(Statements(buffer))
       /\ \A i \in 1 .. Len(todo) : todo[i] = Statements(buffer)[Executed + i]
  BY <1>1, StatementOrder, Zenon DEF Progress
<1>11. /\ Len(todo') = Len(todo) - 1
       /\ \A i \in 1 .. Len(todo) - 1 : todo'[i] = todo[i + 1]
  BY <1>1, <1>2, HeadAndTail, Zenon
<1>12. Progress'
  <2>1. SUFFICES ASSUME phase' = "write"
                 PROVE  /\ Len(todo') \in 1 .. Len(Statements(buffer))
                        /\ \A i \in 1 .. Len(todo') : todo'[i] = Statements(buffer)[Executed' + i]
                        /\ \A u \in Table : \A h \in Range(buffer) :
                             /\ DeletedAt(u) <= Executed' /\ Executed' < InsertedAt(u)
                                => rows'[u][h] = 0
                             /\ InsertedAt(u) <= Executed' => rows'[u][h] = Copies(u, h)
    BY <1>3, Zenon DEF Progress
  <2>2. Len(todo) # 1
    BY <1>1, <2>1
  <2>3. /\ Len(todo') \in 1 .. Len(Statements(buffer))
        /\ \A i \in 1 .. Len(todo') : i \in 1 .. Len(todo) - 1 /\ i + 1 \in 1 .. Len(todo)
    BY <1>10, <1>11, <2>2
  <2>4. \A i \in 1 .. Len(todo') : todo'[i] = Statements(buffer)[Executed + (i + 1)]
    BY <1>10, <1>11, <2>3, Zenon
  <2>5. \A i \in 1 .. Len(todo') : Executed + (i + 1) = Executed' + i
    BY <1>3
  <2>6. \A i \in 1 .. Len(todo') : todo'[i] = Statements(buffer)[Executed' + i]
    BY <2>4, <2>5, Zenon
  <2> QED
    BY <1>3, <1>6, <2>3, <2>6, Zenon
<1>13. BatchWritten'
  <2>1. SUFFICES ASSUME phase' = "commit", NEW h \in Range(buffer)
                 PROVE  Persisted(h)'
    BY <1>3, Zenon DEF BatchWritten
  <2>2. Len(todo) = 1 /\ Executed + 1 = Len(Statements(buffer))
    BY <1>1, <1>10, <2>1 DEF Executed
  <2>3. Executed + 1 = 11 \/ Executed + 1 = 12
    BY <1>10, <2>2
  <2>4. \A u \in Range(Written) : rows'[u][h] = 1
    BY <1>6, <2>3, Places DEF Copies
  <2>5. rows'["ALERTS"][h] = IF h \in Alerting THEN 1 ELSE 0
    <3>1. CASE Executed + 1 = 12
      BY <1>6, <3>1, Places DEF Copies
    <3>2. CASE Executed + 1 = 11
      <4>1. h \notin Alerting
        BY <2>2, <3>2, StatementOrder
      <4>2. rows'["ALERTS"][h] = 0
        BY <1>6, <3>2, Places
      <4> QED
        BY <4>1, <4>2
    <3> QED
      BY <2>3, <3>1, <3>2
  <2> QED
    BY <2>4, <2>5 DEF Persisted
<1> QED
  BY <1>8, <1>9, <1>12, <1>13

\* Every other step leaves the tables alone, and only a flush starts a batch.
LEMMA WriteInvKept ==
  ASSUME WriteInv, [Next]_vars, TypeOK'
  PROVE  WriteInv'
<1>1. /\ TypeOK /\ Progress /\ BatchWritten /\ RowsOnce /\ AlertsBacked
  BY DEF WriteInv
<1>2. rows' = rows => RowsOnce' /\ AlertsBacked'
  BY <1>1 DEF RowsOnce, AlertsBacked
<1>3. /\ phase' \notin {"write", "commit"} => Progress' /\ BatchWritten'
      /\ phase' = "commit" => Progress'
      /\ phase' = "write" => BatchWritten'
  BY DEF Progress, BatchWritten
<1>4. /\ phase' = phase /\ buffer' = buffer /\ todo' = todo /\ rows' = rows
      => Progress' /\ BatchWritten'
  BY <1>1 DEF Progress, BatchWritten, Executed, Persisted
<1>5. Down => phase' = "down" /\ rows' = rows
  BY DEF Down
<1>6. ASSUME NEW h \in Hand, Produce(h) PROVE WriteInv'
  BY <1>2, <1>4, <1>6 DEF Produce, WriteInv
<1>7. ASSUME NEW n \in 1 .. BatchSize, Poll(n) PROVE WriteInv'
  BY <1>2, <1>3, <1>7 DEF Poll, WriteInv
<1>8. CASE Shutdown
  BY <1>2, <1>3, <1>8 DEF Shutdown, WriteInv
<1>9. CASE Flush
  <2>1. CASE Down
    BY <1>2, <1>3, <1>5, <2>1 DEF WriteInv
  <2>2. CASE ~ Down
    <3>1. /\ phase' = "write" /\ todo' = Statements(buffer)
          /\ buffer' = buffer /\ rows' = rows
      BY <1>9, <2>2 DEF Flush
    <3>2. Len(Statements(buffer)) = 11 \/ Len(Statements(buffer)) = 12
      BY StatementOrder, Zenon
    <3>3. Executed' = Len(Statements(buffer)) - Len(Statements(buffer))
      BY <3>1, Zenon DEF Executed
    <3>4. Executed' = 0
      BY <3>2, <3>3
    <3>5. \A i \in 1 .. Len(Statements(buffer)) : i = Executed' + i
      BY <3>2, <3>4
    <3>6. /\ Len(todo') \in 1 .. Len(Statements(buffer'))
          /\ \A i \in 1 .. Len(todo') : todo'[i] = Statements(buffer')[Executed' + i]
      <4>1. Len(Statements(buffer)) \in 1 .. Len(Statements(buffer))
        BY <3>2
      <4> QED
        BY <3>1, <3>5, <4>1, Zenon
    <3>7. \A t \in Table : ~ (DeletedAt(t) <= Executed') /\ ~ (InsertedAt(t) <= Executed')
      BY <3>4, Places
    <3>8. Progress'
      BY <3>6, <3>7, Zenon DEF Progress
    <3> QED
      BY <1>2, <1>3, <3>1, <3>8 DEF WriteInv
  <2> QED
    BY <2>1, <2>2
<1>10. CASE Write
  BY <1>10, WriteKeeps DEF WriteInv
<1>11. CASE Commit
  BY <1>2, <1>3, <1>11 DEF Commit, WriteInv
<1>12. CASE Stop
  BY <1>2, <1>3, <1>5, <1>12 DEF Stop, WriteInv
<1>13. CASE Die
  BY <1>2, <1>3, <1>5, <1>13 DEF Die, WriteInv
<1>14. CASE Rejoin
  BY <1>2, <1>3, <1>14 DEF Rejoin, WriteInv
<1>15. CASE Restart
  BY <1>2, <1>3, <1>15 DEF Restart, WriteInv
<1>16. CASE UNCHANGED vars
  BY <1>2, <1>4, <1>16 DEF vars, WriteInv
<1> QED
  BY <1>6, <1>7, <1>8, <1>9, <1>10, <1>11, <1>12, <1>13, <1>14, <1>15, <1>16 DEF Next

\* The write invariant holds of every state.
LEMMA WriteInvHolds == Spec => []WriteInv
<1>1. Init /\ TypeOK => WriteInv
  <2>1. SUFFICES ASSUME Init, TypeOK PROVE WriteInv
    OBVIOUS
  <2>2. phase = "poll" /\ \A t \in Table, h \in Hand : rows[t][h] = 0
    BY <2>1 DEF Init
  <2>3. Progress /\ BatchWritten
    BY <2>2 DEF Progress, BatchWritten
  <2>4. RowsOnce /\ AlertsBacked
    BY <2>2, Places DEF RowsOnce, AlertsBacked
  <2> QED
    BY <2>1, <2>3, <2>4 DEF WriteInv
<1>2. WriteInv /\ [Next]_vars /\ TypeOK' => WriteInv'
  BY WriteInvKept
<1> QED
  BY <1>1, <1>2, TypesKept, PTL DEF Spec

\* However often a batch is replayed, and wherever a write of it was interrupted,
\* the keyless tables never hold a hand twice.
THEOREM RowsOnceHolds == Spec => []RowsOnce
<1>1. WriteInv => RowsOnce
  BY DEF WriteInv
<1> QED
  BY <1>1, WriteInvHolds, PTL

\* Between any two statements, also of an interrupted batch, an alert has its
\* hand's rows in every history table.
THEOREM AlertsBackedHolds == Spec => []AlertsBacked
<1>1. WriteInv => AlertsBacked
  BY DEF WriteInv
<1> QED
  BY <1>1, WriteInvHolds, PTL

-----------------------------------------------------------------------------
(* What the committed offset passed. *)

\* The first offset that is not committed.
Start == IF committed = NoOffset THEN 0 ELSE committed

\* What is in the buffer was fetched from an offset that is not committed.
Buffered == \A h \in Range(buffer) : \E q \in Start + 1 .. Len(log) : log[q] = h

\* Every record from the committed offset to the position is in the buffer.
Fetched ==
  phase # "down" => /\ Start <= position
                    /\ \A q \in Start + 1 .. position : log[q] \in Range(buffer)

\* CommittedPersisted says this of every committed offset.
Passed(o) == Persisted(log[o]) \/ \E q \in committed + 1 .. Len(log) : log[q] = log[o]

OffsetInv == Buffered /\ Fetched /\ CommittedPersisted

\* Steps of the loop, the faults included, keep the offset invariant.
LEMMA OffsetInvKept ==
  ASSUME FromBeginning, OffsetInv, WriteInv, [Next]_vars
  PROVE  OffsetInv'
<1> USE RealTimeAssumption
<1>1. Buffered /\ Fetched /\ CommittedPersisted /\ TypeOK /\ BatchWritten
  BY DEF OffsetInv, WriteInv
<1>2. /\ log \in Seq(Hand) /\ buffer \in Seq(Hand) /\ Len(log) \in Nat
      /\ committed \in {NoOffset} \cup 0 .. Len(log)
      /\ position \in 0 .. Len(log)
  BY <1>1, EmptyLength DEF TypeOK
<1>3. /\ Start \in 0 .. Len(log) /\ StartOffset = Start
      /\ committed >= 1 => Start = committed
      /\ committed \in Int /\ Range(buffer) \subseteq Hand
  BY <1>2, RangeOf DEF Start, StartOffset, NoOffset
<1>4. /\ committed' = committed /\ log' = log => Start' = Start
  BY DEF Start
\* Steps that keep log, offset and tables.
<1>5. /\ log' = log /\ committed' = committed /\ rows' = rows
      => CommittedPersisted'
  BY <1>1 DEF CommittedPersisted, Persisted
<1>6. /\ log' = log /\ committed' = committed /\ buffer' = buffer
      => Buffered'
  BY <1>1, <1>4 DEF Buffered
<1>7. Down => Buffered' /\ Fetched' /\ CommittedPersisted'
  <2>1. SUFFICES ASSUME Down PROVE Buffered' /\ Fetched' /\ CommittedPersisted'
    OBVIOUS
  <2>2. Range(buffer') = {} /\ phase' = "down"
    BY <2>1, EmptyRange DEF Down
  <2> QED
    BY <1>5, <2>1, <2>2 DEF Down, Buffered, Fetched
<1>8. ASSUME NEW h \in Hand, Produce(h) PROVE OffsetInv'
  <2>1. /\ log' = Append(log, h) /\ committed' = committed /\ position' = position
        /\ buffer' = buffer /\ phase' = phase /\ rows' = rows
    BY <1>8 DEF Produce
  <2>2. Len(log') = Len(log) + 1 /\ \A q \in 1 .. Len(log) : log'[q] = log[q]
    BY <1>2, <2>1, Appended, Zenon
  <2>3. Start' = Start
    BY <2>1 DEF Start
  <2>4. Buffered'
    <3>1. \A q \in Start + 1 .. Len(log) : q \in Start + 1 .. Len(log') /\ q \in 1 .. Len(log)
      BY <1>2, <1>3, <2>2
    <3> QED
      BY <1>1, <2>1, <2>2, <2>3, <3>1, Zenon DEF Buffered
  <2>5. Fetched'
    <3>1. \A q \in Start + 1 .. position : q \in 1 .. Len(log)
      BY <1>2, <1>3
    <3> QED
      BY <1>1, <2>1, <2>2, <2>3, <3>1, Zenon DEF Fetched
  <2>6. CommittedPersisted'
    <3>1. /\ \A o \in 1 .. committed : o \in 1 .. Len(log)
          /\ \A q \in committed + 1 .. Len(log) : q \in committed + 1 .. Len(log')
          /\ committed >= 1 => \A q \in committed + 1 .. Len(log) : q \in 1 .. Len(log)
      BY <1>2, <1>3, <2>2 DEF NoOffset
    <3>2. ASSUME NEW o \in 1 .. committed
          PROVE  Passed(o)'
      <4>1. committed >= 1
        BY <1>3
      <4>2. log'[o] = log[o]
        BY <2>2, <3>1
      <4>3. CASE Persisted(log[o])
        BY <2>1, <4>2, <4>3 DEF Persisted, Passed
      <4>4. CASE \E q \in committed + 1 .. Len(log) : log[q] = log[o]
        BY <2>1, <2>2, <3>1, <4>1, <4>2, <4>4, Zenon DEF Passed
      <4> QED
        BY <1>1, <4>3, <4>4 DEF CommittedPersisted
    <3> QED
      BY <2>1, <3>2, Zenon DEF CommittedPersisted, Passed
  <2> QED
    BY <2>4, <2>5, <2>6 DEF OffsetInv
<1>9. ASSUME NEW n \in 1 .. BatchSize, Poll(n) PROVE OffsetInv'
  <2>1. /\ log' = log /\ committed' = committed /\ rows' = rows /\ phase = "poll"
        /\ position' = position + n /\ position + n <= Len(log)
        /\ buffer' = buffer \o SubSeq(log, position + 1, position + n)
    BY <1>9 DEF Poll
  <2>2. n \in Nat /\ n > 0 /\ position \in Nat
    BY <1>2
  <2>3. \A x : x \in Range(buffer') <=> x \in Range(buffer) \/ \E o \in position + 1 .. position + n : x = log[o]
    <3>1. Range(buffer') = Range(buffer) \cup {log[o] : o \in position + 1 .. position + n}
      <4>1. CanPoll(Hand, buffer, log, position, n)
        BY <1>2, <2>1, <2>2, Zenon DEF CanPoll
      <4>2. Range(buffer \o SubSeq(log, position + 1, position + n))
            = Range(buffer) \cup {log[o] : o \in position + 1 .. position + n}
        BY <4>1, Polled
      <4> QED
        BY <2>1, <4>2, Zenon
    <3> QED
      BY <3>1
  <2>4. /\ Start' = Start /\ Start <= position
        /\ \A q \in Start + 1 .. position : log[q] \in Range(buffer)
    BY <1>1, <1>4, <2>1 DEF Fetched
  <2>5. Buffered'
    <3>1. \A o \in position + 1 .. position + n : o \in Start + 1 .. Len(log)
      BY <1>3, <2>1, <2>2, <2>4
    <3> QED
      BY <1>1, <2>1, <2>3, <2>4, <3>1, Zenon DEF Buffered
  <2>6. Fetched'
    <3>1. \A q \in Start + 1 .. position + n : q \in Start + 1 .. position \/ q \in position + 1 .. position + n
      BY <1>3, <2>2
    <3>2. \A q \in Start + 1 .. position + n : log[q] \in Range(buffer')
      BY <2>3, <2>4, <3>1, Zenon
    <3>3. Start <= position + n
      BY <1>3, <2>2, <2>4
    <3> QED
      BY <2>1, <2>4, <3>2, <3>3, Zenon DEF Fetched
  <2> QED
    BY <1>5, <2>1, <2>5, <2>6 DEF OffsetInv
<1>10. /\ log' = log /\ committed' = committed /\ buffer' = buffer /\ position' = position
       /\ phase # "down"
       => Fetched'
  BY <1>1, <1>4 DEF Fetched
<1>11. CASE Shutdown
  BY <1>5, <1>6, <1>10, <1>11 DEF Shutdown, OffsetInv
<1>12. CASE Flush
  BY <1>5, <1>6, <1>7, <1>10, <1>12 DEF Flush, OffsetInv
<1>13. CASE Write
  <2>1. /\ log' = log /\ committed' = committed /\ buffer' = buffer /\ position' = position
        /\ phase = "write"
    BY <1>13 DEF Write
  <2>2. \A h \in Hand \ Range(buffer) : \A t \in Table : rows'[t][h] = rows[t][h]
    BY <1>1, <1>13, OneStatement DEF WriteInv
  <2>3. ASSUME NEW o \in 1 .. committed PROVE Passed(o)'
    <3>1. log[o] \in Hand /\ Start = committed
      BY <1>2, <1>3
    <3>2. CASE log[o] \in Range(buffer)
      BY <1>1, <2>1, <3>1, <3>2 DEF Buffered, Passed
    <3>3. CASE log[o] \notin Range(buffer)
      <4>1. Passed(o)
        BY <1>1 DEF CommittedPersisted, Passed
      <4>2. Persisted(log[o]) => Persisted(log[o])'
        BY <2>1, <2>2, <3>1, <3>3, Places DEF Persisted
      <4> QED
        BY <2>1, <4>1, <4>2 DEF Passed
    <3> QED
      BY <3>2, <3>3
  <2>4. CommittedPersisted'
    BY <2>1, <2>3, Zenon DEF CommittedPersisted, Passed
  <2> QED
    BY <1>6, <1>10, <2>1, <2>4 DEF OffsetInv
<1>14. CASE Commit
  <2>1. /\ log' = log /\ committed' = position /\ position' = position /\ rows' = rows
        /\ buffer' = << >> /\ phase = "commit"
    BY <1>14 DEF Commit
  <2>2. Start' = position /\ position \in Nat
    BY <1>2, <2>1 DEF Start, NoOffset
  <2>3. Buffered' /\ Fetched'
    BY <2>1, <2>2, EmptyRange DEF Buffered, Fetched
  <2>4. \A q \in Start + 1 .. position : Persisted(log[q])
    BY <1>1, <2>1 DEF Fetched, BatchWritten
  <2>5. ASSUME NEW o \in 1 .. position PROVE Passed(o)'
    <3>1. \A h : Persisted(h) => Persisted(h)'
      BY <2>1 DEF Persisted
    <3>2. SUFFICES Persisted(log[o]) \/ \E q \in position + 1 .. Len(log) : log[q] = log[o]
      BY <2>1, <3>1, Zenon DEF Passed
    <3>3. CASE o \in Start + 1 .. position
      BY <2>4, <3>3
    <3>4. CASE o \notin Start + 1 .. position
      <4>1. o \in 1 .. committed /\ Start = committed
        BY <1>2, <1>3, <3>4 DEF Start
      <4>2. Passed(o)
        BY <1>1, <4>1, Zenon DEF CommittedPersisted, Passed
      <4>3. CASE Persisted(log[o])
        BY <4>3
      <4>4. CASE \E q \in committed + 1 .. Len(log) : log[q] = log[o]
        <5>1. PICK q \in committed + 1 .. Len(log) : log[q] = log[o]
          BY <4>4
        <5>2. q \in Start + 1 .. position \/ q \in position + 1 .. Len(log)
          BY <1>2, <1>3, <4>1
        <5> QED
          BY <2>4, <5>1, <5>2, Zenon
      <4> QED
        BY <4>2, <4>3, <4>4 DEF Passed
    <3> QED
      BY <3>3, <3>4
  <2>6. CommittedPersisted'
    BY <2>1, <2>5, Zenon DEF CommittedPersisted, Passed
  <2> QED
    BY <2>3, <2>6 DEF OffsetInv
<1>15. CASE Stop
  BY <1>7, <1>15 DEF Stop, OffsetInv
<1>16. CASE Die
  BY <1>7, <1>16 DEF Die, OffsetInv
<1>17. log' = log /\ committed' = committed /\ position' = Start => Fetched'
  <2>1. \A q \in Start + 1 .. Start : FALSE
    BY <1>3
  <2>2. Start <= Start
    BY <1>3
  <2> QED
    BY <1>4, <2>1, <2>2, Zenon DEF Fetched
<1>18. CASE Rejoin
  BY <1>3, <1>5, <1>6, <1>17, <1>18 DEF Rejoin, OffsetInv
<1>19. CASE Restart
  BY <1>3, <1>5, <1>6, <1>17, <1>19 DEF Restart, OffsetInv
<1>20. CASE UNCHANGED vars
  BY <1>1, <1>4, <1>5, <1>6, <1>20 DEF vars, Fetched, OffsetInv
<1> QED
  BY <1>8, <1>9, <1>11, <1>12, <1>13, <1>14, <1>15, <1>16, <1>18, <1>19, <1>20 DEF Next

\* With --from-beginning: whichever statement the process died in, and however
\* often, a hand below the committed offset is in every table, or a copy of it at
\* or above that offset is still to rewrite them.
THEOREM CommittedPersistedHolds ==
  ASSUME FromBeginning
  PROVE  Spec => []CommittedPersisted
<1>1. Init => OffsetInv
  <2>1. SUFFICES ASSUME Init PROVE OffsetInv
    OBVIOUS
  <2>2. Range(buffer) = {} /\ Start = 0 /\ position = 0 /\ committed = NoOffset
    BY <2>1, EmptyRange DEF Init, Start
  <2>3. \A o \in 1 .. committed : FALSE
    BY <2>2 DEF NoOffset
  <2> QED
    BY <2>2, <2>3 DEF OffsetInv, Buffered, Fetched, CommittedPersisted
<1>2. OffsetInv /\ WriteInv /\ [Next]_vars => OffsetInv'
  BY OffsetInvKept
<1>3. OffsetInv => CommittedPersisted
  BY DEF OffsetInv
<1> QED
  BY <1>1, <1>2, <1>3, WriteInvHolds, PTL DEF Spec
=============================================================================
