-------------------------- MODULE StatementsProofs --------------------------
(* Proofs about the names that a Connection hands out (Statements). *)
EXTENDS Statements, ModularCounter

\* What the counter holds once n names were taken from it.
CounterAfter(n) == (n % IntMax) + 1

LEMMA CounterAfterType ==
  ASSUME NEW n \in Nat
  PROVE  CounterAfter(n) \in 1 .. IntMax
<1>1. IntMax \in Nat \ {0}
  BY NameSpaceAssumption
<1>2. n % IntMax \in 0 .. (IntMax - 1)
  BY <1>1, DivMod
<1> QED
  BY <1>1, <1>2 DEF CounterAfter

\* The counter runs through 1 .. IntMax, over and over.
LEMMA NextCounterAfter ==
  ASSUME NEW n \in Nat
  PROVE  NextCounter(CounterAfter(n)) = CounterAfter(n + 1)
<1>1. IntMax \in Nat \ {0}
  BY NameSpaceAssumption
<1>2. n % IntMax \in 0 .. (IntMax - 1)
  BY <1>1, DivMod
<1>3. (n + 1) % IntMax = IF n % IntMax = IntMax - 1 THEN 0 ELSE (n % IntMax) + 1
  BY <1>1, ModSuccessor
<1> QED
  BY <1>1, <1>2, <1>3 DEF CounterAfter, NextCounter

LEMMA NameType ==
  ASSUME NEW n \in Nat
  PROVE  Name(n) \in 0 .. (NameSpace - 1)
<1>1. NameSpace \in Nat \ {0}
  BY NameSpaceAssumption
<1> QED
  BY <1>1, DivMod DEF Name

\* The largest integer is one less than a multiple of NameSpace.
LEMMA IntMaxShape ==
  \E q \in Nat \ {0} : IntMax + 1 = NameSpace * q
<1>1. /\ NameSpace \in Nat \ {0} /\ IntMax + 1 \in Nat
      /\ (IntMax + 1) % NameSpace = 0 /\ IntMax \in Nat \ {0}
  BY NameSpaceAssumption
<1>2. PICK q \in Nat : IntMax + 1 = (NameSpace * q) + 0
  BY <1>1, DivMod
<1>3. q # 0 /\ NameSpace * q \in Nat
  BY <1>1, <1>2
<1>4. IntMax + 1 = NameSpace * q
  BY <1>2, <1>3
<1> QED
  BY <1>3, <1>4

\* A whole number of turns changes no remainder.
LEMMA ModWholeTurns ==
  ASSUME NEW M \in Nat \ {0}, NEW a \in Nat, NEW q \in Nat
  PROVE  (a + (M * q)) % M = a % M
<1> DEFINE p == a \div M
           r == a % M
<1>1. p \in Nat /\ r \in 0 .. (M - 1) /\ a = (M * p) + r
  BY DivMod
<1>2. p + q \in Int /\ a + (M * q) = (M * (p + q)) + r
  BY <1>1
<1>3. ((M * (p + q)) + r) % M = r
  BY <1>1, <1>2, ModOfSum
<1> QED
  BY <1>2, <1>3

\* Names that are taken fewer than NameSpace - 1 apart differ.
LEMMA NearNamesDiffer ==
  ASSUME NEW s \in Nat, NEW t \in Nat, s < t, t - s < NameSpace - 1
  PROVE  Name(CounterAfter(s)) # Name(CounterAfter(t))
<1>0. IntMax \in Nat \ {0} /\ NameSpace \in Nat \ {0}
  BY NameSpaceAssumption
<1>1. PICK q \in Nat \ {0} : IntMax + 1 = NameSpace * q
  BY IntMaxShape
<1>2. PICK d \in Nat : d = t - s
  OBVIOUS
<1>3. d >= 1 /\ d < NameSpace - 1
  BY <1>2
<1>4. NameSpace * q >= NameSpace
  BY <1>0, <1>1
<1>5. d < IntMax
  BY <1>0, <1>1, <1>3, <1>4
<1>6. PICK a \in 0 .. (IntMax - 1) : a = s % IntMax
  BY <1>0, DivMod
<1>7. PICK p \in Nat : s = (IntMax * p) + a
  BY <1>0, <1>6, DivMod
<1>a. IntMax * p \in Nat
  BY <1>0
<1>8. CASE a + d < IntMax
  <2>1. t = (IntMax * p) + (a + d) /\ a + d \in 0 .. (IntMax - 1)
    BY <1>0, <1>2, <1>7, <1>8, <1>a
  <2>2. t % IntMax = a + d
    <3>1. ((IntMax * p) + (a + d)) % IntMax = a + d
      BY <1>0, <2>1, ModOfSum
    <3> QED
      BY <2>1, <3>1
  <2>3. (a + 1) % NameSpace # (a + d + 1) % NameSpace
    <3>1. /\ a + 1 \in Nat /\ a + d + 1 \in Nat /\ a + 1 < a + d + 1
          /\ (a + d + 1) - (a + 1) < NameSpace
      BY <1>0, <1>3
    <3> QED
      BY ONLY <1>0, <3>1, ModDistinct
  <2> QED
    BY <1>6, <2>2, <2>3 DEF Name, CounterAfter
<1>9. CASE a + d >= IntMax
  <2>1. PICK b \in 0 .. (IntMax - 1) : b = a + d - IntMax
    BY <1>0, <1>5, <1>9
  <2>2. IntMax * (p + 1) = (IntMax * p) + IntMax
    BY <1>0, <1>7
  <2>3. t = (IntMax * (p + 1)) + b
    BY <1>0, <1>2, <1>7, <1>a, <2>1, <2>2
  <2>4. t % IntMax = b
    <3>1. p + 1 \in Int
      OBVIOUS
    <3>2. ((IntMax * (p + 1)) + b) % IntMax = b
      BY <1>0, <2>1, <3>1, ModOfSum
    <3> QED
      BY <2>3, <3>2
  <2>5. PICK m \in Nat : m = NameSpace * q
    BY <1>0, <1>1
  <2>6. /\ a + 1 \in Nat /\ (b + 1) + m \in Nat /\ a + 1 < (b + 1) + m
        /\ ((b + 1) + m) - (a + 1) < NameSpace
    BY <1>0, <1>1, <1>3, <2>1, <2>5
  <2>7. (a + 1) % NameSpace # ((b + 1) + m) % NameSpace
    BY ONLY <1>0, <2>6, ModDistinct
  <2>8. ((b + 1) + m) % NameSpace = (b + 1) % NameSpace
    <3>1. b + 1 \in Nat
      BY <2>1
    <3>2. ((b + 1) + (NameSpace * q)) % NameSpace = (b + 1) % NameSpace
      BY <1>0, <1>1, <3>1, ModWholeTurns
    <3> QED
      BY <2>5, <3>2
  <2> QED
    BY <1>6, <2>4, <2>7, <2>8 DEF Name, CounterAfter
<1> QED
  BY <1>0, <1>6, <1>8, <1>9

-----------------------------------------------------------------------------
(* The inductive invariant: both counters, and every name, are known from the *)
(* number of statements, and no block is ever taken.                          *)

Counted ==
  /\ statementCounter = CounterAfter(allocated)
  /\ cursorCounter = CounterAfter(allocated)
  /\ \A s \in 1 .. allocated :
       /\ statementName[s] = Name(CounterAfter(s))
       /\ cursorName[s] = Name(CounterAfter(s))

NothingTaken == requestParameterBlocks = [b \in 1 .. Blocks |-> FALSE]

IInv == TypeOK /\ Counted /\ NothingTaken

\* Block 1 is the first one, as long as there is one.
LEMMA FirstBlock ==
  ASSUME NothingTaken
  PROVE  NextRPBID \in 1 .. Blocks \cup {NoBlock}
<1>1. Blocks \in Nat
  BY BoundsAssumption
<1>2. {b \in 1 .. Blocks : ~requestParameterBlocks[b]} = 1 .. Blocks
  BY DEF NothingTaken
<1>3. CASE Blocks = 0
  BY <1>2, <1>3 DEF NextRPBID
<1>4. CASE Blocks # 0
  <2>1. 1 \in 1 .. Blocks /\ \A d \in 1 .. Blocks : 1 <= d
    BY <1>1, <1>4
  <2>2. (CHOOSE b \in 1 .. Blocks : \A d \in 1 .. Blocks : b <= d) \in 1 .. Blocks
    BY <2>1
  <2> QED
    BY <1>2, <2>2 DEF NextRPBID
<1> QED
  BY <1>3, <1>4

LEMMA InitIInv == Init => IInv
<1> SUFFICES ASSUME Init PROVE IInv
  OBVIOUS
<1>1. IntMax \in Nat \ {0} /\ NameSpace \in Nat \ {0} /\ MaxStatements \in Nat
  BY NameSpaceAssumption, BoundsAssumption
<1>2. TypeOK
  <2>1. 1 \in 1 .. IntMax /\ 0 \in 0 .. (NameSpace - 1) /\ 0 \in 0 .. MaxStatements
    BY <1>1
  <2>2. requestParameterBlocks \in [1 .. Blocks -> BOOLEAN]
    BY DEF Init
  <2>3. /\ phase \in [Stmts -> Phases] /\ result \in [Stmts -> Results]
        /\ rpbID \in [Stmts -> 1 .. Blocks \cup {NoBlock}]
    BY DEF Init, Phases, Results
  <2>4. /\ statementName \in [Stmts -> 0 .. (NameSpace - 1)]
        /\ cursorName \in [Stmts -> 0 .. (NameSpace - 1)]
    BY <2>1 DEF Init
  <2>5. statementCounter = 1 /\ cursorCounter = 1 /\ ~catalog /\ allocated = 0
        /\ catalog \in BOOLEAN
    BY DEF Init
  <2> QED
    BY <2>1, <2>2, <2>3, <2>4, <2>5 DEF TypeOK
<1>3. 0 % IntMax = 0
  BY <1>1
<1> QED
  BY <1>2, <1>3 DEF Init, IInv, Counted, NothingTaken, CounterAfter

LEMMA NextIInv == IInv /\ [Next]_vars => IInv'
<1> SUFFICES ASSUME IInv, [Next]_vars PROVE IInv'
  OBVIOUS
<1> USE DEF names
<1>0. TypeOK /\ Counted /\ NothingTaken
  BY DEF IInv
<1>1. /\ MaxStatements \in Nat /\ Blocks \in Nat
      /\ IntMax \in Nat \ {0} /\ NameSpace \in Nat \ {0}
  BY NameSpaceAssumption, BoundsAssumption
<1>2. ASSUME NEW s \in Stmts, CreateStatement(s)
      PROVE  IInv'
  <2>1. /\ s = allocated + 1 /\ allocated' = s /\ allocated \in Nat
        /\ s \in 1 .. MaxStatements
    BY <1>0, <1>1, <1>2 DEF CreateStatement, TypeOK, Stmts
  <2>2. /\ statementCounter' = CounterAfter(s)
        /\ cursorCounter' = CounterAfter(s)
    BY <1>0, <1>2, <2>1, NextCounterAfter DEF CreateStatement, Counted
  <2>3. CounterAfter(s) \in 1 .. IntMax
    BY <2>1, CounterAfterType
  <2>4. Name(CounterAfter(s)) \in 0 .. (NameSpace - 1)
    BY <1>1, <2>3, NameType
  <2>5. /\ statementName' = [statementName EXCEPT ![s] = Name(CounterAfter(s))]
        /\ cursorName' = [cursorName EXCEPT ![s] = Name(CounterAfter(s))]
        /\ rpbID' = [rpbID EXCEPT ![s] = NextRPBID]
        /\ phase' = [phase EXCEPT ![s] = "creating"]
    BY <1>2, <2>2 DEF CreateStatement
  <2>6. /\ UNCHANGED <<requestParameterBlocks, catalog, result>>
        /\ NextRPBID \in 1 .. Blocks \cup {NoBlock}
    BY <1>0, <1>2, FirstBlock DEF CreateStatement
  <2>7. TypeOK'
    BY <1>0, <2>1, <2>2, <2>3, <2>4, <2>5, <2>6 DEF TypeOK, Phases, Stmts
  <2>8. Counted'
    <3>1. ASSUME NEW t \in 1 .. s
          PROVE  /\ statementName'[t] = Name(CounterAfter(t))
                 /\ cursorName'[t] = Name(CounterAfter(t))
      <4>1. t \in Stmts
        BY <1>1, <2>1 DEF Stmts
      <4>2. CASE t = s
        BY <1>0, <2>5, <4>1, <4>2 DEF TypeOK
      <4>3. CASE t # s
        <5>1. t \in 1 .. allocated
          BY <2>1, <4>3
        <5> QED
          BY <1>0, <2>5, <4>1, <4>3, <5>1 DEF TypeOK, Counted
      <4> QED
        BY <4>2, <4>3
    <3> QED
      BY <2>1, <2>2, <3>1 DEF Counted
  <2> QED
    BY <1>0, <2>6, <2>7, <2>8 DEF IInv, NothingTaken
<1>3. ASSUME NEW s \in Stmts, InitialRequest(s) \/ InitialRequestFails(s)
      PROVE  IInv'
  <2>1. TypeOK'
    BY <1>0, <1>3 DEF InitialRequest, InitialRequestFails, TypeOK, Phases
  <2> QED
    BY <1>0, <1>3, <2>1
       DEF InitialRequest, InitialRequestFails, IInv, Counted, NothingTaken
<1>4. ASSUME NEW s \in Stmts, NEW kind \in Kinds, Execute(s, kind)
      PROVE  IInv'
  <2>1. TypeOK'
    BY <1>0, <1>4 DEF Execute, TypeOK, Results
  <2> QED
    BY <1>0, <1>4, <2>1 DEF Execute, IInv, Counted, NothingTaken
<1>5. CASE UNCHANGED vars
  BY <1>0, <1>5 DEF vars, IInv, TypeOK, Counted, NothingTaken
<1> QED
  BY <1>2, <1>3, <1>4, <1>5 DEF Next

LEMMA Invariance == Spec => []IInv
BY InitIInv, NextIInv, PTL DEF Spec

\* Every variable keeps its type.
THEOREM TypeCorrect == Spec => []TypeOK
<1>1. IInv => TypeOK
  BY DEF IInv
<1> QED
  BY <1>1, Invariance, PTL

\* Names come back only after NameSpace - 2 others, in however many rounds of
\* the counters, for any width of the counters and of the names such that the
\* one is a whole number of times the other.
THEOREM NamesNeverCollide == Spec => []NamesDistinct
<1>1. IInv => NamesDistinct
  <2> SUFFICES ASSUME IInv, NEW s \in 1 .. allocated, NEW t \in 1 .. allocated,
                      s < t, t - s < NameSpace - 1
               PROVE  /\ statementName[s] # statementName[t]
                      /\ cursorName[s] # cursorName[t]
    BY DEF NamesDistinct
  <2>1. allocated \in Nat
    BY BoundsAssumption DEF IInv, TypeOK
  <2>2. s \in Nat /\ t \in Nat
    BY <2>1
  <2>3. Name(CounterAfter(s)) # Name(CounterAfter(t))
    BY <2>2, NearNamesDiffer
  <2> QED
    BY <2>3 DEF IInv, Counted
<1> QED
  BY <1>1, Invariance, PTL

-----------------------------------------------------------------------------
(* What becomes of the blocks *)

\* No statement that was created has any block but the first.
FirstOnly == \A s \in Stmts : phase[s] # "none" => rpbID[s] = 1

\* The first block is the one that is free, always.
LEMMA FirstBlockFree ==
  ASSUME NothingTaken, Blocks # 0
  PROVE  NextRPBID = 1
<1>1. Blocks \in Nat /\ Blocks > 0
  BY BoundsAssumption
<1>2. {b \in 1 .. Blocks : ~requestParameterBlocks[b]} = 1 .. Blocks
  BY DEF NothingTaken
<1>3. 1 \in 1 .. Blocks /\ \A d \in 1 .. Blocks : 1 <= d
  BY <1>1
<1>4. PICK first : first = CHOOSE b \in 1 .. Blocks :
                             \A d \in 1 .. Blocks : b <= d
  OBVIOUS
<1>5. first \in 1 .. Blocks /\ first <= 1
  BY <1>3, <1>4
<1>6. first = 1
  BY <1>1, <1>5
<1> QED  BY <1>2, <1>3, <1>4, <1>6 DEF NextRPBID

LEMMA NextFirstOnly ==
  ASSUME Blocks # 0
  PROVE  IInv /\ FirstOnly /\ [Next]_vars => FirstOnly'
<1> SUFFICES ASSUME IInv, FirstOnly, [Next]_vars PROVE FirstOnly'
  OBVIOUS
<1> USE DEF names
<1>1. TypeOK /\ NextRPBID = 1
  BY FirstBlockFree DEF IInv
<1>2. ASSUME NEW s \in Stmts, CreateStatement(s)
      PROVE  FirstOnly'
  <2>1. /\ rpbID' = [rpbID EXCEPT ![s] = 1]
        /\ phase' = [phase EXCEPT ![s] = "creating"]
    BY <1>1, <1>2 DEF CreateStatement
  <2> QED  BY <1>1, <2>1 DEF TypeOK, FirstOnly
<1>3. ASSUME NEW s \in Stmts, InitialRequest(s) \/ InitialRequestFails(s)
      PROVE  FirstOnly'
  BY <1>1, <1>3 DEF InitialRequest, InitialRequestFails, TypeOK, FirstOnly
<1>4. ASSUME NEW s \in Stmts, NEW kind \in Kinds, Execute(s, kind)
      PROVE  FirstOnly'
  BY <1>4 DEF Execute, FirstOnly
<1>5. CASE UNCHANGED vars
  BY <1>5 DEF vars, FirstOnly
<1> QED  BY <1>2, <1>3, <1>4, <1>5 DEF Next

\* getNextRPBID() returns the first block each time, as nothing marks a block
\* as taken: what Connection.js:114 says of free blocks fails not only once
\* all are taken or under some interleaving, but as soon as two statements are
\* in use, and holds until then.
THEOREM BlocksNeverDistinct ==
  ASSUME Blocks # 0
  PROVE  Spec => [](/\ FirstOnly
                    /\ BlocksDistinct <=>
                         \A s, t \in Stmts :
                           phase[s] = "ready" /\ phase[t] = "ready" => s = t)
<1>1. FirstOnly =>
        (BlocksDistinct <=> \A s, t \in Stmts :
                              phase[s] = "ready" /\ phase[t] = "ready" => s = t)
  BY DEF FirstOnly, BlocksDistinct
<1>2. Init => FirstOnly
  BY DEF Init, FirstOnly
<1> QED
  BY <1>1, <1>2, Invariance, NextFirstOnly, PTL DEF Spec
=============================================================================
