----------------------------- MODULE Statements -----------------------------
(***************************************************************************)
(* The statements of a driver Connection: what createStatement() hands     *)
(* out, and what a Statement does with it.                                 *)
(*                                                                         *)
(* A statement is known by its place in the order of creation.  Any number *)
(* of createStatement() calls may be under way: the names and the request  *)
(* parameter block are taken before the first await, and the request that  *)
(* initialRequest() sends resolves or rejects later, in any order (see     *)
(* Exchange).                                                              *)
(*                                                                         *)
(* The lists of free names are left out: the code takes from them, and     *)
(* never puts anything in.                                                 *)
(*                                                                         *)
(* A faulty form that nothing uses stands before some operators (see the   *)
(* "mutants" of PROJECT.json).                                             *)
(***************************************************************************)
EXTENDS Integers, FiniteSets

CONSTANTS
  MaxStatements,  \* bound: statements created on the connection
  IntMax,         \* where the counters start again, 2147483647 in the code
  NameSpace,      \* names of seven hexadecimal digits: 16^7 in the code
  Blocks          \* request parameter blocks, 32767 in the code

ASSUME BoundsAssumption == MaxStatements \in Nat /\ Blocks \in Nat
ASSUME NameSpaceAssumption ==
  /\ IntMax \in Nat \ {0} /\ NameSpace \in Nat \ {0}
  /\ (IntMax + 1) % NameSpace = 0

VARIABLES
  statementCounter, cursorCounter,  \* statements.counter, cursors.counter
  requestParameterBlocks,           \* TRUE for a block that is taken
  catalog,                          \* whether the catalog is known
  allocated,                        \* statements created so far
  phase,                            \* phase[s]: how far statement s is
  statementName, cursorName, rpbID, \* what statement s was given
  result                            \* result[s]: of its last execute()

names == <<statementName, cursorName, rpbID>>
vars == <<statementCounter, cursorCounter, requestParameterBlocks, catalog,
          allocated, phase, names, result>>

-----------------------------------------------------------------------------
Stmts == 1 .. MaxStatements
Phases == {"none", "creating", "ready", "failed"}
Results == {"none", "true", "undefined", "thrown"}

\* The counters start again at 1 after the largest integer.
NextCounterUnbounded(counter) == counter + 1
NextCounter(counter) == IF counter = IntMax THEN 1 ELSE counter + 1

\* The low seven hexadecimal digits of the counter.
NameOneDigitLess(counter) == counter % (NameSpace \div 2)
Name(counter) == counter % NameSpace

NoBlock == -1

\* getNextRPBID(): the first block that is not taken; 0 is the server's own.
NextRPBID ==
  LET free == {b \in 1 .. Blocks : ~requestParameterBlocks[b]}
  IN IF free = {} THEN NoBlock
     ELSE CHOOSE b \in free : \A d \in free : b <= d

Init ==
  /\ statementCounter = 1 /\ cursorCounter = 1
  /\ requestParameterBlocks = [b \in 1 .. Blocks |-> FALSE]
  /\ catalog = FALSE
  /\ allocated = 0
  /\ phase = [s \in Stmts |-> "none"]
  /\ statementName = [s \in Stmts |-> 0]
  /\ cursorName = [s \in Stmts |-> 0]
  /\ rpbID = [s \in Stmts |-> NoBlock]
  /\ result = [s \in Stmts |-> "none"]

\* createStatement() up to its await.  The block it takes is not marked.
CreateStatement(s) ==
  /\ s = allocated + 1
  /\ allocated' = s
  /\ statementCounter' = NextCounter(statementCounter)
  /\ cursorCounter' = NextCounter(cursorCounter)
  /\ statementName' = [statementName EXCEPT ![s] = Name(statementCounter')]
  /\ cursorName' = [cursorName EXCEPT ![s] = Name(cursorCounter')]
  /\ rpbID' = [rpbID EXCEPT ![s] = NextRPBID]
  /\ phase' = [phase EXCEPT ![s] = "creating"]
  /\ UNCHANGED <<requestParameterBlocks, catalog, result>>

\* createRequestParameterBlock() resolves, and createStatement() with it.
InitialRequest(s) ==
  /\ phase[s] = "creating"
  /\ phase' = [phase EXCEPT ![s] = "ready"]
  /\ UNCHANGED <<statementCounter, cursorCounter, requestParameterBlocks,
                 catalog, allocated, names, result>>

\* It rejects: createStatement() throws, the names stay taken.
InitialRequestFails(s) ==
  /\ phase[s] = "creating"
  /\ phase' = [phase EXCEPT ![s] = "failed"]
  /\ UNCHANGED <<statementCounter, cursorCounter, requestParameterBlocks,
                 catalog, allocated, names, result>>

\* The kinds of first word that getStatementType() tells apart.
Kinds == {"query", "other", "tooLong"}

\* execute().  A text that is too long throws before anything else.  A query
\* asks for the catalog, then calls a method that does not exist.  Any other
\* statement resolves, with nothing and without a request.
Execute(s, kind) ==
  /\ phase[s] = "ready"
  /\ result' = [result EXCEPT ![s] =
                  IF kind = "other" THEN "undefined" ELSE "thrown"]
  /\ catalog' = (catalog \/ kind = "query")
  /\ UNCHANGED <<statementCounter, cursorCounter, requestParameterBlocks,
                 allocated, phase, names>>

Next ==
  \/ \E s \in Stmts : CreateStatement(s)
  \/ \E s \in Stmts : InitialRequest(s)
  \/ \E s \in Stmts : InitialRequestFails(s)
  \/ \E s \in Stmts, kind \in Kinds : Execute(s, kind)

Spec == Init /\ [][Next]_vars

-----------------------------------------------------------------------------
(* Properties *)

\* Every variable keeps its type.
TypeOK ==
  /\ statementCounter \in 1 .. IntMax
  /\ cursorCounter \in 1 .. IntMax
  /\ requestParameterBlocks \in [1 .. Blocks -> BOOLEAN]
  /\ catalog \in BOOLEAN
  /\ allocated \in 0 .. MaxStatements
  /\ phase \in [Stmts -> Phases]
  /\ statementName \in [Stmts -> 0 .. (NameSpace - 1)]
  /\ cursorName \in [Stmts -> 0 .. (NameSpace - 1)]
  /\ rpbID \in [Stmts -> 1 .. Blocks \cup {NoBlock}]
  /\ result \in [Stmts -> Results]

\* Two statements have the same name, or the same cursor, only when at least
\* NameSpace - 2 others were created in between: the names wrap at seven
\* digits, where the counters go on, and at the largest integer, where the
\* counters skip 0, and neither shortens the way back to a name further.
NamesDistinct ==
  \A s, t \in 1 .. allocated :
    s < t /\ t - s < NameSpace - 1 =>
      statementName[s] # statementName[t] /\ cursorName[s] # cursorName[t]

-----------------------------------------------------------------------------
(* Statements of the source that the code does not meet *)

\* Connection.js:114: getNextRPBID() returns a free request parameter block, so
\* two statements in use have blocks of their own.
BlocksDistinct ==
  \A s, t \in Stmts :
    s # t /\ phase[s] = "ready" /\ phase[t] = "ready" => rpbID[s] # rpbID[t]
=============================================================================
