---------------------------- MODULE BreakpointsProofs --------------------------
(***************************************************************************)
(* Proofs about Breakpoints, for any capacity, any addresses and any       *)
(* initial content of the array: the loops stay within the initialised     *)
(* entries, the array stays sorted, and it implements the set.             *)
(***************************************************************************)
EXTENDS Breakpoints, FiniteSetTheorems, TLAPS

\* The bisection has ruled out what is below begin and what is from end on.
SearchInv ==
    at = "find" =>
        /\ begin <= end /\ end <= breakpoints_number
        /\ request.op = "set" => breakpoints_number < Capacity
        /\ request.op = "find" \/ request.type = 0
        /\ \A m \in 0..(breakpoints_number - 1) :
               /\ m < begin => breakpoints[m] < a
               /\ m >= end => breakpoints[m] > a

\* While an entry is inserted, the entries above the hole are larger.
InsertInv ==
    at = "insert" =>
        /\ request.op = "set" /\ request.type = 0
        /\ j < breakpoints_number
        /\ \A m \in Positions : breakpoints[m] # a /\ (m > j => breakpoints[m] > a)

\* While an entry is removed, it is in none of the other positions.
DeleteInv ==
    at = "delete" =>
        /\ request.op = "remove" /\ request.type = 0
        /\ j <= breakpoints_number /\ breakpoints_number < Capacity
        /\ \A m \in Positions : breakpoints[m] # a

\* What the steps preserve.  Sorted alone is not inductive: it is the bisection
\* that shows an address to be new, and the hole where it will fit.
IInv == TypeOK /\ Sorted /\ SearchInv /\ InsertInv /\ DeleteInv

USE BreakpointsAssumption

LEMMA InitIInv == Init => IInv
<1> SUFFICES ASSUME Init PROVE IInv
  OBVIOUS
<1>1. TypeOK
  <2>1. breakpoints \in [0..(Capacity - 1) -> Int]
    BY DEF Init
  <2> QED
    BY <2>1 DEF Init, TypeOK
<1>2. Positions = {}
  BY DEF Init, Positions
<1> QED
  BY <1>1, <1>2 DEF Init, IInv, Sorted, SearchInv, InsertInv, DeleteInv

LEMMA RequestsTyped ==
    ASSUME request \in Requests
    PROVE  a \in Int /\ request.op \in {"set", "remove", "find"}
BY DEF Requests, a

LEMMA ReceiveIInv == IInv /\ Receive => IInv'
<1> SUFFICES ASSUME IInv, Receive PROVE IInv'
  OBVIOUS
<1>1. TypeOK'
  BY DEF IInv, TypeOK, Receive
<1>2. Positions' = Positions
  BY DEF Receive, Positions
<1>3. Sorted'
  BY <1>2 DEF IInv, Sorted, Receive
<1> QED
  BY <1>1, <1>3 DEF IInv, Receive, SearchInv, InsertInv, DeleteInv

\* An answer from a state without a hole leaves the table as it is.
LEMMA AnswerIInv ==
    ASSUME IInv, at \in {"enter", "find"}, NEW text, Answer(text),
           UNCHANGED <<breakpoints, breakpoints_number>>
    PROVE  IInv'
<1>1. TypeOK'
  BY DEF IInv, TypeOK, Answer
<1>2. Positions' = Positions
  BY DEF Answer, Positions
<1>3. Sorted'
  BY <1>2 DEF IInv, Sorted
<1> QED
  BY <1>1, <1>3 DEF IInv, Answer, SearchInv, InsertInv, DeleteInv

LEMMA EnterIInv == IInv /\ Enter => IInv'
<1> SUFFICES ASSUME IInv, Enter PROVE IInv'
  OBVIOUS
<1>1. CASE at' = "find"
  <2>1. /\ (request.op = "find" \/ request.type = 0) /\ (request.op = "set" => HasRoom)
        /\ at = "enter" /\ begin' = 0 /\ end' = SearchEnd
        /\ UNCHANGED <<breakpoints, breakpoints_number, request, j, reply>>
    BY <1>1 DEF Enter, Answer
  <2>2. TypeOK'
    BY <1>1, <2>1 DEF IInv, TypeOK, SearchEnd
  <2>3. Positions' = Positions
    BY <1>1, <2>1 DEF Positions
  <2>4. Sorted'
    BY <2>1, <2>3 DEF IInv, Sorted
  <2>5. SearchInv'
    BY <1>1, <2>1 DEF IInv, TypeOK, SearchInv, HasRoom, SearchEnd, a
  <2> QED
    BY <1>1, <2>2, <2>4, <2>5 DEF IInv, InsertInv, DeleteInv
<1>2. CASE at' # "find"
  BY <1>2, AnswerIInv DEF Enter
<1> QED
  BY <1>1, <1>2

LEMMA MiddleBetween ==
    ASSUME IInv, at = "find", begin < end
    PROVE  /\ Middle \in begin..(end - 1)
           /\ Middle \in 0..(breakpoints_number - 1)
BY DEF IInv, TypeOK, SearchInv, Middle

LEMMA BisectIInv == IInv /\ Bisect => IInv'
<1> SUFFICES ASSUME IInv, Bisect PROVE IInv'
  OBVIOUS
<1> DEFINE mid == Middle
<1>1. mid \in begin..(end - 1) /\ mid \in 0..(breakpoints_number - 1)
  BY MiddleBetween DEF Bisect
<1>2. /\ at = "find" /\ at' = "find" /\ UNCHANGED <<breakpoints, breakpoints_number, request, j>>
      /\ \/ breakpoints[mid] > a /\ end' = mid /\ begin' = begin
         \/ breakpoints[mid] < a /\ begin' = mid + 1 /\ end' = end
  BY DEF Bisect, AfterMiddle
<1> HIDE DEF mid
<1>3. TypeOK'
  BY <1>1, <1>2 DEF IInv, TypeOK
<1>4. Positions' = Positions /\ Positions = 0..(breakpoints_number - 1)
  BY <1>2 DEF Positions
<1>5. Sorted'
  BY <1>2, <1>4 DEF IInv, Sorted
<1>6. a \in Int /\ a' = a
  BY <1>2, RequestsTyped DEF IInv, TypeOK, a
<1>7. \A m \in 0..(breakpoints_number - 1) :
          breakpoints[m] \in Int /\ (m < mid => breakpoints[m] < breakpoints[mid])
                                 /\ (m > mid => breakpoints[m] > breakpoints[mid])
  BY <1>1, <1>4 DEF IInv, TypeOK, Sorted
<1>8. \A m \in 0..(breakpoints_number - 1) :
          /\ m < begin' => breakpoints[m] < a
          /\ m >= end' => breakpoints[m] > a
  BY <1>1, <1>2, <1>6, <1>7 DEF IInv, TypeOK, SearchInv
<1>9. SearchInv'
  <2>1. /\ breakpoints_number \in Int /\ begin \in Int /\ end \in Int
        /\ end <= breakpoints_number
        /\ request.op = "set" => breakpoints_number < Capacity
        /\ request.op = "find" \/ request.type = 0
    BY <1>2 DEF IInv, TypeOK, SearchInv
  <2>2. begin' <= end' /\ end' <= breakpoints_number
    BY <1>1, <1>2, <2>1
  <2> QED
    BY <1>2, <1>6, <1>8, <2>1, <2>2 DEF SearchInv
<1> QED
  BY <1>2, <1>3, <1>5, <1>9 DEF IInv, InsertInv, DeleteInv

LEMMA FoundIInv == IInv /\ Found => IInv'
<1> SUFFICES ASSUME IInv, Found PROVE IInv'
  OBVIOUS
<1> DEFINE mid == Middle
<1>1. mid \in 0..(breakpoints_number - 1) /\ at = "find" /\ breakpoints[mid] = a
  BY MiddleBetween DEF Found
<1>2. CASE at' = "delete"
  <2>1. /\ request.op = "remove" /\ breakpoints_number' = breakpoints_number - 1
        /\ j' = mid /\ begin' = 0 /\ end' = 0
        /\ UNCHANGED <<breakpoints, request>>
    BY <1>2 DEF Found, Answer
  <2> HIDE DEF mid
  <2>2. TypeOK'
    BY <1>1, <1>2, <2>1 DEF IInv, TypeOK
  <2>3. Positions' = Positions \ {mid} /\ Positions = 0..(breakpoints_number - 1)
    BY <1>1, <1>2, <2>1 DEF Positions, IInv, TypeOK
  <2>4. Sorted'
    BY <2>1, <2>3 DEF IInv, Sorted
  <2>5. \A m \in Positions' : breakpoints[m] # a
    BY <1>1, <2>3 DEF IInv, TypeOK, Sorted
  <2>6. DeleteInv'
    BY <1>1, <1>2, <2>1, <2>5 DEF DeleteInv, IInv, TypeOK, SearchInv, a
  <2> QED
    BY <1>2, <2>2, <2>4, <2>6 DEF IInv, SearchInv, InsertInv
<1>3. CASE at' # "delete"
  BY <1>3, AnswerIInv DEF Found
<1> QED
  BY <1>2, <1>3

LEMMA NotFoundIInv == IInv /\ NotFound => IInv'
<1> SUFFICES ASSUME IInv, NotFound PROVE IInv'
  OBVIOUS
<1>1. at = "find" /\ begin = end
  <2>1. at = "find" /\ begin >= end
    BY DEF NotFound
  <2>2. begin <= end /\ begin \in Int /\ end \in Int
    BY <2>1 DEF IInv, SearchInv, TypeOK
  <2> QED
    BY <2>1, <2>2
<1>2. CASE at' = "insert"
  <2>1. /\ request.op = "set" /\ breakpoints_number' = breakpoints_number + 1
        /\ j' = breakpoints_number /\ begin' = 0 /\ end' = 0
        /\ UNCHANGED <<breakpoints, request>>
    BY <1>2 DEF NotFound, Answer
  <2>2. TypeOK'
    BY <1>1, <1>2, <2>1 DEF IInv, TypeOK, SearchInv
  <2>3. Positions' = Positions /\ Positions = 0..(breakpoints_number - 1)
    BY <1>1, <1>2, <2>1 DEF Positions, IInv, TypeOK
  <2>4. Sorted'
    BY <2>1, <2>3 DEF IInv, Sorted
  <2>5. a \in Int /\ \A m \in Positions : breakpoints[m] # a /\ m < breakpoints_number
    BY <1>1, <2>3, RequestsTyped DEF IInv, TypeOK, SearchInv
  <2>6. InsertInv'
    BY <1>1, <1>2, <2>1, <2>3, <2>5 DEF InsertInv, IInv, TypeOK, SearchInv, a
  <2> QED
    BY <1>2, <2>2, <2>4, <2>6 DEF IInv, SearchInv, DeleteInv
<1>3. CASE at' # "insert"
  BY <1>3, AnswerIInv DEF NotFound
<1> QED
  BY <1>2, <1>3

LEMMA InsertIInv == IInv /\ Insert => IInv'
<1> SUFFICES ASSUME IInv, Insert PROVE IInv'
  OBVIOUS
<1>1. /\ at = "insert" /\ breakpoints_number' = breakpoints_number
      /\ breakpoints_number \in 0..Capacity /\ j \in 0..(breakpoints_number - 1)
      /\ breakpoints \in [0..(Capacity - 1) -> Int]
      /\ request \in Requests /\ a \in Int
  BY RequestsTyped DEF Insert, IInv, TypeOK, InsertInv
<1>2. Positions = (0..(breakpoints_number - 1)) \ {j}
  BY <1>1 DEF Positions
<1>3. CASE MovesUp
  <2>1. /\ j > 0 /\ breakpoints[j - 1] > a
        /\ breakpoints' = [breakpoints EXCEPT ![j] = breakpoints[j - 1]]
        /\ j' = j - 1 /\ UNCHANGED <<at, request, begin, end>>
    BY <1>3 DEF Insert, MovesUp
  <2>2. TypeOK'
    BY <1>1, <2>1 DEF IInv, TypeOK
  <2>3. Positions' = (0..(breakpoints_number - 1)) \ {j - 1}
    BY <1>1, <2>1 DEF Positions
  <2>4. Sorted'
    BY <1>1, <1>2, <2>1, <2>3 DEF IInv, Sorted
  <2>5. \A m \in Positions' : breakpoints'[m] # a /\ (m > j - 1 => breakpoints'[m] > a)
    BY <1>1, <1>2, <2>1, <2>3 DEF IInv, InsertInv
  <2>6. InsertInv'
    BY <1>1, <2>1, <2>5 DEF InsertInv, IInv, a
  <2> QED
    BY <1>1, <2>1, <2>2, <2>4, <2>6 DEF IInv, SearchInv, DeleteInv
<1>4. CASE ~ MovesUp
  <2>1. /\ j = 0 \/ breakpoints[j - 1] <= a
        /\ breakpoints' = [breakpoints EXCEPT ![j] = a]
        /\ at' = "idle" /\ request' = None /\ begin' = 0 /\ end' = 0 /\ j' = 0
    BY <1>1, <1>4 DEF Insert, MovesUp, Answer
  <2>2. TypeOK'
    BY <1>1, <2>1 DEF IInv, TypeOK
  <2>3. Positions' = 0..(breakpoints_number - 1)
    BY <1>1, <2>1 DEF Positions
  <2>4. \A m \in Positions : (m < j => breakpoints[m] < a) /\ (m > j => breakpoints[m] > a)
    <3>1. j > 0 => j - 1 \in Positions /\ breakpoints[j - 1] < a
      BY <1>1, <1>2, <2>1 DEF IInv, InsertInv
    <3>2. \A m \in Positions : m < j - 1 => breakpoints[m] < breakpoints[j - 1]
      BY <1>1, <1>2 DEF IInv, Sorted
    <3>3. \A m \in Positions : m \in Int /\ breakpoints[m] \in Int
      BY <1>1, <1>2
    <3>4. \A m \in Positions : m < j => breakpoints[m] < a
      <4> SUFFICES ASSUME NEW m \in Positions, m < j PROVE breakpoints[m] < a
        OBVIOUS
      <4>1. j > 0 /\ (m = j - 1 \/ m < j - 1)
        BY <1>1, <1>2
      <4> QED
        BY <1>1, <3>1, <3>2, <3>3, <4>1
    <3>5. \A m \in Positions : m > j => breakpoints[m] > a
      BY <1>1 DEF IInv, InsertInv
    <3> QED
      BY <3>4, <3>5
  <2>5. Sorted'
    BY <1>1, <1>2, <2>1, <2>3, <2>4 DEF IInv, Sorted
  <2> QED
    BY <1>1, <2>1, <2>2, <2>5 DEF IInv, SearchInv, InsertInv, DeleteInv
<1> QED
  BY <1>3, <1>4

LEMMA DeleteIInv == IInv /\ Delete => IInv'
<1> SUFFICES ASSUME IInv, Delete PROVE IInv'
  OBVIOUS
<1>1. /\ at = "delete" /\ breakpoints_number' = breakpoints_number
      /\ breakpoints_number \in 0..(Capacity - 1) /\ j \in 0..breakpoints_number
      /\ breakpoints \in [0..(Capacity - 1) -> Int]
  BY DEF Delete, IInv, TypeOK, DeleteInv
<1>2. Positions = (0..breakpoints_number) \ {j}
  BY <1>1 DEF Positions
<1>3. CASE MovesDown
  <2>1. /\ j < breakpoints_number
        /\ breakpoints' = [breakpoints EXCEPT ![j] = breakpoints[j + 1]]
        /\ j' = j + 1 /\ UNCHANGED <<at, request, begin, end>>
    BY <1>3 DEF Delete, MovesDown
  <2>2. TypeOK'
    BY <1>1, <2>1 DEF IInv, TypeOK
  <2>3. Positions' = (0..breakpoints_number) \ {j + 1}
    BY <1>1, <2>1 DEF Positions
  <2>4. Sorted'
    BY <1>1, <1>2, <2>1, <2>3 DEF IInv, Sorted
  <2>5. \A m \in Positions' : breakpoints'[m] # a
    BY <1>1, <1>2, <2>1, <2>3 DEF IInv, DeleteInv
  <2>6. DeleteInv'
    BY <1>1, <2>1, <2>5 DEF DeleteInv, IInv, a
  <2> QED
    BY <1>1, <2>1, <2>2, <2>4, <2>6 DEF IInv, SearchInv, InsertInv
<1>4. CASE ~ MovesDown
  <2>1. /\ j = breakpoints_number /\ breakpoints' = breakpoints
        /\ at' = "idle" /\ request' = None /\ begin' = 0 /\ end' = 0 /\ j' = 0
    BY <1>1, <1>4 DEF Delete, MovesDown, Answer
  <2>2. TypeOK'
    BY <1>1, <2>1 DEF IInv, TypeOK
  <2>3. Positions' = Positions
    BY <1>1, <1>2, <2>1 DEF Positions
  <2>4. Sorted'
    BY <2>1, <2>3 DEF IInv, Sorted
  <2> QED
    BY <1>1, <2>1, <2>2, <2>4 DEF IInv, SearchInv, InsertInv, DeleteInv
<1> QED
  BY <1>3, <1>4

LEMMA StutterIInv == IInv /\ UNCHANGED vars => IInv'
BY DEF IInv, vars, TypeOK, Sorted, Positions, SearchInv, InsertInv, DeleteInv, a

LEMMA NextIInv == IInv /\ [Next]_vars => IInv'
BY ReceiveIInv, EnterIInv, BisectIInv, FoundIInv, NotFoundIInv, InsertIInv, DeleteIInv,
   StutterIInv DEF Next, Step

\* At every iteration of the three loops the indices and the contents of the array stay
\* in their ranges.
THEOREM TypeCorrect == Spec => []TypeOK
<1>1. IInv => TypeOK
  BY DEF IInv
<1> QED
  BY <1>1, InitIInv, NextIInv, PTL DEF Spec

\* The array stays sorted, for any capacity and addresses, in every iteration of
\* the loops.
THEOREM SortedAlways == Spec => []Sorted
<1>1. IInv => Sorted
  BY DEF IInv
<1> QED
  BY <1>1, InitIInv, NextIInv, PTL DEF Spec

\* The loops touch initialised entries of the array only, whatever the capacity.
THEOREM InBoundsAlways == Spec => []InBounds
<1>1. IInv => InBounds
  <2> SUFFICES ASSUME IInv PROVE InBounds
    OBVIOUS
  <2>1. at = "find" /\ begin < end => Middle \in 0..(breakpoints_number - 1)
    BY MiddleBetween
  <2>2. at = "insert" => j \in 0..(breakpoints_number - 1) /\ breakpoints_number <= Capacity
    BY DEF IInv, TypeOK, InsertInv
  <2>3. at = "delete" /\ MovesDown => j + 1 \in 1..breakpoints_number
                                     /\ breakpoints_number < Capacity
    BY DEF IInv, TypeOK, DeleteInv, MovesDown
  <2> QED
    BY <2>1, <2>2, <2>3 DEF InBounds
<1> QED
  BY <1>1, InitIInv, NextIInv, PTL DEF Spec

--------------------------------------------------------------------------------
(* The array implements the set.                                           *)

\* A sorted array holds as many addresses as it has positions.
LEMMA CardinalityOfHeld ==
    ASSUME IInv, at \in {"enter", "find", "insert"}
    PROVE  Cardinality(Held) =
               IF at = "insert" THEN breakpoints_number - 1 ELSE breakpoints_number
<1> DEFINE f == [n \in Positions |-> breakpoints[n]]
           T == {breakpoints[n] : n \in Positions}
<1>1. Held = T
  BY DEF Held
<1>2. /\ Positions \subseteq Int /\ \A n \in Positions : breakpoints[n] \in Int
      /\ breakpoints_number \in Nat
  BY DEF IInv, TypeOK, Positions
<1>3. f \in Bijection(Positions, T)
  <2>1. \A m, n \in Positions : breakpoints[m] = breakpoints[n] => m = n
    BY <1>2 DEF IInv, Sorted
  <2> QED
    BY <2>1 DEF Bijection, Injection, Surjection, IsInjective
<1>4. /\ IsFiniteSet(0..(breakpoints_number - 1))
      /\ Cardinality(0..(breakpoints_number - 1)) = breakpoints_number
  BY <1>2, FS_Interval
<1>5. /\ IsFiniteSet(Positions)
      /\ Cardinality(Positions) =
            IF at = "insert" THEN breakpoints_number - 1 ELSE breakpoints_number
  <2>1. CASE at = "insert"
    <3>1. Positions = (0..(breakpoints_number - 1)) \ {j} /\ j \in 0..(breakpoints_number - 1)
      BY <2>1 DEF Positions, IInv, TypeOK, InsertInv
    <3>2. /\ IsFiniteSet((0..(breakpoints_number - 1)) \ {j})
          /\ Cardinality((0..(breakpoints_number - 1)) \ {j})
                = Cardinality(0..(breakpoints_number - 1)) - 1
      BY <1>4, <3>1, FS_RemoveElement
    <3> QED
      BY <1>4, <2>1, <3>1, <3>2
  <2>2. CASE at # "insert"
    <3>1. Positions = 0..(breakpoints_number - 1)
      BY <2>2 DEF Positions
    <3> QED
      BY <1>4, <2>2, <3>1
  <2> QED
    BY <2>1, <2>2
<1> HIDE DEF f, T
<1>6. Cardinality(T) = Cardinality(Positions)
  BY <1>3, <1>5, FS_Bijection DEF ExistsBijection
<1> QED
  BY <1>1, <1>5, <1>6

\* The set counts with the same operator.
LEMMA SetCardinality == \A S : Set!Cardinality(S) = Cardinality(S)
BY DEF Set!Cardinality, Cardinality

USE DEF Set!Next, Set!vars, Set!Answer, Set!Serves, Answer

LEMMA ReceiveImplements == IInv /\ Receive => [Set!Next]_(Set!vars)
<1> SUFFICES ASSUME IInv, Receive PROVE Set!Ask
  OBVIOUS
<1>1. Held' = Held
  BY DEF Receive, Held, Positions
<1>2. request = None
  BY DEF IInv, TypeOK, Receive
<1> QED
  BY <1>1, <1>2 DEF Receive, Set!Ask, Set!None, None, Set!Requests, Requests

LEMMA EnterImplements == IInv /\ Enter => [Set!Next]_(Set!vars)
<1> SUFFICES ASSUME IInv, Enter PROVE [Set!Next]_(Set!vars)
  OBVIOUS
<1>1. Held' = Held
  BY DEF Enter, Held, Positions
<1>2. at = "enter" /\ request.op \in {"set", "remove", "find"}
  BY RequestsTyped DEF Enter, IInv, TypeOK
<1>3. CASE request.op # "find" /\ request.type # 0 /\ Answer("E03")
  BY <1>1, <1>2, <1>3 DEF Set!Refuse, Set!None, None
<1>4. CASE request.op = "set" /\ request.type = 0 /\ ~ HasRoom /\ Answer("E04")
  <2>1. Cardinality(Held) = Capacity
    BY <1>2, <1>4, CardinalityOfHeld DEF HasRoom, IInv, TypeOK
  <2> QED
    BY <1>1, <1>4, <2>1, SetCardinality DEF Set!Set, Set!None, None
<1>5. CASE UNCHANGED <<request, j, reply>>
  BY <1>1, <1>5
<1> QED
  BY <1>3, <1>4, <1>5 DEF Enter

LEMMA BisectImplements == IInv /\ Bisect => [Set!Next]_(Set!vars)
BY DEF Bisect, Held, Positions, a

LEMMA FoundImplements == IInv /\ Found => [Set!Next]_(Set!vars)
<1> SUFFICES ASSUME IInv, Found PROVE [Set!Next]_(Set!vars)
  OBVIOUS
<1> DEFINE mid == Middle
<1>1. /\ mid \in 0..(breakpoints_number - 1) /\ at = "find" /\ breakpoints[mid] = a
      /\ breakpoints' = breakpoints
  BY MiddleBetween DEF Found
<1>2. Positions = 0..(breakpoints_number - 1) /\ a \in Held
  BY <1>1 DEF Positions, Held
<1>3. CASE request.op = "set" /\ Answer("OK") /\ UNCHANGED breakpoints_number
  <2>1. Held' = Held /\ Held \cup {a} = Held
    BY <1>1, <1>2, <1>3 DEF Held, Positions
  <2>2. request.type = 0 /\ Cardinality(Held) < Capacity
    BY <1>1, <1>3, CardinalityOfHeld DEF IInv, SearchInv
  <2> QED
    BY <1>3, <2>1, <2>2, SetCardinality DEF Set!Set, Set!None, None, a
<1>4. CASE request.op = "find" /\ Answer("stop") /\ UNCHANGED breakpoints_number
  <2>1. Held' = Held
    BY <1>1, <1>4 DEF Held, Positions
  <2> QED
    BY <1>2, <1>4, <2>1 DEF Set!Find, Set!None, None, a
<1>5. CASE at' = "delete"
  <2>1. /\ breakpoints_number' = breakpoints_number - 1 /\ j' = mid
        /\ UNCHANGED <<request, reply>>
    BY <1>5 DEF Found
  <2>2. Positions' = Positions \ {mid}
    BY <1>1, <1>2, <1>5, <2>1 DEF Positions, IInv, TypeOK
  <2>3. Held' = Held
    BY <1>1, <1>2, <1>5, <2>1, <2>2 DEF Held, a
  <2> QED
    BY <2>1, <2>3
<1> QED
  BY <1>3, <1>4, <1>5 DEF Found

LEMMA NotFoundImplements == IInv /\ NotFound => [Set!Next]_(Set!vars)
<1> SUFFICES ASSUME IInv, NotFound PROVE [Set!Next]_(Set!vars)
  OBVIOUS
<1>1. /\ at = "find" /\ begin >= end /\ breakpoints' = breakpoints
      /\ Positions = 0..(breakpoints_number - 1) /\ breakpoints_number \in Nat
      /\ request.op = "find" \/ request.type = 0
  <2>1. at = "find" /\ begin >= end /\ breakpoints' = breakpoints
    BY DEF NotFound
  <2>2. request.op = "find" \/ request.type = 0
    BY <2>1 DEF IInv, SearchInv
  <2> QED
    BY <2>1, <2>2 DEF Positions, IInv, TypeOK
<1>2. a \notin Held
  <2>1. begin \in Int /\ end \in Int /\ a \in Int
    BY <1>1, RequestsTyped DEF IInv, TypeOK
  <2>2. \A m \in Positions : breakpoints[m] < a \/ breakpoints[m] > a
    BY <1>1, <2>1 DEF IInv, SearchInv
  <2> QED
    BY <1>1, <2>1, <2>2 DEF Held
<1>3. CASE request.op = "remove" /\ Answer("E05") /\ UNCHANGED breakpoints_number
  <2>1. Held' = Held
    BY <1>1, <1>3 DEF Held, Positions
  <2> QED
    BY <1>1, <1>2, <1>3, <2>1 DEF Set!Remove, Set!None, None, a
<1>4. CASE request.op = "find" /\ Answer("go on") /\ UNCHANGED breakpoints_number
  <2>1. Held' = Held
    BY <1>1, <1>4 DEF Held, Positions
  <2> QED
    BY <1>2, <1>4, <2>1 DEF Set!Find, Set!None, None, a
<1>5. CASE at' = "insert"
  <2>1. /\ breakpoints_number' = breakpoints_number + 1 /\ j' = breakpoints_number
        /\ UNCHANGED <<request, reply>>
    BY <1>5 DEF NotFound
  <2>2. Positions' = Positions
    BY <1>1, <1>5, <2>1 DEF Positions
  <2>3. Held' = Held
    BY <1>1, <1>5, <2>2 DEF Held
  <2> QED
    BY <2>1, <2>3
<1> QED
  BY <1>3, <1>4, <1>5 DEF NotFound

\* An entry that moves from p to q, past the hole, changes no set of entries.
LEMMA MoveKeepsEntries ==
    ASSUME NEW f, NEW g, NEW P, NEW Q, NEW p \in P, NEW q \in Q, g[q] = f[p],
           P \ {p} = Q \ {q}, \A n \in P \ {p} : g[n] = f[n]
    PROVE  {g[n] : n \in Q} = {f[n] : n \in P}
<1>1. \A n \in Q : \E k \in P : g[n] = f[k]
  OBVIOUS
<1>2. \A k \in P : \E n \in Q : g[n] = f[k]
  OBVIOUS
<1> QED
  BY <1>1, <1>2

LEMMA InsertImplements == IInv /\ Insert => [Set!Next]_(Set!vars)
<1> SUFFICES ASSUME IInv, Insert PROVE [Set!Next]_(Set!vars)
  OBVIOUS
<1>1. /\ at = "insert" /\ breakpoints_number' = breakpoints_number
      /\ breakpoints_number \in 0..Capacity /\ j \in 0..(breakpoints_number - 1)
      /\ breakpoints \in [0..(Capacity - 1) -> Int]
      /\ request.op = "set" /\ request.type = 0
  BY DEF Insert, IInv, TypeOK, InsertInv
<1>2. Positions = (0..(breakpoints_number - 1)) \ {j}
  BY <1>1 DEF Positions
<1>3. CASE MovesUp
  <2>1. /\ j > 0 /\ breakpoints' = [breakpoints EXCEPT ![j] = breakpoints[j - 1]]
        /\ j' = j - 1 /\ UNCHANGED <<at, request, reply>>
    BY <1>3 DEF Insert, MovesUp
  <2>2. Positions' = (0..(breakpoints_number - 1)) \ {j - 1}
    BY <1>1, <2>1 DEF Positions
  <2>3. Held' = Held
    <3>1. /\ j - 1 \in Positions /\ j \in Positions'
          /\ Positions \ {j - 1} = Positions' \ {j}
      BY <1>1, <1>2, <2>1, <2>2
    <3>2. breakpoints'[j] = breakpoints[j - 1]
          /\ \A n \in Positions \ {j - 1} : breakpoints'[n] = breakpoints[n]
      BY <1>1, <1>2, <2>1
    <3>3. {breakpoints'[n] : n \in Positions'} = {breakpoints[n] : n \in Positions}
      BY <3>1, <3>2, MoveKeepsEntries
    <3> QED
      BY <1>1, <2>1, <3>3 DEF Held
  <2> QED
    BY <2>1, <2>3
<1>4. CASE ~ MovesUp
  <2>1. breakpoints' = [breakpoints EXCEPT ![j] = a] /\ Answer("OK")
    BY <1>4 DEF Insert
  <2>2. Positions' = 0..(breakpoints_number - 1)
    BY <1>1, <2>1 DEF Positions
  <2>3. Held' = Held \cup {a}
    <3>1. {breakpoints'[n] : n \in Positions'} = {breakpoints[n] : n \in Positions} \cup {a}
      BY <1>1, <1>2, <2>1, <2>2
    <3> QED
      BY <1>1, <2>1, <3>1 DEF Held
  <2>4. Cardinality(Held) < Capacity
    BY <1>1, CardinalityOfHeld
  <2> QED
    BY <1>1, <2>1, <2>3, <2>4, SetCardinality DEF Set!Set, Set!None, None, a
<1> QED
  BY <1>3, <1>4

LEMMA DeleteImplements == IInv /\ Delete => [Set!Next]_(Set!vars)
<1> SUFFICES ASSUME IInv, Delete PROVE [Set!Next]_(Set!vars)
  OBVIOUS
<1>1. /\ at = "delete" /\ breakpoints_number' = breakpoints_number
      /\ breakpoints_number \in 0..(Capacity - 1) /\ j \in 0..breakpoints_number
      /\ breakpoints \in [0..(Capacity - 1) -> Int]
      /\ request.op = "remove" /\ request.type = 0
  BY DEF Delete, IInv, TypeOK, DeleteInv
<1>2. Positions = (0..breakpoints_number) \ {j}
  BY <1>1 DEF Positions
<1>3. CASE MovesDown
  <2>1. /\ j < breakpoints_number
        /\ breakpoints' = [breakpoints EXCEPT ![j] = breakpoints[j + 1]]
        /\ j' = j + 1 /\ UNCHANGED <<at, request, reply>>
    BY <1>3 DEF Delete, MovesDown
  <2>2. Positions' = (0..breakpoints_number) \ {j + 1}
    BY <1>1, <2>1 DEF Positions
  <2>3. Held' = Held
    <3>1. /\ j + 1 \in Positions /\ j \in Positions'
          /\ Positions \ {j + 1} = Positions' \ {j}
      BY <1>1, <1>2, <2>1, <2>2
    <3>2. breakpoints'[j] = breakpoints[j + 1]
          /\ \A n \in Positions \ {j + 1} : breakpoints'[n] = breakpoints[n]
      BY <1>1, <1>2, <2>1
    <3>3. {breakpoints'[n] : n \in Positions'} = {breakpoints[n] : n \in Positions}
      BY <3>1, <3>2, MoveKeepsEntries
    <3> QED
      BY <1>1, <2>1, <3>3 DEF Held, a
  <2> QED
    BY <2>1, <2>3
<1>4. CASE ~ MovesDown
  <2>1. j = breakpoints_number /\ breakpoints' = breakpoints /\ Answer("OK")
    BY <1>1, <1>4 DEF Delete, MovesDown
  <2>2. Positions' = Positions
    BY <1>1, <1>2, <2>1 DEF Positions
  <2>3. Held = {breakpoints[n] : n \in Positions} \cup {a}
    BY <1>1 DEF Held
  <2>4. Held' = {breakpoints[n] : n \in Positions}
    BY <1>1, <2>1, <2>2 DEF Held
  <2>5. Held' = Held \ {a} /\ a \in Held
    BY <1>1, <2>3, <2>4 DEF IInv, DeleteInv
  <2> QED
    BY <1>1, <2>1, <2>5 DEF Set!Remove, Set!None, None, a
<1> QED
  BY <1>3, <1>4

\* The array with its loops implements the set, for any capacity and addresses.
THEOREM BreakpointsImplementSet == Spec => ImplementsSet
<1>1. Init => Set!Init
  BY DEF Init, Set!Init, Held, Positions, None, Set!None
<1>2. IInv /\ [Next]_vars => [Set!Next]_(Set!vars)
  <2>1. UNCHANGED vars => UNCHANGED Set!vars
    BY DEF vars, Held, Positions, a
  <2> QED
    BY <2>1, ReceiveImplements, EnterImplements, BisectImplements, FoundImplements,
       NotFoundImplements, InsertImplements, DeleteImplements DEF Next, Step
<1> QED
  BY <1>1, <1>2, InitIInv, NextIInv, PTL DEF Spec, ImplementsSet, Set!Spec

--------------------------------------------------------------------------------
(* Every request ends.                                                     *)

\* At least as many steps as are left of the request: turns of the bisection, then of
\* the loop that moves entries.
StepsLeft ==
    CASE at = "enter"  -> 2 * Capacity + 3
      [] at = "find"   -> Capacity + 2 + end - begin
      [] at = "insert" -> j + 1
      [] at = "delete" -> breakpoints_number - j + 1
      [] OTHER         -> 0

\* Each step of a request leaves fewer, so that no loop goes round for ever; and a turn
\* of the bisection leaves at most half of the entries.
ComesToAnEnd ==
    [][Step => /\ StepsLeft' \in 0..(StepsLeft - 1)
               /\ Bisect => 2 * (end' - begin') <= end - begin]_vars

LEMMA EnterShortens == IInv /\ Enter => StepsLeft' \in 0..(StepsLeft - 1)
<1> SUFFICES ASSUME IInv, Enter PROVE StepsLeft' \in 0..(StepsLeft - 1)
  OBVIOUS
<1>1. StepsLeft = 2 * Capacity + 3 /\ Capacity \in Nat
  BY DEF Enter, StepsLeft
<1>2. CASE at' = "idle"
  BY <1>1, <1>2 DEF StepsLeft
<1>3. CASE at' # "idle"
  <2>1. at' = "find" /\ begin' = 0 /\ end' = breakpoints_number
    BY <1>3 DEF Enter, Answer, SearchEnd
  <2>2. breakpoints_number \in 0..Capacity
    BY DEF IInv, TypeOK
  <2>3. StepsLeft' = Capacity + 2 + breakpoints_number
    BY <2>1, <2>2 DEF StepsLeft
  <2> QED
    BY <1>1, <2>2, <2>3
<1> QED
  BY <1>2, <1>3

LEMMA BisectShortens ==
    ASSUME IInv, Bisect
    PROVE  /\ StepsLeft' \in 0..(StepsLeft - 1)
           /\ 2 * (end' - begin') <= end - begin
<1>1. /\ at = "find" /\ at' = "find" /\ begin < end
      /\ \/ end' = Middle /\ begin' = begin
         \/ begin' = Middle + 1 /\ end' = end
  BY DEF Bisect, AfterMiddle
<1>2. begin \in Int /\ end \in Int /\ Capacity \in Nat
  BY DEF IInv, TypeOK
<1>3. 2 * Middle <= begin + end /\ begin + end <= 2 * Middle + 1 /\ Middle \in Int
  BY <1>2 DEF Middle
<1>4. 2 * (end' - begin') <= end - begin /\ end' - begin' \in 0..(end - begin - 1)
  BY <1>1, <1>2, <1>3
<1>5. StepsLeft = Capacity + 2 + end - begin /\ StepsLeft' = Capacity + 2 + end' - begin'
  BY <1>1 DEF StepsLeft
<1> QED
  BY <1>1, <1>2, <1>3, <1>4, <1>5

LEMMA FoundShortens == IInv /\ (Found \/ NotFound) => StepsLeft' \in 0..(StepsLeft - 1)
<1> SUFFICES ASSUME IInv, Found \/ NotFound PROVE StepsLeft' \in 0..(StepsLeft - 1)
  OBVIOUS
<1>1. at = "find" /\ StepsLeft = Capacity + 2 + end - begin
  BY DEF Found, NotFound, StepsLeft
<1>2. /\ begin \in Nat /\ end \in Nat /\ Capacity \in Nat
      /\ begin <= end /\ breakpoints_number \in 0..Capacity
      /\ request.op = "set" => breakpoints_number < Capacity
  BY <1>1 DEF IInv, TypeOK, SearchInv
<1>3. CASE at' = "idle"
  BY <1>1, <1>2, <1>3 DEF StepsLeft
<1>4. CASE at' = "delete"
  <2>1. breakpoints_number' = breakpoints_number - 1 /\ j' = Middle /\ begin < end
    BY <1>4 DEF Found, NotFound, Answer
  <2>2. Middle \in 0..(breakpoints_number - 1)
    BY <1>1, <2>1, MiddleBetween
  <2>3. StepsLeft' = (breakpoints_number - 1) - Middle + 1
    BY <1>4, <2>1 DEF StepsLeft
  <2> QED
    BY <1>1, <1>2, <2>2, <2>3
<1>5. CASE at' = "insert"
  <2>1. j' = breakpoints_number /\ request.op = "set"
    BY <1>5 DEF Found, NotFound, Answer
  <2>2. StepsLeft' = breakpoints_number + 1
    BY <1>5, <2>1 DEF StepsLeft
  <2> QED
    BY <1>1, <1>2, <2>1, <2>2
<1>6. at' \in {"idle", "delete", "insert"}
  BY DEF Found, NotFound, Answer
<1> QED
  BY <1>3, <1>4, <1>5, <1>6

LEMMA LoopsShorten == IInv /\ (Insert \/ Delete) => StepsLeft' \in 0..(StepsLeft - 1)
<1> SUFFICES ASSUME IInv, Insert \/ Delete PROVE StepsLeft' \in 0..(StepsLeft - 1)
  OBVIOUS
<1>1. j \in Nat /\ breakpoints_number \in Nat
  BY DEF IInv, TypeOK
<1>2. CASE Insert
  <2>1. at = "insert" /\ StepsLeft = j + 1
    BY <1>2 DEF Insert, StepsLeft
  <2>2. CASE MovesUp
    <3>1. j > 0 /\ j' = j - 1 /\ at' = at
      BY <1>2, <2>2 DEF Insert, MovesUp
    <3> QED
      BY <1>1, <2>1, <3>1 DEF StepsLeft
  <2>3. CASE ~ MovesUp
    <3>1. at' = "idle"
      BY <1>2, <2>3 DEF Insert, Answer
    <3> QED
      BY <1>1, <2>1, <3>1 DEF StepsLeft
  <2> QED
    BY <2>2, <2>3
<1>3. CASE Delete
  <2>1. /\ at = "delete" /\ StepsLeft = breakpoints_number - j + 1
        /\ j <= breakpoints_number /\ breakpoints_number' = breakpoints_number
    BY <1>3 DEF Delete, StepsLeft, IInv, DeleteInv
  <2>2. CASE MovesDown
    <3>1. j < breakpoints_number /\ j' = j + 1 /\ at' = at
      BY <1>3, <2>2 DEF Delete, MovesDown
    <3> QED
      BY <1>1, <2>1, <3>1 DEF StepsLeft
  <2>3. CASE ~ MovesDown
    <3>1. at' = "idle"
      BY <1>3, <2>3 DEF Delete, Answer
    <3> QED
      BY <1>1, <2>1, <3>1 DEF StepsLeft
  <2> QED
    BY <2>2, <2>3
<1> QED
  BY <1>2, <1>3

\* Every request comes to an end, for any capacity: what Answered says, but for the
\* fairness of the thread.
THEOREM RequestsEnd == Spec => ComesToAnEnd
<1> DEFINE A == Step => /\ StepsLeft' \in 0..(StepsLeft - 1)
                        /\ Bisect => 2 * (end' - begin') <= end - begin
<1>1. IInv /\ [Next]_vars => [A]_vars
  BY EnterShortens, BisectShortens, FoundShortens, LoopsShorten DEF Step
<1> QED
  BY <1>1, InitIInv, NextIInv, PTL DEF Spec, ComesToAnEnd
================================================================================
