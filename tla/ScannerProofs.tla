----------------------------- MODULE ScannerProofs -----------------------------
(***************************************************************************)
(* Proofs about Scanner, for all sizes of its buffers, all streams and all *)
(* the ways read() cuts them: the automaton of the compressed tables is    *)
(* that of the patterns of scanner.l, its state always says what has been  *)
(* read since the token began, and yylex implements PacketRules.           *)
(*                                                                         *)
(* Induction and Recursion of WordsProofs say what the recursive functions *)
(* of Scanner compute: the default chain of the tables and the second run  *)
(* over the text.                                                          *)
(***************************************************************************)
EXTENDS Scanner, WordsProofs

USE DEF NUL, Jam, Promise!NUL, Promise!ANY, Promise!NEWLINE, Promise!HASH, Promise!DOLLAR,
        Promise!PLUS, Promise!MINUS, Promise!HEX, Promise!Char

--------------------------------------------------------------------------------
(* The tables.                                                             *)

\* The template state 14, and the automaton the compressed tables stand for.
Template(c) == CASE c = 0 -> 3 [] c = 1 -> 9 [] OTHER -> Jam

Delta(s, c) ==
    CASE c = NUL -> IF s = 3 THEN Jam ELSE 3
      [] c \in {1, 3, 7} /\ s = 1 -> 4
      [] c = 2 /\ s = 1 -> 5
      [] c \in {4, 5, 6} /\ s = 1 -> c + 2
      [] c # NUL /\ s \in {6, 9} -> IF c = 3 THEN 10 ELSE IF c = 4 THEN Jam ELSE 9
      [] c = 7 /\ s = 10 -> 11
      [] c = 7 /\ s = 11 -> 12
      [] OTHER -> Jam

\* The table of the actions, state by state.
LEMMA Accepting ==
    /\ yy_accept(1) = 0 /\ yy_accept(3) = 6 /\ yy_accept(4) = 4
    /\ yy_accept(5) = 5 /\ yy_accept(6) = 4 /\ yy_accept(7) = 1 /\ yy_accept(8) = 2
    /\ yy_accept(9) = 0 /\ yy_accept(10) = 0 /\ yy_accept(11) = 0 /\ yy_accept(12) = 3
    /\ yy_accept(13) = 0
BY DEF yy_accept

\* The tables of bases and of defaults, and the classes of the template.
LEMMA Bases ==
    /\ yy_base(1) = 0 /\ yy_base(2) = 0 /\ yy_base(3) = 13 /\ yy_base(4) = 14
    /\ yy_base(5) = 14 /\ yy_base(6) = 9 /\ yy_base(7) = 14 /\ yy_base(8) = 14
    /\ yy_base(9) = 8 /\ yy_base(10) = 3 /\ yy_base(11) = 2 /\ yy_base(12) = 14
    /\ yy_base(13) = 14 /\ yy_base(14) = 7
BY DEF yy_base

LEMMA Defaults ==
    /\ yy_def(1) = 13 /\ yy_def(2) = 1 /\ yy_def(6) = 14 /\ yy_def(9) = 14
    /\ \A s \in {3, 4, 5, 7, 8, 10, 11, 12, 14} : yy_def(s) = 13
BY DEF yy_def

LEMMA Metas ==
    /\ yy_meta(0) = 0 /\ yy_meta(4) = 2 /\ \A c \in {1, 2, 3, 5, 6, 7} : yy_meta(c) = 1
BY DEF yy_meta

\* Where the entry of (s, c) is that of s.
LEMMA Checks ==
    /\ yy_chk(0) = 0 /\ \A i \in 1..7 : yy_chk(i) = 1
    /\ yy_chk(8) = 14 /\ yy_chk(9) = 11 /\ yy_chk(10) = 10 /\ yy_chk(11) = 9
    /\ yy_chk(12) = 6 /\ yy_chk(13) = 3 /\ \A i \in 14..21 : yy_chk(i) = 13
BY DEF yy_chk

LEMMA Nexts ==
    /\ yy_nxt(1) = 4 /\ yy_nxt(2) = 5 /\ yy_nxt(3) = 4 /\ yy_nxt(4) = 6
    /\ yy_nxt(5) = 7 /\ yy_nxt(6) = 8 /\ yy_nxt(7) = 4 /\ yy_nxt(8) = 9
    /\ yy_nxt(9) = 12 /\ yy_nxt(10) = 11 /\ yy_nxt(11) = 10 /\ yy_nxt(12) = 10
    /\ yy_nxt(13) = 13 /\ yy_nxt(14) = 3 /\ \A i \in 15..21 : yy_nxt(i) = 13
BY DEF yy_nxt

\* The automaton, with the states that only stand for others.
Full(s, c) ==
    IF s = 14 THEN Template(c) ELSE IF s = 2 THEN Delta(1, c) ELSE Delta(s, c)

\* An entry of the tables, or that of the default state, is what Full says.
LEMMA DefaultChain ==
    ASSUME NEW s \in 1..14, NEW c \in 0..7
    PROVE  Full(s, c) = IF yy_chk(yy_base(s) + c) = s
                        THEN yy_nxt(yy_base(s) + c)
                        ELSE Full(yy_def(s), IF yy_def(s) >= 14 THEN yy_meta(c) ELSE c)
<1>1. CASE s = 1
  <2>1. yy_base(s) = 0 /\ yy_def(s) < 14
    BY <1>1, Bases, Defaults
  <2>2. CASE c = 0
    BY <1>1, <2>1, <2>2, Defaults, Checks DEF Full, Delta
  <2>3. CASE c # 0
    BY <1>1, <2>1, <2>3, Defaults, Checks, Nexts DEF Full, Delta
  <2> QED
    BY <2>2, <2>3
<1>2. CASE s = 2
  <2>1. yy_base(s) = 0 /\ yy_def(s) < 14
    BY <1>2, Bases, Defaults
  <2>2. CASE c = 0
    BY <1>2, <2>1, <2>2, Defaults, Checks DEF Full, Delta
  <2>3. CASE c # 0
    BY <1>2, <2>1, <2>3, Defaults, Checks, Nexts DEF Full, Delta
  <2> QED
    BY <2>2, <2>3
<1>3. CASE s \in {6}
  BY <1>3, Bases, Defaults, Checks, Nexts, Metas DEF Full, Template, Delta
<1>9. CASE s \in {9}
  BY <1>9, Bases, Defaults, Checks, Nexts, Metas DEF Full, Template, Delta
<1>4. CASE s \in {3, 13}
  BY <1>4, Bases, Defaults, Checks, Nexts DEF Full, Template, Delta
<1>5. CASE s \in {10, 11}
  BY <1>5, Bases, Defaults, Checks, Nexts DEF Full, Template, Delta
<1>6. CASE s \in {4, 5, 7, 8, 12}
  BY <1>6, Bases, Defaults, Checks, Nexts DEF Full, Template, Delta
<1>7. CASE s = 14
  BY <1>7, Bases, Defaults, Checks, Nexts DEF Full, Template, Delta
<1> QED
  BY <1>1, <1>2, <1>3, <1>4, <1>5, <1>6, <1>7, <1>9

\* The recursive function over the defaults is that automaton.
LEMMA MoveIsFull == \A s \in 1..14, c \in 0..7 : Move[s][c] = Full(s, c)
<1> DEFINE Entry(f, s, c) ==
               IF yy_chk(yy_base(s) + c) = s
               THEN yy_nxt(yy_base(s) + c)
               ELSE f[yy_def(s)][IF yy_def(s) >= 14 THEN yy_meta(c) ELSE c]
           Step(f) == f = [s \in 1..14 |-> [c \in 0..7 |-> Entry(f, s, c)]]
           F == [s \in 1..14 |-> [c \in 0..7 |-> Full(s, c)]]
<1>1. Move = CHOOSE f : Step(f)
  BY DEF Move
<1>2. \A s \in 1..14, c \in 0..7 :
           yy_meta(c) \in 0..7 /\ (yy_chk(yy_base(s) + c) # s => yy_def(s) \in 1..14)
  <2>1. \A c \in 0..7 : yy_meta(c) \in 0..7
    BY Metas
  <2>2. \A c \in 0..7 : yy_chk(yy_base(13) + c) = 13
    BY Bases, Checks
  <2>3. ASSUME NEW s \in 1..14 \ {13} PROVE yy_def(s) \in 1..14
    <3>1. s \in {1, 2, 6, 9} \/ s \in {3, 4, 5, 7, 8, 10, 11, 12, 14}
      OBVIOUS
    <3>2. CASE s \in {1, 2, 6, 9}
      BY <3>2, Defaults
    <3>3. CASE s \in {3, 4, 5, 7, 8, 10, 11, 12, 14}
      BY <3>3, Defaults, SMTT(40)
    <3> QED
      BY <3>1, <3>2, <3>3
  <2> QED
    BY <2>1, <2>2, <2>3
<1>3. Step(F)
  <2>1. ASSUME NEW s \in 1..14, NEW c \in 0..7
        PROVE  Full(s, c) = Entry(F, s, c)
    <3> DEFINE d == IF yy_def(s) >= 14 THEN yy_meta(c) ELSE c
    <3>1. d \in 0..7
      BY <1>2
    <3>2. yy_chk(yy_base(s) + c) # s => F[yy_def(s)][d] = Full(yy_def(s), d)
      BY <1>2, <3>1
    <3> HIDE DEF F
    <3> QED
      BY <3>2, DefaultChain
  <2> QED
    BY <2>1
<1>4. Step(Move)
  <2> HIDE DEF Step, F
  <2> QED
    BY <1>1, <1>3
<1>5. \A s \in 1..14, c \in 0..7 : Move[s][c] = Entry(Move, s, c)
  <2> DEFINE E == [s \in 1..14 |-> [c \in 0..7 |-> Entry(Move, s, c)]]
  <2>1. Move = E
    BY <1>4, Zenon
  <2> HIDE DEF Entry
  <2>2. \A s \in 1..14, c \in 0..7 : E[s][c] = Entry(Move, s, c)
    OBVIOUS
  <2> HIDE DEF E
  <2> QED
    BY <2>1, <2>2, Zenon
<1>6. ASSUME NEW s \in 1..14, NEW c \in 0..7,
             yy_chk(yy_base(s) + c) = s
             \/ \A d \in 0..7 : Move[yy_def(s)][d] = Full(yy_def(s), d)
      PROVE  Move[s][c] = Full(s, c)
  <2>1. Move[s][c] = Entry(Move, s, c) /\ yy_meta(c) \in 0..7
    BY <1>2, <1>5
  <2>2. CASE yy_chk(yy_base(s) + c) = s
    BY <2>1, <2>2, DefaultChain
  <2>3. CASE yy_chk(yy_base(s) + c) # s
    BY <1>6, <2>1, <2>3, DefaultChain
  <2> QED
    BY <2>2, <2>3
<1> HIDE DEF Entry
<1>7. \A c \in 0..7 : Move[13][c] = Full(13, c)
  BY <1>6, Bases, Checks
<1>8. \A s \in {1, 3, 4, 5, 7, 8, 10, 11, 12, 14}, c \in 0..7 : Move[s][c] = Full(s, c)
  BY <1>6, <1>7, Defaults
<1>9. \A s \in {2, 6, 9}, c \in 0..7 : Move[s][c] = Full(s, c)
  BY <1>6, <1>8, Defaults
<1> QED
  BY <1>7, <1>8, <1>9

\* In the states that a scan visits it is Delta, and it stays among the states.
LEMMA MoveIsDelta == \A s \in 1..14 \ {2, 14}, c \in 0..7 : Move[s][c] = Delta(s, c)
BY MoveIsFull DEF Full

LEMMA MoveType == \A s \in 1..14, c \in 0..7 : Move[s][c] \in 1..14
BY MoveIsFull DEF Full, Template, Delta

--------------------------------------------------------------------------------
(* Texts, as the automaton reads them when NUL is an ordinary character.   *)

visible(c) == IF c = NUL THEN 1 ELSE c

\* "$" and characters of a body, up to position m.
Body(t, m) ==
    m >= 1 /\ t[1] = Promise!DOLLAR /\ \A i \in 2..m : t[i] \notin {Promise!DOLLAR, Promise!HASH}

\* The first n characters of t lead to state s.
Reads(t, n, s) ==
    \/ s = 1 /\ n = 0
    \/ s = 4 /\ n = 1 /\ t[1] \in {NUL, Promise!ANY, Promise!HASH, Promise!HEX}
    \/ s = 5 /\ n = 1 /\ t[1] = Promise!NEWLINE
    \/ s = 6 /\ n = 1 /\ t[1] = Promise!DOLLAR
    \/ s = 7 /\ n = 1 /\ t[1] = Promise!PLUS
    \/ s = 8 /\ n = 1 /\ t[1] = Promise!MINUS
    \/ s = 9 /\ n >= 2 /\ Body(t, n)
    \/ s = 10 /\ n >= 2 /\ Body(t, n - 1) /\ t[n] = Promise!HASH
    \/ s = 11 /\ n >= 3 /\ Body(t, n - 2) /\ t[n - 1] = Promise!HASH /\ t[n] = Promise!HEX
    \/ /\ s = 12 /\ n >= 4 /\ Body(t, n - 3)
       /\ t[n - 2] = Promise!HASH /\ t[n - 1] = Promise!HEX /\ t[n] = Promise!HEX

\* A text leads to one state.
LEMMA ReadsOneState ==
    ASSUME NEW t \in Seq(Promise!Char), NEW n \in Nat, NEW p, NEW q, Reads(t, n, p), Reads(t, n, q)
    PROVE  p = q /\ p \in 1..12 \ {2, 3}
<1>2. /\ Body(t, n) => \A i \in {n - 2, n - 1, n} : i >= 2 => t[i] # Promise!HASH
      /\ Body(t, n - 1) => \A i \in {n - 2, n - 1} : i >= 2 => t[i] # Promise!HASH
      /\ Body(t, n - 2) => (n - 2 >= 2 => t[n - 2] # Promise!HASH)
  BY DEF Body
<1>3. CASE n <= 1
  BY <1>3 DEF Reads
<1>4. CASE n > 1
  BY <1>2, <1>4 DEF Reads
<1> QED
  BY <1>3, <1>4

\* A move that does not get stuck reads one character more.
LEMMA ReadsOn ==
    ASSUME NEW t \in Seq(Promise!Char), NEW n \in Nat, n < Len(t), NEW s, Reads(t, n, s),
           Delta(s, visible(t[n + 1])) # Jam
    PROVE  Reads(t, n + 1, Delta(s, visible(t[n + 1])))
<1> DEFINE c == t[n + 1]
           q == Delta(s, visible(c))
<1>1. c \in 0..7 /\ visible(c) \in 1..7
  BY DEF visible
<1>2. CASE s = 1
  BY <1>1, <1>2 DEF Reads, Delta, visible
<1>3. CASE s \in {6, 9}
  <2>1. n >= 1 /\ Body(t, n)
    BY <1>3 DEF Reads, Body
  <2>2. c # 4 /\ q = IF c = 3 THEN 10 ELSE 9
    BY <1>1, <1>3 DEF Delta, visible
  <2>3. CASE c = 3
    BY <2>1, <2>2, <2>3 DEF Reads
  <2>4. CASE c # 3
    <3>1. Body(t, n + 1)
      BY <2>1, <2>2, <2>4 DEF Body
    <3> QED
      BY <2>1, <2>2, <2>4, <3>1 DEF Reads
  <2> QED
    BY <2>3, <2>4
<1>4. CASE s = 10
  BY <1>1, <1>4 DEF Reads, Delta, visible
<1>5. CASE s = 11
  BY <1>1, <1>5 DEF Reads, Delta, visible
<1>6. CASE s \in {4, 5, 7, 8, 12}
  <2>1. q = Jam
    <3> HIDE DEF c
    <3>1. \A d \in 1..7 : Delta(s, d) = Jam
      BY <1>6, SMTT(40) DEF Delta
    <3> QED
      BY <1>1, <3>1
  <2> QED
    BY <2>1
<1>7. s \in 1..12 \ {2, 3}
  BY ReadsOneState
<1> QED
  BY <1>2, <1>3, <1>4, <1>5, <1>6, <1>7

\* If more characters lead somewhere, so does each step on the way.
LEMMA ReadsPrefix ==
    ASSUME NEW t \in Seq(Promise!Char), NEW n \in Nat, NEW q, Reads(t, n, q), NEW k \in 0..n
    PROVE  \E p \in 1..12 \ {2, 3} : Reads(t, k, p)
<1>1. CASE k = n
  BY <1>1, ReadsOneState
<1>2. CASE k = 0
  BY <1>2 DEF Reads
<1>3. CASE k # 0 /\ k # n
  <2>1. n >= 2 /\ q \in {9, 10, 11, 12}
    BY <1>3 DEF Reads
  <2>2. \A m : Body(t, m) /\ m \in Nat /\ k <= m => Body(t, k)
    BY <1>3 DEF Body
  <2>3. Body(t, k) => Reads(t, k, 6) \/ Reads(t, k, 9)
    BY <1>3 DEF Reads, Body
  <2>4. CASE Body(t, k)
    BY <2>3, <2>4
  <2>5. CASE ~ Body(t, k)
    <3>1. ~ Body(t, n) /\ (q = 9 => FALSE)
      BY <1>3, <2>2, <2>5 DEF Reads
    <3>2. q = 10 => k = n
      BY <1>3, <2>2, <2>5 DEF Reads
    <3>3. q = 11 => k = n - 1
      BY <1>3, <2>2, <2>5 DEF Reads
    <3>4. q = 12 => k \in {n - 1, n - 2}
      BY <1>3, <2>2, <2>5 DEF Reads
    <3>5. q = 11 => Reads(t, k, 10)
      BY <3>3 DEF Reads
    <3>6. q = 12 /\ k = n - 2 => Reads(t, k, 10)
      BY DEF Reads
    <3>7. q = 12 /\ k = n - 1 => Reads(t, k, 11)
      BY DEF Reads
    <3> QED
      BY <1>3, <2>1, <3>1, <3>2, <3>3, <3>4, <3>5, <3>6, <3>7
  <2> QED
    BY <2>4, <2>5
<1> QED
  BY <1>1, <1>2, <1>3

\* Where one character more can be read, it is by a move.
LEMMA ReadsStep ==
    ASSUME NEW t \in Seq(Promise!Char), NEW n \in Nat, n < Len(t),
           NEW p, Reads(t, n, p), NEW q, Reads(t, n + 1, q)
    PROVE  q = Delta(p, visible(t[n + 1]))
<1> DEFINE c == t[n + 1]
<1>1. c \in 0..7 /\ visible(c) \in 1..7
  BY DEF visible
<1>2. Delta(p, visible(c)) # Jam => q = Delta(p, visible(c))
  <2> SUFFICES ASSUME Delta(p, visible(c)) # Jam PROVE q = Delta(p, visible(c))
    OBVIOUS
  <2>1. Reads(t, n + 1, Delta(p, visible(c)))
    BY ReadsOn
  <2> QED
    BY <2>1, ReadsOneState
<1>3. Delta(p, visible(c)) # Jam
  <2>1. CASE q \in {4, 5, 6, 7, 8}
    <3>1. n = 0
      BY <2>1 DEF Reads
    <3>2. p = 1
      BY <3>1 DEF Reads
    <3> QED
      BY <1>1, <3>2 DEF Delta
  <2>2. CASE q = 9
    <3>1. n >= 1 /\ Body(t, n) /\ c # 4
      BY <2>2 DEF Reads, Body
    <3>2. Reads(t, n, 6) \/ Reads(t, n, 9)
      BY <3>1 DEF Reads, Body
    <3>3. p \in {6, 9}
      BY <3>2, ReadsOneState
    <3> QED
      BY <1>1, <3>1, <3>3 DEF Delta, visible
  <2>3. CASE q = 10
    <3>1. n >= 1 /\ Body(t, n) /\ c = 3
      BY <2>3 DEF Reads
    <3>2. Reads(t, n, 6) \/ Reads(t, n, 9)
      BY <3>1 DEF Reads, Body
    <3>3. p \in {6, 9}
      BY <3>2, ReadsOneState
    <3> QED
      BY <1>1, <3>1, <3>3 DEF Delta, visible
  <2>4. CASE q = 11
    <3>1. Reads(t, n, 10) /\ c = 7
      BY <2>4 DEF Reads
    <3>2. p = 10
      BY <3>1, ReadsOneState
    <3> QED
      BY <1>1, <3>1, <3>2 DEF Delta, visible
  <2>5. CASE q = 12
    <3>1. Reads(t, n, 11) /\ c = 7
      BY <2>5 DEF Reads
    <3>2. p = 11
      BY <3>1, ReadsOneState
    <3> QED
      BY <1>1, <3>1, <3>2 DEF Delta, visible
  <2>6. q # 1
    BY DEF Reads
  <2>7. q \in 1..12 \ {2, 3}
    BY ReadsOneState
  <2> QED
    BY <2>1, <2>2, <2>3, <2>4, <2>5, <2>6, <2>7
<1> QED
  BY <1>2, <1>3

\* Where nothing leads on, nothing ever will.
LEMMA ReadsNoMore ==
    ASSUME NEW t \in Seq(Promise!Char), NEW n \in Nat, n < Len(t),
           NEW p, Reads(t, n, p), Delta(p, visible(t[n + 1])) = Jam,
           NEW m \in Nat, n < m, NEW q
    PROVE  ~ Reads(t, m, q)
<1> SUFFICES ASSUME Reads(t, m, q) PROVE FALSE
  OBVIOUS
<1>1. n + 1 \in 0..m
  OBVIOUS
<1>2. PICK s \in 1..12 \ {2, 3} : Reads(t, n + 1, s)
  BY <1>1, ReadsPrefix
<1>3. s = Jam
  BY <1>2, ReadsStep
<1> QED
  BY <1>2, <1>3

--------------------------------------------------------------------------------
(* yy_get_previous_state runs the automaton over the text again.           *)

\* The record of the last match after "$" and more: the "$" alone.
Dollar == [state |-> 6, cpos |-> 1]

\* Running over the text again finds the state, and the match, of the first time.
LEMMA AgainReads ==
    ASSUME NEW text \in Seq(Promise!Char), NEW n \in 0..Len(text), NEW q, Reads(text, n, q)
    PROVE  /\ Again(text, n).state = q
           /\ n >= 2 => Again(text, n).last = Dollar
<1>0. \A i \in 0..n : i # 0 => i \in 1..n /\ i - 1 \in 0..n
  OBVIOUS
<1> DEFINE V == [state : 1..14, last : {last} \cup [state : 1..14, cpos : Nat]]
           v0 == [state |-> 1, last |-> last]
           Then(v, i) == [state |-> Move[v.state][visible(text[i])],
                          last |-> Accepted(v.last, v.state, i - 1)]
           G == [i \in 1..n |-> [v \in V |-> Then(v, i)]]
           Step(f) == f = [i \in 0..n |-> IF i = 0 THEN v0 ELSE Then(f[i - 1], i)]
           walk[i \in 0..n] ==
               IF i = 0
               THEN [state |-> 1, last |-> last]
               ELSE [state |-> Move[walk[i - 1].state][visible(text[i])],
                     last |-> Accepted(walk[i - 1].last, walk[i - 1].state, i - 1)]
<1>1. Again(text, n) = walk[n]
  BY DEF Again, visible
<1>2. walk = CHOOSE f : Step(f)
  OBVIOUS
<1> HIDE DEF walk
<1>3. \A i \in 1..n : text[i] \in 0..7 /\ visible(text[i]) \in 1..7
  BY DEF visible
<1>4. ASSUME NEW i \in 1..n, NEW v \in V PROVE Then(v, i) \in V
  <2>1. Move[v.state][visible(text[i])] \in 1..14
    <3> DEFINE p == v.state
               c == visible(text[i])
    <3>1. p \in 1..14 /\ c \in 0..7
      BY <1>3
    <3> HIDE DEF p, c
    <3>2. Move[p][c] \in 1..14
      BY <3>1, MoveType
    <3> QED
      BY <3>2 DEF p, c
  <2>2. Accepted(v.last, v.state, i - 1) \in {last} \cup [state : 1..14, cpos : Nat]
    BY DEF Accepted
  <2> QED
    BY <2>1, <2>2
<1> HIDE DEF Then
<1>5. PICK f \in [0..n -> V] : IsRecursive(f, n, v0, G)
  <2>1. \A i \in 1..n, v \in V : G[i][v] \in V
    BY <1>4
  <2>2. n \in Nat /\ v0 \in V
    OBVIOUS
  <2> HIDE DEF G, V, v0
  <2> QED
    BY <2>1, <2>2, Recursion
<1>6. Step(f)
  <2>1. ASSUME NEW i \in 0..n
        PROVE  f[i] = IF i = 0 THEN v0 ELSE Then(f[i - 1], i)
    <3>1. CASE i = 0
      BY <1>5, <3>1 DEF IsRecursive
    <3>2. CASE i # 0
      <4>1. i \in 1..n /\ i - 1 \in 0..n
        BY <1>0, <3>2, Zenon
      <4>2. f[i] = G[i][f[i - 1]]
        BY <1>5, <3>2 DEF IsRecursive
      <4> HIDE DEF V
      <4> QED
        BY <3>2, <4>1, <4>2
    <3> QED
      BY <3>1, <3>2
  <2> HIDE DEF V, G, v0
  <2>2. f = [i \in 0..n |-> f[i]]
    BY <1>5
  <2> QED
    BY <2>1, <2>2
<1>7. Step(walk)
  <2> HIDE DEF Step
  <2> QED
    BY <1>2, <1>6
<1> HIDE DEF V, G
<1>8. walk[0] = v0 /\ \A i \in 1..n : walk[i] = Then(walk[i - 1], i)
  BY <1>7
<1> HIDE DEF Step
<1> DEFINE Good(i) == Reads(text, i, walk[i].state) /\ (i >= 2 => walk[i].last = Dollar)
           S == {i \in Nat : i <= n => Good(i)}
<1>9. 0 \in S
  <2>1. walk[0].state = 1
    BY <1>8
  <2> QED
    BY <2>1 DEF Reads
<1>10. ASSUME NEW i \in Nat, i \in S PROVE i + 1 \in S
  <2> SUFFICES ASSUME i + 1 <= n PROVE Good(i + 1)
    OBVIOUS
  <2> DEFINE p == walk[i].state
             c == text[i + 1]
  <2>1. Good(i) /\ i < Len(text) /\ i + 1 \in 1..n /\ i + 1 \in 0..n
    BY <1>10
  <2>2. p \in 1..12 \ {2, 3} /\ visible(c) \in 1..7
    <3>1. Reads(text, i, p) /\ text \in Seq(Promise!Char)
      BY <2>1
    <3> HIDE DEF p
    <3>2. p \in 1..12 \ {2, 3}
      BY <3>1, ReadsOneState
    <3> QED
      BY <1>3, <2>1, <3>2
  <2>3. PICK s \in 1..12 \ {2, 3} : Reads(text, i + 1, s)
    BY <2>1, ReadsPrefix
  <2>4. s = Delta(p, visible(c))
    BY <2>1, <2>3, ReadsStep
  <2>5. Move[p][visible(c)] = s
    <3> DEFINE d == visible(c)
    <3>0. p \in 1..12 \ {2, 3} /\ d \in 1..7 /\ s = Delta(p, d)
      BY <2>2, <2>4
    <3> HIDE DEF p, d
    <3>1. p \in 1..14 \ {2, 14} /\ d \in 0..7 /\ s = Delta(p, d)
      BY <3>0
    <3>2. Move[p][d] = s
      BY <3>1, MoveIsDelta
    <3> QED
      BY <3>2 DEF d
  <2>6. walk[i + 1].state = s /\ walk[i + 1].last = Accepted(walk[i].last, p, i)
    <3>1. walk[i + 1] = Then(walk[i], i + 1)
      BY <1>8, <2>1
    <3> QED
      BY <2>5, <3>1 DEF Then
  <2>7. ASSUME i + 1 >= 2 PROVE walk[i + 1].last = Dollar
    <3>1. CASE i = 1
      <4>1. s \in {9, 10}
        BY <2>3, <3>1 DEF Reads
      <4>2. p = 6
        <5>1. Reads(text, 1, 6)
          BY <2>3, <3>1, <4>1 DEF Reads, Body
        <5>2. Reads(text, 1, p)
          BY <2>1, <3>1
        <5> HIDE DEF p
        <5> QED
          BY <5>1, <5>2, ReadsOneState
      <4> QED
        BY <2>6, <3>1, <4>2, Accepting DEF Accepted, Dollar
    <3>2. CASE i >= 2
      <4>1. p \in {9, 10, 11, 12}
        BY <2>1, <2>2, <3>2 DEF Reads
      <4>2. p # 12
        <5>1. \A d \in 1..7 : Delta(12, d) = Jam
          BY DEF Delta
        <5>2. Jam \notin 1..12 \ {2, 3}
          BY DEF Jam
        <5> QED
          BY <2>2, <2>3, <2>4, <5>1, <5>2, Zenon
      <4> QED
        BY <2>1, <2>6, <3>2, <4>1, <4>2, Accepting DEF Accepted
    <3> QED
      BY <2>7, <3>1, <3>2
  <2> QED
    BY <2>3, <2>6, <2>7
<1> HIDE DEF S
<1>11. n \in S
  BY <1>9, <1>10, Induction
<1>12. Good(n)
  BY <1>11 DEF S
<1> QED
  BY <1>1, <1>12, ReadsOneState

--------------------------------------------------------------------------------
(* The automaton and the patterns.                                         *)

\* The first characters of a text.
LEMMA PrefixOf ==
    ASSUME NEW t \in Seq(Promise!Char), NEW n \in 0..Len(t)
    PROVE  /\ SubSeq(t, 1, n) \in Seq(Promise!Char) /\ Len(SubSeq(t, 1, n)) = n
           /\ \A i \in 1..n : SubSeq(t, 1, n)[i] = t[i]
OBVIOUS

LEMMA TailOf ==
    ASSUME NEW t \in Seq(Promise!Char), NEW k \in 1..(Len(t) + 1)
    PROVE  SubSeq(t, k, Len(t)) \in Seq(Promise!Char) /\ Len(SubSeq(t, k, Len(t))) = Len(t) - k + 1
OBVIOUS

\* State 12 is that of a packet.
LEMMA PacketIsRead ==
    ASSUME NEW t \in Seq(Promise!Char), NEW n \in 4..Len(t)
    PROVE  Promise!IsPacket(SubSeq(t, 1, n)) <=> Reads(t, n, 12)
<1> DEFINE s == SubSeq(t, 1, n)
<1>1. Len(s) = n /\ \A i \in 1..n : s[i] = t[i]
  BY PrefixOf
<1> HIDE DEF s
<1>2. Promise!IsPacket(s) <=>
          /\ t[1] = Promise!DOLLAR
          /\ \A i \in 2..(n - 3) : t[i] \notin {Promise!DOLLAR, Promise!HASH}
          /\ t[n - 2] = Promise!HASH /\ t[n - 1] = Promise!HEX /\ t[n] = Promise!HEX
  BY <1>1 DEF Promise!IsPacket
<1> QED
  BY <1>2 DEF Reads, Body, s

\* The states of the prefixes of packets.
LEMMA OpenIsRead ==
    ASSUME NEW t \in Seq(Promise!Char)
    PROVE  Promise!IsOpen(t) <=> t = <<>> \/ \E p \in {6, 9, 10, 11} : Reads(t, Len(t), p)
<1> DEFINE n == Len(t)
           one == t \o <<Promise!HEX>>
           two == t \o <<Promise!HEX, Promise!HEX>>
<1>1. /\ Len(one) = n + 1 /\ one[n + 1] = Promise!HEX
      /\ \A i \in 1..n : one[i] = t[i]
  OBVIOUS
<1>2. /\ Len(two) = n + 2 /\ two[n + 1] = Promise!HEX /\ two[n + 2] = Promise!HEX
      /\ \A i \in 1..n : two[i] = t[i]
  OBVIOUS
<1> HIDE DEF one, two
<1>3. ASSUME t # <<>> PROVE n >= 1 /\ n \in Nat
  BY <1>3
<1>4. ASSUME t # <<>>
      PROVE  (t[1] = Promise!DOLLAR /\ \A i \in 2..n : t[i] \notin {Promise!DOLLAR, Promise!HASH})
                 <=> (Reads(t, n, 6) \/ Reads(t, n, 9))
  <2>1. n >= 1 /\ n \in Nat
    BY <1>3, <1>4
  <2> HIDE DEF n
  <2>2. Reads(t, n, 6) <=> n = 1 /\ t[1] = Promise!DOLLAR
    BY DEF Reads
  <2>3. Reads(t, n, 9) <=> n >= 2 /\ Body(t, n)
    BY DEF Reads
  <2> QED
    BY <2>1, <2>2, <2>3 DEF Body
<1>5. ASSUME t # <<>> PROVE Promise!IsPacket(one) <=> Reads(t, n, 11)
  <2>1. Promise!IsPacket(one) <=>
          /\ n + 1 >= 4
          /\ t[1] = Promise!DOLLAR
          /\ \A i \in 2..(n - 2) : t[i] \notin {Promise!DOLLAR, Promise!HASH}
          /\ t[n - 1] = Promise!HASH /\ t[n] = Promise!HEX
    <3>1. n \in Nat /\ Len(one) = n + 1
      BY <1>1, <1>3, <1>5
    <3>2. \A i \in 1..n : one[i] = t[i]
      BY <1>1
    <3>3. one[n + 1] = Promise!HEX
      BY <1>1
    <3> HIDE DEF n
    <3>4. /\ Len(one) - 3 = n - 2 /\ Len(one) - 2 = n - 1 /\ Len(one) - 1 = n
          /\ Len(one) >= 4 <=> n >= 3
      BY <3>1
    <3>5. CASE n >= 3
      <4>1. one[1] = t[1] /\ one[n - 1] = t[n - 1] /\ one[n] = t[n]
        BY <3>1, <3>2, <3>5
      <4>2. \A i \in 2..(n - 2) : one[i] = t[i]
        BY <3>1, <3>2
      <4>3. n + 1 >= 4
        BY <3>1, <3>5
      <4> QED
        BY <3>1, <3>3, <3>4, <3>5, <4>1, <4>2, <4>3 DEF Promise!IsPacket
    <3>6. CASE ~ n >= 3
      BY <3>1, <3>6 DEF Promise!IsPacket
    <3> QED
      BY <3>5, <3>6
  <2> QED
    BY <1>3, <1>5, <2>1 DEF Reads, Body
<1>6. ASSUME t # <<>> PROVE Promise!IsPacket(two) <=> Reads(t, n, 10)
  <2>1. Promise!IsPacket(two) <=>
          /\ n + 2 >= 4
          /\ t[1] = Promise!DOLLAR
          /\ \A i \in 2..(n - 1) : t[i] \notin {Promise!DOLLAR, Promise!HASH}
          /\ t[n] = Promise!HASH
    <3>1. n \in Nat /\ Len(two) = n + 2
      BY <1>2, <1>3, <1>6
    <3>2. \A i \in 1..n : two[i] = t[i]
      BY <1>2
    <3>3. two[n + 1] = Promise!HEX /\ two[n + 2] = Promise!HEX
      BY <1>2
    <3> HIDE DEF n
    <3>4. /\ Len(two) - 3 = n - 1 /\ Len(two) - 2 = n /\ Len(two) - 1 = n + 1
          /\ Len(two) >= 4 <=> n >= 2
      BY <3>1
    <3>5. CASE n >= 2
      <4>1. two[1] = t[1] /\ two[n] = t[n]
        BY <3>1, <3>2, <3>5
      <4>2. \A i \in 2..(n - 1) : two[i] = t[i]
        BY <3>1, <3>2
      <4>3. n + 2 >= 4
        BY <3>1, <3>5
      <4> QED
        BY <3>1, <3>3, <3>4, <3>5, <4>1, <4>2, <4>3 DEF Promise!IsPacket
    <3>6. CASE ~ n >= 2
      BY <3>1, <3>6 DEF Promise!IsPacket
    <3> QED
      BY <3>5, <3>6
  <2> QED
    BY <1>3, <1>6, <2>1 DEF Reads, Body
<1> QED
  BY <1>4, <1>5, <1>6 DEF Promise!IsOpen, one, two

\* When the automaton has got stuck, or the text is over, before a packet was read,
\* no packet starts here, and none is open unless the text is over.
NoPacket(t) == \A n \in 4..Len(t) : ~ Promise!IsPacket(SubSeq(t, 1, n))

LEMMA Decided ==
    ASSUME NEW t \in Seq(Promise!Char), NEW n \in 1..Len(t), NEW p, Reads(t, n, p), p # 12,
           n < Len(t) => Delta(p, visible(t[n + 1])) = Jam
    PROVE  NoPacket(t) /\ (Promise!IsOpen(t) => n = Len(t) /\ p \in {6, 9, 10, 11})
<1>1. ASSUME NEW m \in 4..Len(t), Reads(t, m, 12) PROVE FALSE
  <2>1. CASE m = n
    BY <1>1, <2>1, ReadsOneState
  <2>2. CASE m > n
    BY <1>1, <2>2, ReadsNoMore
  <2>3. CASE m < n
    <3>1. m \in Nat /\ m < Len(t) /\ m + 1 \in 0..n
      BY <2>3
    <3>2. PICK s \in 1..12 \ {2, 3} : Reads(t, m + 1, s)
      BY <3>1, ReadsPrefix
    <3>3. s = Delta(12, visible(t[m + 1]))
      BY <1>1, <3>1, <3>2, ReadsStep
    <3>4. t[m + 1] \in 0..7
      BY <3>1
    <3> QED
      BY <3>2, <3>3, <3>4 DEF Delta, visible
  <2> QED
    BY <2>1, <2>2, <2>3
<1>2. NoPacket(t)
  BY <1>1, PacketIsRead DEF NoPacket
<1>3. ASSUME Promise!IsOpen(t) PROVE n = Len(t) /\ p \in {6, 9, 10, 11}
  <2>1. PICK s \in {6, 9, 10, 11} : Reads(t, Len(t), s)
    BY <1>3, OpenIsRead
  <2>2. n = Len(t)
    <3> SUFFICES ASSUME n < Len(t) PROVE FALSE
      OBVIOUS
    <3>1. Len(t) \in Nat /\ n \in Nat
      OBVIOUS
    <3> QED
      BY <2>1, <3>1, ReadsNoMore
  <2> QED
    BY <2>1, <2>2, ReadsOneState
<1> QED
  BY <1>2, <1>3

\* A text read on: what was read of it stays read.
LEMMA ReadsSame ==
    ASSUME NEW t, NEW u, NEW n \in Nat, \A i \in 1..n : u[i] = t[i],
           NEW s, Reads(t, n, s)
    PROVE  Reads(u, n, s)
BY DEF Reads, Body

--------------------------------------------------------------------------------
(* The invariant: at each label, what the characters read say of the state, *)
(* of the record of the last match and of the action.                       *)

\* The states in which a token may go on.
Going == {1, 4, 6, 9, 10, 11}

LEMMA GoingAccepts == \A s \in Going : yy_accept(s) # 0 <=> s \in {4, 6}
BY Accepting DEF Going

\* The first n characters of t lead to s, from where the scanner goes on.
Live(t, n, s) == n <= Len(t) /\ Reads(t, n, s) /\ s \in Going /\ (s = 4 => t[1] = NUL)

\* Where the scanner was going on, it found a NUL, or the end of the buffer.
AtNul(t, n) ==
    /\ n \in 1..(Len(t) + 1)
    /\ n <= Len(t) => t[n] = NUL
    /\ \E p \in Going : Live(t, n - 1, p)

\* The first character is a token by itself.
Alone(t, over) == t # <<>> /\ NoPacket(t) /\ (Promise!IsOpen(t) => over)

Typed ==
    /\ chars \in Seq(Promise!Char)
    /\ yy_cp \in Nat /\ yy_buf_size \in Nat /\ len \in Nat
    /\ eof_pending \in BOOLEAN /\ closed \in BOOLEAN

Bounded == Len(chars) < yy_buf_size /\ len < MAX_ERROR_SIZE

MatchOK ==
    \/ state # 3 /\ Live(chars, yy_cp, state) /\ (yy_cp >= 2 => last = Dollar)
    \/ state = 3 /\ AtNul(chars, yy_cp)

FindOK ==
    \/ state = 12 /\ yy_cp <= Len(chars) /\ Reads(chars, yy_cp, 12)
    \/ state \in 4..8 /\ yy_cp = 1 /\ Reads(chars, 1, state) /\ Alone(chars, closed)
    \/ /\ state \in {9, 10, 11, 13} /\ Alone(chars, closed)
       /\ \E s \in {4, 6} : last = [state |-> s, cpos |-> 1] /\ Reads(chars, 1, s)
    \/ /\ state = 13
       /\ \E n \in 1..(Len(chars) + 1) : last = [state |-> 3, cpos |-> n] /\ AtNul(chars, n)

\* The kind of token of an action.
Kind(act) == CASE act = 1 -> "ack" [] act = 2 -> "nak" [] act = 4 -> "invalid" [] act = 5 -> "echo"

ActionOK ==
    \/ yy_act = 6 /\ state = 3 /\ AtNul(chars, yy_cp)
    \/ yy_act = 3 /\ yy_cp <= Len(chars) /\ Reads(chars, yy_cp, 12)
    \/ /\ yy_act \in {1, 2, 4, 5} /\ yy_cp = 1 /\ Alone(chars, closed)
       /\ Promise!KindOf(chars[1]) = Kind(yy_act)
    \/ yy_act = EOF_ACT /\ chars = <<>> /\ closed /\ yy_cp = 0

EndOK ==
    /\ eof_pending => closed
    /\ closed => eof_pending \/ (at = "action" /\ yy_act = EOF_ACT) \/ at = "returned"

IInv ==
    /\ Typed /\ Bounded /\ EndOK
    /\ at = "match" => MatchOK
    /\ at = "find" => FindOK
    /\ at = "action" => ActionOK

--------------------------------------------------------------------------------
(* The match loop.                                                         *)

\* The parts of the invariant that no step of the automaton touches.
Frame == UNCHANGED <<chars, yy_buf_size, eof_pending, len, closed>>

\* A step of the automaton keeps the rest of the invariant.
LEMMA FrameKeeps ==
    ASSUME IInv, Frame, yy_cp' \in Nat, at \in {"match", "find", "action"},
           at = "action" => yy_act # EOF_ACT
    PROVE  Typed' /\ Bounded' /\ EndOK'
BY DEF IInv, Frame, Typed, Bounded, EndOK

\* The match loop stops where nothing leads on, or where it is stuck.
LEMMA StopStates ==
    \A s \in 1..13 : Stops(s) <=> s \in {4, 5, 7, 8, 12, 13}
BY Bases DEF Stops

\* Where a character that is not NUL leads: on; to a packet; to a character that is
\* a token by itself; or nowhere, and the first character is one.
Moved(t, n, q, new, over) ==
    \/ q \in {6, 9, 10, 11} /\ Live(t, n + 1, q) /\ (n + 1 >= 2 => new = Dollar)
    \/ q = 12 /\ Reads(t, n + 1, 12)
    \/ q \in {4, 5, 7, 8} /\ n = 0 /\ Reads(t, 1, q) /\ Alone(t, over)
    \/ /\ q = Jam /\ Alone(t, over)
       /\ \E a \in {4, 6} : new = [state |-> a, cpos |-> 1] /\ Reads(t, 1, a)

LEMMA MatchCharacter ==
    ASSUME NEW t \in Seq(Promise!Char), NEW n \in Nat, NEW s, Live(t, n, s), n < Len(t),
           NEW c, c = t[n + 1], c # NUL, NEW q, q = Delta(s, c),
           NEW record, n >= 2 => record = Dollar,
           NEW new, new = Accepted(record, s, n), NEW over
    PROVE  Moved(t, n, q, new, over)
<1>1. c \in 1..7 /\ visible(c) = c /\ s \in Going /\ Reads(t, n, s)
  BY DEF visible, Live
<1>2. new = IF s \in {4, 6} THEN [state |-> s, cpos |-> n] ELSE record
  BY <1>1, GoingAccepts DEF Accepted
<1>3. /\ s \in {4, 6} => n = 1
      /\ s = 1 => n = 0
      /\ s \in {9, 10, 11} => n >= 2 /\ Reads(t, 1, 6)
  BY <1>1 DEF Reads, Body
<1>4. CASE q = Jam
  <2>1. s # 1
    BY <1>1, <1>4 DEF Delta
  <2>2. n \in 1..Len(t)
    BY <1>1, <1>3, <2>1 DEF Going
  <2>3. NoPacket(t) /\ ~ Promise!IsOpen(t)
    <3>1. Delta(s, visible(t[n + 1])) = Jam
      BY <1>1, <1>4
    <3>2. s # 12 /\ Reads(t, n, s)
      BY <1>1 DEF Going
    <3>3. n # Len(t)
      OBVIOUS
    <3> QED
      BY <2>2, <3>1, <3>2, <3>3, Decided
  <2>4. Alone(t, over)
    BY <2>2, <2>3 DEF Alone
  <2>5. \E a \in {4, 6} : new = [state |-> a, cpos |-> 1] /\ Reads(t, 1, a)
    <3>1. CASE s \in {4, 6}
      BY <1>1, <1>2, <1>3, <3>1
    <3>2. CASE s \in {9, 10, 11}
      BY <1>2, <1>3, <3>2 DEF Dollar
    <3> QED
      BY <1>1, <2>1, <3>1, <3>2 DEF Going
  <2> QED
    BY <1>4, <2>4, <2>5 DEF Moved
<1>5. CASE q # Jam
  <2>1. Reads(t, n + 1, q)
    BY <1>1, <1>5, ReadsOn
  <2>2. q \in 4..12
    BY <2>1, ReadsOneState DEF Reads
  <2>3. CASE q \in {4, 5, 7, 8}
    <3>1. n = 0 /\ Reads(t, 1, q)
      BY <2>1, <2>3, SMTT(40) DEF Reads
    <3>2. ASSUME 1 < Len(t) PROVE Delta(q, visible(t[2])) = Jam
      <4>1. t[2] \in 0..7
        BY <3>2
      <4> QED
        BY <2>3, <4>1 DEF Delta, visible
    <3>3. NoPacket(t) /\ ~ Promise!IsOpen(t)
      BY <2>3, <3>1, <3>2, Decided
    <3>4. Alone(t, over)
      BY <3>1, <3>3 DEF Alone
    <3> QED
      BY <2>3, <3>1, <3>4 DEF Moved
  <2>4. CASE q \in {6, 9, 10, 11}
    <3>1. Live(t, n + 1, q)
      BY <2>1, <2>4 DEF Live, Going
    <3>2. s # 4
      BY <1>1, <1>5 DEF Delta
    <3>3. n + 1 >= 2 => new = Dollar
      BY <1>1, <1>2, <1>3, <3>2 DEF Dollar, Going
    <3> QED
      BY <2>4, <3>1, <3>3 DEF Moved
  <2> QED
    BY <1>5, <2>1, <2>2, <2>3, <2>4 DEF Moved
<1> QED
  BY <1>4, <1>5

\* An iteration of the match loop keeps the invariant; the rules see nothing of it.
LEMMA MatchStep ==
    ASSUME IInv, Match PROVE IInv' /\ Promise!Handled
<1> DEFINE n == yy_cp
           s == state
           c == CharAt(n)
<1>1. /\ chars \in Seq(Promise!Char) /\ n \in Nat /\ MatchOK /\ Frame
      /\ last' = Accepted(last, s, n) /\ state' = Move[s][c] /\ n' = n + 1
      /\ at' = IF Stops(state') THEN "find" ELSE "match"
      /\ token' = Promise!NoToken
  BY DEF IInv, Typed, Match, Frame
<1>2. Typed' /\ Bounded' /\ EndOK'
  BY <1>1, FrameKeeps DEF Match
<1>3. Promise!Handled
  BY <1>1 DEF Promise!Handled, Frame
<1>4. chars' = chars /\ closed' = closed
  BY <1>1 DEF Frame
<1>5. c \in 0..7 /\ s \in Going \cup {3} /\ state' = Delta(s, c)
  <2>1. c \in 0..7
    BY <1>1 DEF CharAt
  <2>2. s \in Going \cup {3}
    BY <1>1 DEF MatchOK, Live
  <2>3. s \in 1..14 \ {2, 14}
    BY <2>2 DEF Going
  <2> HIDE DEF c, s
  <2> QED
    BY <1>1, <2>1, <2>2, <2>3, MoveIsDelta
<1> HIDE DEF n, s, c
<1>6. (at' = "match" => MatchOK') /\ (at' = "find" => FindOK') /\ at' # "action"
  <2>1. CASE s = 3
    <3>1. state' = 13
      BY <1>5, <2>1 DEF Delta
    <3>2. at' = "find"
      BY <1>1, <3>1, StopStates
    <3>3. last' = [state |-> 3, cpos |-> n] /\ AtNul(chars, n)
      BY <1>1, <2>1, Accepting DEF Accepted, MatchOK, s, n
    <3> QED
      BY <1>4, <3>1, <3>2, <3>3 DEF FindOK, AtNul
  <2>2. CASE s # 3 /\ c = NUL
    <3>1. state' = 3
      BY <1>5, <2>2 DEF Delta
    <3>2. at' = "match"
      BY <1>1, <3>1, StopStates
    <3>3. Live(chars, n, s) /\ n <= Len(chars)
      BY <1>1, <2>2 DEF MatchOK, s, n, Live
    <3>4. n + 1 <= Len(chars) => chars[n + 1] = NUL
      BY <1>1, <2>2 DEF c, CharAt
    <3>5. AtNul(chars, n + 1)
      BY <1>1, <1>5, <2>2, <3>3, <3>4 DEF AtNul
    <3> QED
      BY <1>1, <1>4, <3>1, <3>2, <3>5 DEF MatchOK, n
  <2>3. CASE s # 3 /\ c # NUL
    <3> DEFINE q == state'
               new == last'
    <3>1. n < Len(chars) /\ c = chars[n + 1]
      BY <1>1, <2>3 DEF c, CharAt
    <3>2. Live(chars, n, s) /\ (n >= 2 => last = Dollar)
      BY <1>1, <2>3 DEF MatchOK, s, n
    <3>3. q = Delta(s, c) /\ new = Accepted(last, s, n)
      BY <1>1, <1>5, <2>3, <3>1
    <3> HIDE DEF q, new
    <3>10. Moved(chars, n, q, new, closed)
      BY <1>1, <2>3, <3>1, <3>2, <3>3, MatchCharacter
    <3>4. \/ q \in {6, 9, 10, 11} /\ Live(chars, n + 1, q) /\ (n + 1 >= 2 => new = Dollar)
          \/ q = 12 /\ Reads(chars, n + 1, 12)
          \/ q \in {4, 5, 7, 8} /\ n = 0 /\ Reads(chars, 1, q) /\ Alone(chars, closed)
          \/ /\ q = Jam /\ Alone(chars, closed)
             /\ \E a \in {4, 6} : new = [state |-> a, cpos |-> 1] /\ Reads(chars, 1, a)
      BY <3>10 DEF Moved
    <3>5. CASE q \in {6, 9, 10, 11} /\ Live(chars, n + 1, q) /\ (n + 1 >= 2 => new = Dollar)
      <4>1. at' = "match"
        <5>1. q \in 1..13 /\ ~ Stops(q)
          BY <3>5, StopStates
        <5> QED
          BY <1>1, <5>1 DEF q
      <4> QED
        BY <1>1, <1>4, <3>5, <4>1 DEF MatchOK, q, new, n
    <3>6. CASE q = 12 /\ Reads(chars, n + 1, 12)
      <4>1. at' = "find"
        BY <1>1, <3>6, StopStates DEF q
      <4> QED
        BY <1>1, <1>4, <3>1, <3>6, <4>1 DEF FindOK, q, n
    <3>7. CASE q \in {4, 5, 7, 8} /\ n = 0 /\ Reads(chars, 1, q) /\ Alone(chars, closed)
      <4>1. at' = "find"
        BY <1>1, <3>7, StopStates DEF q
      <4> QED
        BY <1>1, <1>4, <3>7, <4>1 DEF FindOK, q, n
    <3>8. CASE /\ q = Jam /\ Alone(chars, closed)
               /\ \E a \in {4, 6} : new = [state |-> a, cpos |-> 1] /\ Reads(chars, 1, a)
      <4>1. at' = "find"
        BY <1>1, <3>8, StopStates DEF q
      <4> QED
        BY <1>1, <1>4, <3>8, <4>1 DEF FindOK, q, new
    <3> QED
      BY <3>4, <3>5, <3>6, <3>7, <3>8
  <2> QED
    BY <2>1, <2>2, <2>3
<1> QED
  BY <1>2, <1>3, <1>6 DEF IInv

--------------------------------------------------------------------------------
(* The action found, and the rules.                                        *)

\* What the rules see does not change.
Silent == UNCHANGED Promise!rules

Simulated == [Promise!Rules]_(Promise!rules)

\* The action found is that of the last match; the rules see nothing of it.
LEMMA FindStep ==
    ASSUME IInv, FindAction PROVE IInv' /\ Silent
<1>1. /\ chars \in Seq(Promise!Char) /\ FindOK /\ at = "find" /\ at' = "action"
      /\ yy_accept(state) # 0 => yy_cp' = yy_cp /\ state' = state
      /\ yy_accept(state) = 0 => yy_cp' = last.cpos /\ state' = last.state
      /\ yy_act' = yy_accept(state')
      /\ chars' = chars /\ closed' = closed /\ Frame /\ token' = token
  BY DEF IInv, Typed, FindAction, Frame
<1>2. Silent
  BY <1>1 DEF Silent, Promise!rules, Frame
<1>3. yy_cp' \in Nat /\ ActionOK'
  <2>1. CASE state = 12 /\ yy_cp <= Len(chars) /\ Reads(chars, yy_cp, 12)
    <3>1. yy_cp \in Nat
      BY DEF IInv, Typed
    <3> QED
      BY <1>1, <2>1, <3>1, Accepting DEF ActionOK
  <2>2. CASE \E s \in {4, 6} : /\ yy_cp' = 1 /\ yy_act' = yy_accept(s) /\ Reads(chars, 1, s)
                               /\ Alone(chars, closed)
    <3>1. Promise!KindOf(chars[1]) = "invalid" /\ yy_act' = 4
      BY <2>2, Accepting DEF Reads, Promise!KindOf
    <3> QED
      BY <1>1, <2>2, <3>1 DEF ActionOK, Kind
  <2>3. CASE state \in 4..8 /\ yy_cp = 1 /\ Reads(chars, 1, state) /\ Alone(chars, closed)
    <3>1. state \in {4, 6} => yy_accept(state) # 0
      BY Accepting
    <3>2. CASE state \in {4, 6}
      BY <1>1, <2>2, <2>3, <3>1, <3>2
    <3>3. CASE state = 5
      <4>1. Promise!KindOf(chars[1]) = "echo" /\ yy_act' = 5 /\ yy_cp' = 1
        BY <1>1, <2>3, <3>3, Accepting DEF Reads, Promise!KindOf
      <4> QED
        BY <1>1, <2>3, <4>1 DEF ActionOK, Kind
    <3>4. CASE state = 7
      <4>1. Promise!KindOf(chars[1]) = "ack" /\ yy_act' = 1 /\ yy_cp' = 1
        BY <1>1, <2>3, <3>4, Accepting DEF Reads, Promise!KindOf
      <4> QED
        BY <1>1, <2>3, <4>1 DEF ActionOK, Kind
    <3>5. CASE state = 8
      <4>1. Promise!KindOf(chars[1]) = "nak" /\ yy_act' = 2 /\ yy_cp' = 1
        BY <1>1, <2>3, <3>5, Accepting DEF Reads, Promise!KindOf
      <4> QED
        BY <1>1, <2>3, <4>1 DEF ActionOK, Kind
    <3> QED
      BY <2>3, <3>2, <3>3, <3>4, <3>5
  <2>4. CASE /\ state \in {9, 10, 11, 13} /\ Alone(chars, closed)
             /\ \E s \in {4, 6} : last = [state |-> s, cpos |-> 1] /\ Reads(chars, 1, s)
    <3>1. yy_accept(state) = 0
      BY <2>4, Accepting
    <3> QED
      BY <1>1, <2>2, <2>4, <3>1
  <2>5. CASE /\ state = 13
             /\ \E n \in 1..(Len(chars) + 1) :
                    last = [state |-> 3, cpos |-> n] /\ AtNul(chars, n)
    <3>1. yy_accept(state) = 0
      BY <2>5, Accepting
    <3>2. state' = 3 /\ yy_act' = 6 /\ yy_cp' \in Nat /\ AtNul(chars, yy_cp')
      BY <1>1, <2>5, <3>1, Accepting
    <3> QED
      BY <1>1, <3>2 DEF ActionOK, AtNul
  <2> QED
    BY <1>1, <2>1, <2>3, <2>4, <2>5 DEF FindOK
<1>4. Typed' /\ Bounded' /\ EndOK'
  BY <1>1, <1>3, FrameKeeps
<1> QED
  BY <1>1, <1>2, <1>3, <1>4 DEF IInv

\* The next token starts where this one ends.
LEMMA NextTokenStep ==
    ASSUME IInv, at = "action", yy_act # EOF_ACT, yy_cp \in 1..Len(chars), NextToken,
           len' \in Nat, len' < MAX_ERROR_SIZE
    PROVE  IInv'
<1>1. chars \in Seq(Promise!Char) /\ Len(chars) < yy_buf_size
  BY DEF IInv, Typed, Bounded
<1>2. chars' \in Seq(Promise!Char) /\ Len(chars') < yy_buf_size
  <2> DEFINE k == yy_cp + 1
             rest == SubSeq(chars, k, Len(chars))
  <2>1. k \in 1..(Len(chars) + 1) /\ Len(chars) \in Nat /\ chars' = rest
    BY <1>1 DEF NextToken
  <2>2. yy_buf_size \in Nat /\ k >= 2
    BY DEF IInv, Typed
  <2> HIDE DEF k
  <2> HIDE DEF rest
  <2>3. rest \in Seq(Promise!Char) /\ Len(rest) = Len(chars) - k + 1
    BY <1>1, <2>1, TailOf DEF rest
  <2> HIDE DEF rest
  <2> QED
    BY <1>1, <2>1, <2>2, <2>3
<1>3. Typed' /\ Bounded' /\ EndOK'
  BY <1>2 DEF IInv, Typed, Bounded, EndOK, NextToken
<1>4. MatchOK' /\ at' = "match"
  BY <1>2 DEF NextToken, MatchOK, Live, Reads, Going
<1> QED
  BY <1>3, <1>4 DEF IInv

\* A character that is a token by itself is what no packet starts with.
LEMMA SingleStep ==
    ASSUME IInv, Ack \/ Nak \/ Invalid \/ Echo PROVE IInv' /\ Promise!Rules
<1>1. /\ at = "action" /\ yy_act \in {1, 2, 4, 5} /\ NextToken
      /\ len \in Nat /\ len < MAX_ERROR_SIZE /\ chars \in Seq(Promise!Char)
      /\ closed' = closed
  BY DEF Ack, Nak, Invalid, Echo, Serve, IInv, Typed, Bounded, NextToken
<1>2. yy_cp = 1 /\ Alone(chars, closed) /\ Promise!KindOf(chars[1]) = Kind(yy_act)
  BY <1>1 DEF IInv, ActionOK, EOF_ACT
<1>3. len' \in Nat /\ len' < MAX_ERROR_SIZE
  <2>1. CASE Ack \/ Nak
    BY <2>1, ScannerAssumption DEF Ack, Nak, Serve
  <2>2. CASE Invalid
    BY <1>1, <2>2, ScannerAssumption DEF Invalid, ErrorIsFull
  <2>3. CASE Echo
    BY <1>1, <2>3 DEF Echo
  <2> QED
    BY <2>1, <2>2, <2>3
<1>4. 1 \in 1..Len(chars)
  BY <1>1, <1>2 DEF Alone
<1>5. IInv'
  BY <1>1, <1>2, <1>3, <1>4, NextTokenStep DEF EOF_ACT
<1>6. Promise!Emit(Kind(yy_act), 1)
  <2>1. chars' = SubSeq(chars, 2, Len(chars))
    BY <1>1, <1>2 DEF NextToken
  <2>2. CASE Ack
    BY <1>1, <1>2, <2>1, <2>2 DEF Ack, Serve, Token, Report, Kind, Promise!Emit
  <2>3. CASE Nak
    BY <1>1, <1>2, <2>1, <2>3 DEF Nak, Serve, Token, Report, Kind, Promise!Emit
  <2>4. CASE Invalid
    <3> DEFINE early == ErrorIsFull /\ len > 0
    <3>1. token' = [kind |-> "invalid", text |-> SubSeq(chars, 1, 1), report |-> early]
      BY <1>2, <2>4 DEF Invalid, Token, Report
    <3>2. Kind(yy_act) = "invalid" /\ len' > 0 /\ closed' = closed
      BY <1>1, <2>4 DEF Invalid, Kind
    <3>3. early \in BOOLEAN /\ (early => len > 0)
      BY DEF ErrorIsFull
    <3> HIDE DEF early
    <3>4. token' \in [kind : {"invalid"}, text : {SubSeq(chars, 1, 1)}, report : BOOLEAN]
      BY <3>1, <3>3
    <3>5. token'.report => len > 0
      BY <3>1, <3>3
    <3> QED
      BY <2>1, <3>2, <3>4, <3>5 DEF Promise!Emit
  <2>5. CASE Echo
    BY <1>1, <1>2, <2>1, <2>5 DEF Echo, Token, Kind, Promise!Emit
  <2> QED
    BY <2>2, <2>3, <2>4, <2>5
<1>7. Promise!Single
  BY <1>2, <1>6 DEF Promise!Single, Alone, NoPacket
<1> QED
  BY <1>5, <1>7 DEF Promise!Rules

\* The text of the action of a packet is a packet.
LEMMA PacketStep ==
    ASSUME IInv, Packet PROVE IInv' /\ Promise!Rules
<1>1. /\ at = "action" /\ yy_act = 3 /\ NextToken /\ Token("packet", Report) /\ len' = 0
      /\ len \in Nat /\ chars \in Seq(Promise!Char) /\ closed' = closed /\ yy_cp \in Nat
  BY DEF Packet, Serve, IInv, Typed, NextToken
<1>2. yy_cp <= Len(chars) /\ Reads(chars, yy_cp, 12)
  BY <1>1 DEF IInv, ActionOK, EOF_ACT
<1>3. yy_cp \in 4..Len(chars)
  BY <1>1, <1>2 DEF Reads
<1>4. IInv'
  <2>1. len' \in Nat /\ len' < MAX_ERROR_SIZE
    BY <1>1, ScannerAssumption
  <2> QED
    BY <1>1, <1>3, <2>1, NextTokenStep DEF EOF_ACT
<1>5. Promise!IsPacket(SubSeq(chars, 1, yy_cp))
  BY <1>1, <1>2, <1>3, PacketIsRead
<1>6. Promise!Emit("packet", yy_cp)
  BY <1>1 DEF NextToken, Token, Report, Promise!Emit
<1>7. Promise!Packet
  BY <1>3, <1>5, <1>6 DEF Promise!Packet
<1> QED
  BY <1>4, <1>7 DEF Promise!Rules

\* yylex returns when everything has been served.
LEMMA EofStep ==
    ASSUME IInv, Eof PROVE IInv' /\ Promise!Rules
<1>1. /\ at = "action" /\ yy_act = 7 /\ Token("end", Report) /\ len' = 0 /\ at' = "returned"
      /\ UNCHANGED <<chars, yy_buf_size, eof_pending, yy_cp, closed>>
  BY DEF Eof, EOF_ACT
<1>2. chars = <<>> /\ closed /\ yy_cp = 0
  BY <1>1 DEF IInv, ActionOK, EOF_ACT
<1>3. IInv'
  BY <1>1, <1>2, ScannerAssumption DEF IInv, Typed, Bounded, EndOK
<1>4. Promise!Emit("end", 0)
  <2>1. chars' = SubSeq(chars, 1, Len(chars))
    BY <1>1, <1>2
  <2>2. len \in Nat
    BY DEF IInv, Typed
  <2> QED
    BY <1>1, <1>2, <2>1, <2>2 DEF Token, Report, Promise!Emit
<1> QED
  BY <1>2, <1>3, <1>4 DEF Promise!Rules, Promise!End

--------------------------------------------------------------------------------
(* YY_END_OF_BUFFER: the automaton is sent back over the text.             *)

\* Nothing leads on from state s after n characters: the first is a token.
LEMMA StuckAt ==
    ASSUME NEW t \in Seq(Promise!Char), NEW n \in 1..Len(t), NEW s \in Going, Reads(t, n, s),
           n < Len(t) => Delta(s, visible(t[n + 1])) = Jam,
           NEW over, over \/ n < Len(t)
    PROVE  /\ Alone(t, over)
           /\ (n = 1 /\ s \in {4, 6}) \/ (n >= 2 /\ s \in {9, 10, 11} /\ Reads(t, 1, 6))
<1>1. NoPacket(t) /\ (Promise!IsOpen(t) => n = Len(t))
  BY Decided DEF Going
<1>2. Alone(t, over)
  BY <1>1 DEF Alone
<1>3. (n = 1 /\ s \in {4, 6}) \/ (n >= 2 /\ s \in {9, 10, 11} /\ Reads(t, 1, 6))
  BY DEF Reads, Body, Going
<1> QED
  BY <1>2, <1>3

\* What AtNul says of the text before the NUL, and of running over it again.
LEMMA Back ==
    ASSUME NEW t \in Seq(Promise!Char), NEW n \in Nat, AtNul(t, n + 1),
           NEW u \in Seq(Promise!Char), n <= Len(u), \A i \in 1..n : u[i] = t[i]
    PROVE  \E p \in Going : /\ Live(u, n, p) /\ Again(u, n).state = p
                            /\ n >= 2 => Again(u, n).last = Dollar
<1>1. PICK p \in Going : Live(t, n, p)
  BY DEF AtNul
<1>2. Reads(u, n, p)
  BY <1>1, ReadsSame DEF Live
<1>3. p = 4 => u[1] = NUL
  BY <1>1 DEF Live, Reads
<1>4. n \in 0..Len(u)
  OBVIOUS
<1> QED
  BY <1>1, <1>2, <1>3, <1>4, AgainReads DEF Live

\* A NUL that is not the end of the buffer is tried as an ordinary character.
LEMMA RealNulStep ==
    ASSUME IInv, RealNul PROVE IInv' /\ Silent
<1> DEFINE n == yy_cp - 1
           before == Again(chars, n)
           next == Move[before.state][1]
           new == Accepted(before.last, before.state, n)
<1>1. /\ chars \in Seq(Promise!Char) /\ yy_cp \in 1..Len(chars) /\ AtNul(chars, yy_cp)
      /\ at = "action" /\ yy_act = 6 /\ Frame /\ token' = token /\ last' = new
      /\ next # Jam => state' = next /\ at' = "match" /\ yy_cp' = yy_cp
      /\ next = Jam => state' = before.state /\ at' = "find" /\ yy_cp' = n
  BY DEF IInv, Typed, ActionOK, RealNul, EOF_ACT, Frame, AtNul
<1>2. n \in Nat /\ n < Len(chars) /\ n + 1 = yy_cp
  BY <1>1
<1>3. chars' = chars /\ closed' = closed
  BY <1>1 DEF Frame
<1>4. Silent
  BY <1>1 DEF Silent, Promise!rules, Frame
<1> HIDE DEF n
<1>5. PICK p \in Going : /\ Live(chars, n, p) /\ before.state = p
                         /\ n >= 2 => before.last = Dollar
  BY <1>1, <1>2, Back
<1>6. chars[n + 1] = NUL /\ visible(chars[n + 1]) = 1
  BY <1>1, <1>2 DEF AtNul, visible
<1>7. next = Delta(p, 1)
  <2>1. p \in 1..14 \ {2, 14} /\ 1 \in 0..7
    BY DEF Going
  <2>2. Move[p][1] = Delta(p, 1)
    BY <2>1, MoveIsDelta
  <2> QED
    BY <1>5, <2>2
<1> HIDE DEF before, next
<1>8. new = IF p \in {4, 6} THEN [state |-> p, cpos |-> n] ELSE before.last
  BY <1>5, Accepting DEF Accepted, Going
<1> HIDE DEF new
<1>9. Reads(chars, n, p)
  BY <1>5 DEF Live
<1>10. CASE next # Jam
  <2>1. Reads(chars, n + 1, next)
    BY <1>1, <1>2, <1>6, <1>7, <1>9, <1>10, ReadsOn
  <2>2. next \in {4, 9} /\ (next = 4 => n = 0)
    BY <1>7, <1>9, <1>10 DEF Delta, Going, Reads
  <2>3. Live(chars, n + 1, next)
    BY <1>2, <1>6, <2>1, <2>2 DEF Live, Going
  <2>4. n + 1 >= 2 => new = Dollar
    <3> SUFFICES ASSUME n + 1 >= 2 PROVE new = Dollar
      OBVIOUS
    <3>1. p \in {6, 9}
      BY <1>2, <1>7, <1>9, <1>10, <2>2 DEF Delta, Going, Reads
    <3>2. p = 6 => n = 1
      BY <1>9 DEF Reads
    <3>3. p = 9 => n >= 2
      BY <1>9 DEF Reads
    <3> QED
      BY <1>5, <1>8, <3>1, <3>2, <3>3 DEF Dollar
  <2>5. MatchOK'
    BY <1>1, <1>2, <1>3, <1>10, <2>2, <2>3, <2>4 DEF MatchOK
  <2>6. Typed' /\ Bounded' /\ EndOK'
    BY <1>1, <1>10, FrameKeeps DEF EOF_ACT
  <2> QED
    BY <1>1, <1>4, <1>10, <2>5, <2>6 DEF IInv
<1>11. CASE next = Jam
  <2>1. p # 1
    BY <1>7, <1>11 DEF Delta
  <2>2. n \in 1..Len(chars)
    BY <1>2, <1>9, <2>1 DEF Reads
  <2>3. Delta(p, visible(chars[n + 1])) = Jam
    BY <1>6, <1>7, <1>11
  <2>4. /\ Alone(chars, closed)
        /\ (n = 1 /\ p \in {4, 6}) \/ (n >= 2 /\ p \in {9, 10, 11} /\ Reads(chars, 1, 6))
    BY <1>1, <1>2, <1>9, <2>2, <2>3, StuckAt
  <2>5. state' = p /\ yy_cp' = n /\ last' = new
    BY <1>1, <1>5, <1>11
  <2>6. FindOK'
    BY <1>3, <1>5, <1>8, <1>9, <2>4, <2>5 DEF FindOK, Dollar
  <2>7. Typed' /\ Bounded' /\ EndOK'
    BY <1>1, <1>2, <1>11, FrameKeeps DEF EOF_ACT
  <2> QED
    BY <1>1, <1>4, <1>11, <2>6, <2>7 DEF IInv
<1> QED
  BY <1>10, <1>11

\* At the end of the buffer the text is all of it.
LEMMA KeepsAll ==
    ASSUME IInv, AtEnd
    PROVE  /\ Kept = chars /\ yy_cp = Len(chars) + 1 /\ AtNul(chars, yy_cp)
           /\ closed <=> eof_pending
<1>1. AtNul(chars, yy_cp) /\ yy_cp = Len(chars) + 1 /\ chars \in Seq(Promise!Char)
  BY DEF IInv, Typed, AtEnd, ActionOK, AtNul, EOF_ACT
<1>2. Kept = chars
  BY <1>1 DEF Kept
<1>3. closed <=> eof_pending
  BY DEF IInv, Typed, EndOK, AtEnd, EOF_ACT
<1> QED
  BY <1>1, <1>2, <1>3

\* The buffer never shrinks.
LEMMA GrownSize ==
    ASSUME IInv, AtEnd
    PROVE  Size \in Nat /\ Size >= yy_buf_size /\ Room(Size) = Size - Len(chars) - 1
<1>1. yy_buf_size \in Nat /\ Len(Kept) = Len(chars)
  BY KeepsAll DEF IInv, Typed
<1> QED
  BY <1>1 DEF Size, Room

\* No character will come: the last token, or the end.
LEMMA NoCharacterStep ==
    ASSUME IInv, AtEnd, NoCharacter, UNCHANGED len, yy_buf_size' \in Nat,
           yy_buf_size' >= yy_buf_size, closed' = TRUE
    PROVE  IInv' /\ chars' = chars
<1> DEFINE n == Len(chars)
<1>1. /\ chars \in Seq(Promise!Char) /\ chars' = chars /\ yy_cp = n + 1 /\ AtNul(chars, n + 1)
      /\ IF chars = <<>> THEN EndOfFile ELSE LastMatch
      /\ Kept = chars /\ n \in Nat /\ n < yy_buf_size /\ len \in Nat /\ len < MAX_ERROR_SIZE
      /\ yy_buf_size \in Nat
  BY KeepsAll DEF NoCharacter, IInv, Typed, Bounded
<1>2. Bounded'
  BY <1>1 DEF Bounded
<1>3. CASE chars = <<>>
  BY <1>1, <1>2, <1>3 DEF EndOfFile, IInv, Typed, EndOK, ActionOK, EOF_ACT
<1>4. CASE chars # <<>>
  <2>1. /\ state' = Again(chars, n).state /\ last' = Again(chars, n).last /\ yy_cp' = n
        /\ eof_pending' = TRUE /\ at' = "find"
    BY <1>1, <1>4 DEF LastMatch, Rewind
  <2> HIDE DEF n
  <2>2. PICK p \in Going : /\ Live(chars, n, p) /\ Again(chars, n).state = p
                           /\ n >= 2 => Again(chars, n).last = Dollar
    BY <1>1, Back DEF n
  <2>3. Reads(chars, n, p) /\ n \in 1..Len(chars) /\ ~ (n < Len(chars))
    BY <1>1, <1>4, <2>2 DEF Live, n
  <2>4. /\ Alone(chars, closed')
        /\ (n = 1 /\ p \in {4, 6}) \/ (n >= 2 /\ p \in {9, 10, 11} /\ Reads(chars, 1, 6))
    <3> DEFINE over == closed'
    <3>1. over
      OBVIOUS
    <3> HIDE DEF over
    <3>2. /\ Alone(chars, over)
          /\ (n = 1 /\ p \in {4, 6}) \/ (n >= 2 /\ p \in {9, 10, 11} /\ Reads(chars, 1, 6))
      BY <1>1, <2>3, <3>1, StuckAt
    <3> QED
      BY <3>2 DEF over
  <2>5. state' = p /\ (n >= 2 => last' = Dollar)
    BY <2>1, <2>2
  <2>6. FindOK'
    <3>1. chars' = chars /\ yy_cp' = n
      BY <1>1, <2>1
    <3>2. CASE n = 1 /\ p \in {4, 6}
      <4>1. Reads(chars, 1, p) /\ p \in 4..8 /\ yy_cp' = 1
        BY <2>3, <3>1, <3>2
      <4>2. /\ state' \in 4..8 /\ yy_cp' = 1 /\ Reads(chars', 1, state')
            /\ Alone(chars', closed')
        BY <2>4, <2>5, <3>1, <4>1
      <4> QED
        BY <4>2 DEF FindOK
    <3>3. CASE n >= 2 /\ p \in {9, 10, 11} /\ Reads(chars, 1, 6)
      BY <2>4, <2>5, <3>1, <3>3 DEF FindOK, Dollar
    <3> QED
      BY <2>4, <3>2, <3>3
  <2> QED
    BY <1>1, <1>2, <2>1, <2>6 DEF IInv, Typed, EndOK
<1> QED
  BY <1>1, <1>3, <1>4

\* The end, known from an earlier read, is not read again.
LEMMA ForcedEndStep ==
    ASSUME IInv, ForcedEnd PROVE IInv' /\ Silent
<1>1. AtEnd /\ eof_pending /\ NoCharacter /\ UNCHANGED <<yy_buf_size, len, closed, token>>
  BY DEF ForcedEnd
<1>2. closed /\ yy_buf_size \in Nat /\ closed \in BOOLEAN
  BY <1>1, KeepsAll DEF IInv, Typed
<1>3. IInv' /\ chars' = chars
  BY <1>1, <1>2, NoCharacterStep
<1> QED
  BY <1>1, <1>3 DEF Silent, Promise!rules

\* The end is read once.
LEMMA ReadEndStep ==
    ASSUME IInv, ReadEnd PROVE IInv' /\ Promise!Rules
<1>1. /\ AtEnd /\ ~ eof_pending /\ NoCharacter /\ yy_buf_size' = Size /\ closed' = TRUE
      /\ UNCHANGED <<len, token>>
  BY DEF ReadEnd
<1>2. ~ closed /\ Size \in Nat /\ Size >= yy_buf_size
  BY <1>1, KeepsAll, GrownSize
<1>3. IInv' /\ chars' = chars
  BY <1>1, <1>2, NoCharacterStep
<1>4. Promise!Close
  BY <1>1, <1>2, <1>3 DEF Promise!Close
<1> QED
  BY <1>3, <1>4 DEF Promise!Rules

\* More characters: the scan goes on from where it was.
LEMMA ReadStep ==
    ASSUME IInv, Read PROVE IInv' /\ Promise!Rules
<1> DEFINE n == Len(chars)
<1>1. AtEnd /\ ~ eof_pending /\ yy_buf_size' = Size /\ at' = "match"
      /\ UNCHANGED <<eof_pending, yy_act, len, closed, token>>
  BY DEF Read
<1>2. Kept = chars /\ AtNul(chars, n + 1) /\ ~ closed
  BY <1>1, KeepsAll
<1>3. chars \in Seq(Promise!Char) /\ n \in Nat
  BY DEF IInv, Typed
<1>4. PICK m \in 1..Least(Room(Size), YY_READ_BUF_SIZE) :
          \E s \in [1..m -> Promise!Char] :
              chars' = Kept \o s /\ Rewind(Kept \o s, Len(Kept))
  BY DEF Read
<1>20. PICK s \in [1..m -> Promise!Char] :
          chars' = Kept \o s /\ Rewind(Kept \o s, Len(Kept))
  BY <1>4
<1>5. Room(Size) = Size - n - 1 /\ Size \in Nat
  BY <1>1, GrownSize
<1>6. m \in Nat /\ m <= Size - n - 1
  BY <1>3, <1>4, <1>5, ScannerAssumption DEF Least
<1>7. s \in Seq(Promise!Char) /\ Len(s) = m
  BY <1>20, <1>6
<1>8. /\ chars' = chars \o s /\ Rewind(chars', n)
  BY <1>2, <1>20
<1>9. /\ chars' \in Seq(Promise!Char) /\ Len(chars') = n + m
      /\ \A i \in 1..n : chars'[i] = chars[i]
      /\ SubSeq(chars', 1, n) = chars
  <2> DEFINE u == chars \o s
  <2>1. u \in Seq(Promise!Char) /\ Len(u) = n + m /\ \A i \in 1..n : u[i] = chars[i]
    BY <1>3, <1>7
  <2> HIDE DEF u
  <2>2. SubSeq(u, 1, n) = chars
    BY <1>3, <1>6, <2>1
  <2> QED
    BY <1>8, <2>1, <2>2 DEF u
<1>10. PICK p \in Going : /\ Live(chars', n, p) /\ Again(chars', n).state = p
                          /\ n >= 2 => Again(chars', n).last = Dollar
  <2> DEFINE u == chars'
  <2>1. u \in Seq(Promise!Char) /\ n <= Len(u) /\ \A i \in 1..n : u[i] = chars[i]
    BY <1>3, <1>6, <1>9
  <2> HIDE DEF n, u
  <2>2. \E p \in Going : /\ Live(u, n, p) /\ Again(u, n).state = p
                         /\ n >= 2 => Again(u, n).last = Dollar
    BY <1>2, <1>3, <2>1, Back
  <2> QED
    BY <2>2 DEF u
<1>11. state' = p /\ yy_cp' = n /\ (n >= 2 => last' = Dollar)
  BY <1>8, <1>10 DEF Rewind
<1>12. MatchOK'
  BY <1>10, <1>11 DEF MatchOK, Going
<1>13. Typed' /\ Bounded' /\ EndOK'
  BY <1>1, <1>2, <1>3, <1>5, <1>6, <1>9, <1>11 DEF IInv, Typed, Bounded, EndOK
<1>14. IInv'
  BY <1>1, <1>12, <1>13 DEF IInv
<1>15. Promise!Arrive
  BY <1>1, <1>2, <1>6, <1>9 DEF Promise!Arrive
<1> QED
  BY <1>14, <1>15 DEF Promise!Rules

\* A failing read ends the process; the rules see nothing of it.
LEMMA ReadFailsStep ==
    ASSUME IInv, ReadFails PROVE IInv' /\ Silent
<1>1. /\ AtEnd /\ ~ eof_pending /\ yy_buf_size' = Size /\ at' = "dead"
      /\ UNCHANGED <<chars, eof_pending, yy_cp, len, closed, token>>
  BY DEF ReadFails
<1>2. Size \in Nat /\ Size >= yy_buf_size /\ ~ closed
  BY <1>1, GrownSize, KeepsAll
<1>3. Len(chars) \in Nat /\ yy_buf_size \in Nat
  BY DEF IInv, Typed
<1> QED
  BY <1>1, <1>2, <1>3 DEF IInv, Typed, Bounded, EndOK, Silent, Promise!rules

--------------------------------------------------------------------------------
(* The theorems.                                                           *)

\* At the start nothing has been read.
LEMMA InitOK ==
    ASSUME Init PROVE IInv /\ Promise!RulesInit
<1>1. Typed /\ Bounded /\ EndOK
  <2>1. chars \in Seq(Promise!Char) /\ Len(chars) = 0
    BY DEF Init
  <2>2. YY_BUF_SIZE \in Nat /\ YY_BUF_SIZE > 0 /\ MAX_ERROR_SIZE \in Nat /\ MAX_ERROR_SIZE > 0
    BY ScannerAssumption
  <2> QED
    BY <2>1, <2>2 DEF Init, Typed, Bounded, EndOK
<1>2. MatchOK /\ at = "match"
  BY DEF Init, MatchOK, Live, Reads, Going
<1>3. Promise!RulesInit
  BY DEF Init, Promise!RulesInit
<1> QED
  BY <1>1, <1>2, <1>3 DEF IInv

\* Every step keeps the invariant and is a step of the rules, or none.
LEMMA StepOK ==
    ASSUME IInv, [Next]_vars PROVE IInv' /\ Simulated
<1>1. CASE UNCHANGED vars
  BY <1>1 DEF vars, IInv, Typed, Bounded, EndOK, MatchOK, FindOK, ActionOK, Simulated,
              Promise!rules
<1>2. CASE Match
  BY <1>2, MatchStep DEF Simulated, Promise!Rules
<1>3. CASE FindAction
  BY <1>3, FindStep DEF Simulated, Silent
<1>4. CASE Ack \/ Nak \/ Invalid \/ Echo
  BY <1>4, SingleStep DEF Simulated
<1>5. CASE Packet
  BY <1>5, PacketStep DEF Simulated
<1>6. CASE Eof
  BY <1>6, EofStep DEF Simulated
<1>7. CASE RealNul
  BY <1>7, RealNulStep DEF Simulated, Silent
<1>8. CASE ForcedEnd
  BY <1>8, ForcedEndStep DEF Simulated, Silent
<1>9. CASE Read
  BY <1>9, ReadStep DEF Simulated
<1>10. CASE ReadEnd
  BY <1>10, ReadEndStep DEF Simulated
<1>11. CASE ReadFails
  BY <1>11, ReadFailsStep DEF Simulated, Silent
<1> QED
  BY <1>1, <1>2, <1>3, <1>4, <1>5, <1>6, <1>7, <1>8, <1>9, <1>10, <1>11
  DEF Next, Run, Done

\* At each label of yylex the characters read explain the state of the automaton,
\* the record of the last match and the action found, for all sizes of the buffers.
THEOREM ScannerInvariant == Spec => []IInv
<1>1. Init => IInv
  BY InitOK
<1>2. IInv /\ [Next]_vars => IInv'
  BY StepOK
<1> QED
  BY <1>1, <1>2, PTL DEF Spec

\* No access of the scanner is out of the bounds of its buffers.
THEOREM WithinBuffersAlways == Spec => []WithinBuffers
<1>1. IInv => WithinBuffers
  BY DEF IInv, Typed, Bounded, MatchOK, Live, AtNul, WithinBuffers
<1> QED
  BY <1>1, ScannerInvariant, PTL

\* The scanner blocks in read() only on an open packet or on a NUL alone.
THEOREM NoNeedlessWaitAlways == Spec => []NoNeedlessWait
<1>1. ASSUME IInv, AtEnd, ~ eof_pending
      PROVE  Promise!IsOpen(chars) \/ chars = <<NUL>>
  <2>1. chars \in Seq(Promise!Char) /\ AtNul(chars, Len(chars) + 1)
    BY <1>1, KeepsAll DEF IInv, Typed
  <2>2. PICK p \in Going : Live(chars, Len(chars), p)
    BY <2>1 DEF AtNul
  <2>3. CASE p = 4
    BY <2>1, <2>2, <2>3 DEF Live, Reads
  <2>4. CASE p = 1
    <3>1. Len(chars) = 0
      BY <2>2, <2>4 DEF Live, Reads
    <3>2. chars = <<>>
      BY <2>1, <3>1
    <3> QED
      BY <2>1, <3>2, OpenIsRead
  <2>5. CASE p \in {6, 9, 10, 11}
    BY <2>1, <2>2, <2>5, OpenIsRead DEF Live
  <2> QED
    BY <2>3, <2>4, <2>5 DEF Going
<1>2. IInv => NoNeedlessWait
  BY <1>1 DEF NoNeedlessWait
<1> QED
  BY <1>2, ScannerInvariant, PTL

\* yylex delivers the tokens that scanner.l describes, and reports the invalid
\* characters before what follows them, wherever a refill cuts a token.
THEOREM RulesImplemented == Spec => ImplementsRules
<1>1. Init => Promise!RulesInit
  BY InitOK
<1>2. IInv /\ [Next]_vars => [Promise!Rules]_(Promise!rules)
  BY StepOK DEF Simulated
<1> QED
  BY <1>1, <1>2, ScannerInvariant, PTL DEF Spec, ImplementsRules, Promise!RulesSpec
=============================================================================
