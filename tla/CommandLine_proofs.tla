------------------------- MODULE CommandLine_proofs -------------------------
(***************************************************************************)
(* Proofs about the line reader and strtok: no index leaves its array, and *)
(* argv are the words that the screen shows, for every size of the buffer, *)
(* of argv and of the FIFO, and whatever is typed.                         *)
(***************************************************************************)
EXTENDS CommandLine, SequenceTheorems, FiniteSetTheorems,
        WellFoundedInduction, TLAPS

(* A non-empty set of numbers has a least one.                             *)
LEMMA LeastNat ==
  ASSUME NEW T, T \subseteq Nat, T # {}
  PROVE  \E x \in T : \A y \in T : x <= y
<1>1. PICK x \in T : \A y \in T : ~ (<<y, x>> \in OpToRel(<, Nat))
  BY NatLessThanWellFounded, WFMin
<1>2. ASSUME NEW y \in T PROVE x <= y
  <2>1. <<y, x>> \notin OpToRel(<, Nat) /\ x \in Nat /\ y \in Nat
    BY <1>1
  <2> QED BY <2>1 DEF OpToRel
<1> QED BY <1>2

LEMMA MaxIs ==
  ASSUME NEW S, NEW x \in S, S \subseteq Int, \A y \in S : y <= x
  PROVE  Max(S) = x
<1> DEFINE m == Max(S)
<1>1. \A y \in S : x >= y
  OBVIOUS
<1>2. m \in S /\ \A y \in S : m >= y
  BY <1>1 DEF Max
<1> HIDE DEF m
<1>3. m = x
  BY <1>2
<1> QED BY <1>3 DEF m

LEMMA MinIs ==
  ASSUME NEW S, NEW x \in S, S \subseteq Int, \A y \in S : x <= y
  PROVE  Min(S) = x
<1> DEFINE m == Min(S)
<1>1. m \in S /\ \A y \in S : m =< y
  BY DEF Min
<1> HIDE DEF m
<1>2. m = x
  BY <1>1
<1> QED BY <1>2 DEF m

-----------------------------------------------------------------------------
(* The searches of strtok find something, as long as a terminator lies     *)
(* ahead of them.                                                          *)
LEMMA FirstExists ==
  ASSUME NEW P, P \subseteq Positions, NEW p \in Nat, NEW z \in P, z >= p
  PROVE  \E q \in P : q >= p /\ q <= z /\ \A r \in p .. q - 1 : r \notin P
<1> DEFINE T == {q \in P : q >= p}
<1>1. P \subseteq Nat
  BY CommandLineConstants DEF Positions
<1>2. T \subseteq Nat /\ z \in T
  BY <1>1
<1>3. PICK q \in T : \A y \in T : q <= y
  <2> HIDE DEF T
  <2> QED BY <1>2, LeastNat
<1>4. ASSUME NEW r \in p .. q - 1 PROVE r \notin P
  BY <1>1, <1>3
<1> QED BY <1>2, <1>3, <1>4

LEMMA PositionsNat ==
  /\ MAX_CMD_LEN \in Nat /\ MAX_CMD_LEN > 1
  /\ \A q : q \in Positions <=> (q \in Nat /\ q < MAX_CMD_LEN)
BY CommandLineConstants DEF Positions

LEMMA StrspnIs ==
  ASSUME NEW p \in Nat, NEW z \in Positions, z >= p, cmd_buffer[z] = NUL,
         NEW q, q = Strspn(p)
  PROVE  /\ q \in Positions /\ q >= p /\ q <= z /\ cmd_buffer[q] # SPACE
         /\ \A r \in p .. q - 1 : cmd_buffer[r] = SPACE
<1> DEFINE P == {x \in Positions : cmd_buffer[x] # SPACE}
<1>1. z \in P /\ P \subseteq Positions
  BY DEF NUL, SPACE
<1>2. PICK x \in P : x >= p /\ x <= z /\ \A r \in p .. x - 1 : r \notin P
  <2> HIDE DEF P
  <2> QED BY <1>1, FirstExists
<1>3. \A r \in p .. x - 1 : r \in Positions
  BY <1>2, PositionsNat
<1>4. x \in Positions /\ cmd_buffer[x] # SPACE /\ \A r \in p .. x - 1 : ~(cmd_buffer[r] # SPACE)
  BY <1>2, <1>3
<1>5. /\ q \in Positions /\ q >= p /\ cmd_buffer[q] # SPACE
      /\ \A r \in p .. q - 1 : ~(cmd_buffer[r] # SPACE)
  BY <1>2, <1>4 DEF Strspn, FirstAt
<1>6. q <= z
  <2>1. CASE q > z
    <3>1. z \in p .. q - 1
      BY <1>5, <2>1, PositionsNat
    <3> QED BY <1>5, <3>1 DEF NUL, SPACE
  <2> QED BY <1>5, <2>1, PositionsNat
<1> QED BY <1>5, <1>6

LEMMA StrpbrkIs ==
  ASSUME NEW p \in Nat, NEW z \in Positions, z >= p, cmd_buffer[z] = NUL,
         NEW q, q = Strpbrk(p)
  PROVE  /\ q \in Positions /\ q >= p /\ q <= z /\ cmd_buffer[q] \in {SPACE, NUL}
         /\ \A r \in p .. q - 1 : cmd_buffer[r] \notin {SPACE, NUL}
<1> DEFINE P == {x \in Positions : cmd_buffer[x] \in {SPACE, NUL}}
<1>1. z \in P /\ P \subseteq Positions
  OBVIOUS
<1>2. PICK x \in P : x >= p /\ x <= z /\ \A r \in p .. x - 1 : r \notin P
  <2> HIDE DEF P
  <2> QED BY <1>1, FirstExists
<1>3. \A r \in p .. x - 1 : r \in Positions
  BY <1>2, PositionsNat
<1>4. /\ x \in Positions /\ cmd_buffer[x] \in {SPACE, NUL}
      /\ \A r \in p .. x - 1 : ~(cmd_buffer[r] \in {SPACE, NUL})
  BY <1>2, <1>3
<1>5. /\ q \in Positions /\ q >= p /\ cmd_buffer[q] \in {SPACE, NUL}
      /\ \A r \in p .. q - 1 : ~(cmd_buffer[r] \in {SPACE, NUL})
  BY <1>2, <1>4 DEF Strpbrk, FirstAt
<1>6. q <= z
  <2>1. CASE q > z
    <3>1. z \in p .. q - 1
      BY <1>5, <2>1, PositionsNat
    <3> QED BY <1>5, <3>1
  <2> QED BY <1>5, <2>1, PositionsNat
<1> QED BY <1>5, <1>6

(* A string ends at its first NUL.                                         *)
LEMMA StringAtIs ==
  ASSUME NEW p \in Nat, NEW e \in Positions, e >= p, cmd_buffer[e] = NUL,
         \A r \in p .. e - 1 : cmd_buffer[r] # NUL
  PROVE  StringAt(p) = [k \in 1 .. e - p |-> cmd_buffer[p + k - 1]]
<1> DEFINE F(q) == /\ q >= p /\ cmd_buffer[q] = NUL
                   /\ \A r \in p .. q - 1 : ~(cmd_buffer[r] = NUL)
<1>1. F(e)
  OBVIOUS
<1>2. ASSUME NEW q \in Positions, F(q) PROVE q = e
  <2>1. CASE q < e
    <3>1. q \in p .. e - 1
      BY <1>2, <2>1, PositionsNat
    <3> QED BY <1>2, <3>1
  <2>2. CASE e < q
    <3>1. e \in p .. q - 1
      BY <1>2, <2>2, PositionsNat
    <3> QED BY <1>2, <3>1
  <2> QED BY <2>1, <2>2, PositionsNat
<1> DEFINE c == CHOOSE q \in Positions : F(q)
<1>3. c = e
  <2> HIDE DEF F
  <2> QED BY <1>1, <1>2
<1>4. StringAt(p) = [k \in 1 .. c - p |-> cmd_buffer[p + k - 1]]
  BY Zenon DEF StringAt, FirstAt
<1> HIDE DEF c
<1> QED BY <1>3, <1>4

-----------------------------------------------------------------------------
(***************************************************************************)
(* What strtok has made of the line when it has looked at the first f      *)
(* characters: toks are where the words begin, in order, each ends with a  *)
(* NUL in place of its space, and the rest is as it was typed.             *)
(***************************************************************************)
Typed(line, buf, from) ==
  \A q \in from .. Len(line) - 1 : buf[q] = line[q + 1]

OnlySpacesCut(line, buf, f) ==
  \A q \in 0 .. f - 1 :
    buf[q] = line[q + 1] \/ (buf[q] = NUL /\ line[q + 1] = SPACE)

EndsAt(line, t, e) ==
  /\ e \in t .. Len(line) /\ (e = Len(line) \/ line[e + 1] = SPACE)
  /\ \A r \in t .. e - 1 : line[r + 1] # SPACE

Closed(line, buf, t) == \E e \in Nat : EndsAt(line, t, e) /\ buf[e] = NUL

Increasing(toks) == \A j, k \in 1 .. Len(toks) : j < k => toks[j] < toks[k]

AllFound(line, toks, f) ==
  \A t \in 0 .. f - 1 :
    t + 1 \in WordStarts(line) => \E k \in 1 .. Len(toks) : toks[k] = t

AllClosed(line, buf, toks, f) ==
  \A k \in 1 .. Len(toks) :
    /\ toks[k] \in 0 .. f - 1 /\ toks[k] + 1 \in WordStarts(line)
    /\ Closed(line, buf, toks[k])

Split(line, buf, toks, f) ==
  /\ f \in 0 .. Len(line) /\ (f \in {0, Len(line)} \/ line[f] = SPACE)
  /\ Typed(line, buf, f) /\ OnlySpacesCut(line, buf, f)
  /\ buf[Len(line)] = NUL
  /\ Increasing(toks) /\ AllFound(line, toks, f)
  /\ AllClosed(line, buf, toks, f)

(* A line of the shell: no character of it is a NUL, and it fits.          *)
IsLine(line) ==
  /\ line \in Seq(Keys) /\ Len(line) \in Positions
  /\ \A k \in 1 .. Len(line) : Printable(line[k])

LEMMA LineFacts ==
  ASSUME NEW line, IsLine(line)
  PROVE  /\ Len(line) \in Nat /\ Len(line) \in Positions
         /\ DOMAIN line = 1 .. Len(line)
         /\ \A k \in 1 .. Len(line) : line[k] # NUL /\ line[k] \in Keys
         /\ \A s : s \in WordStarts(line) <=>
              /\ s \in 1 .. Len(line) /\ line[s] # SPACE
              /\ s = 1 \/ line[s - 1] = SPACE
<1>1. Len(line) \in Nat /\ DOMAIN line = 1 .. Len(line) /\ Len(line) \in Positions
  BY DEF IsLine
<1>2. ASSUME NEW k \in 1 .. Len(line) PROVE line[k] # NUL
  <2> DEFINE c == line[k]
  <2>1. Printable(c)
    BY DEF IsLine
  <2> HIDE DEF c
  <2>2. c # NUL
    BY <2>1 DEF Printable, NUL
  <2> QED BY <2>2 DEF c
<1>3. \A k \in 1 .. Len(line) : line[k] \in Keys
  BY DEF IsLine
<1> QED BY <1>1, <1>2, <1>3 DEF WordStarts

(* Nothing but spaces is left: the last word has been found.               *)
LEMMA SplitToEnd ==
  ASSUME NEW line, IsLine(line), NEW buf, NEW toks \in Seq(Nat), NEW f,
         Split(line, buf, toks, f),
         \A r \in f .. Len(line) - 1 : buf[r] = SPACE
  PROVE  Split(line, buf, toks, Len(line))
<1> DEFINE L == Len(line)
<1>1. L \in Nat /\ f \in 0 .. L /\ Typed(line, buf, f) /\ OnlySpacesCut(line, buf, f)
  BY LineFacts DEF Split
<1> HIDE DEF L
<1>2. \A r \in f .. L - 1 : line[r + 1] = SPACE
  BY <1>1 DEF Typed, L
<1>3. Typed(line, buf, L)
  BY <1>1 DEF Typed, L
<1>4. OnlySpacesCut(line, buf, L)
  <2> SUFFICES ASSUME NEW q \in 0 .. L - 1
               PROVE  buf[q] = line[q + 1] \/ (buf[q] = NUL /\ line[q + 1] = SPACE)
    BY DEF OnlySpacesCut, L
  <2>1. q \in 0 .. f - 1 \/ q \in f .. L - 1
    BY <1>1
  <2> QED BY <1>1, <2>1 DEF OnlySpacesCut, Typed, L
<1>5. AllFound(line, toks, L)
  <2> SUFFICES ASSUME NEW t \in 0 .. L - 1, t + 1 \in WordStarts(line)
               PROVE  \E k \in 1 .. Len(toks) : toks[k] = t
    BY DEF AllFound
  <2>1. t \in 0 .. f - 1 \/ t \in f .. L - 1
    BY <1>1
  <2>2. line[t + 1] # SPACE
    BY LineFacts
  <2>3. t \in 0 .. f - 1
    BY <1>2, <2>1, <2>2
  <2> QED BY <2>3 DEF Split, AllFound
<1>6. AllClosed(line, buf, toks, L)
  <2> SUFFICES ASSUME NEW k \in 1 .. Len(toks)
               PROVE  /\ toks[k] \in 0 .. L - 1
                      /\ toks[k] + 1 \in WordStarts(line)
                      /\ Closed(line, buf, toks[k])
    BY DEF AllClosed
  <2> QED BY <1>1 DEF Split, AllClosed
<1> QED BY <1>1, <1>3, <1>4, <1>5, <1>6 DEF Split, L

(* strtok finds the word from s to e, and ends it.                         *)
LEMMA SplitWord ==
  ASSUME NEW line, IsLine(line), NEW buf, DOMAIN buf = Positions,
         NEW toks \in Seq(Nat), NEW f, Split(line, buf, toks, f),
         NEW s \in Nat, s >= f, s < Len(line), buf[s] # SPACE,
         \A r \in f .. s - 1 : buf[r] = SPACE,
         NEW e \in Nat, e >= s, e <= Len(line), buf[e] \in {SPACE, NUL},
         \A r \in s .. e - 1 : buf[r] \notin {SPACE, NUL},
         NEW new, new = [buf EXCEPT ![e] = NUL],
         NEW g, g = IF buf[e] = NUL THEN Len(line) ELSE e + 1
  PROVE  /\ Split(line, new, Append(toks, s), g)
         /\ buf[e] # NUL => line[g] = SPACE /\ g > 0
<1> DEFINE L == Len(line)
           more == Append(toks, s)
<1>1. /\ L \in Nat /\ L \in Positions /\ f \in 0 .. L
      /\ Typed(line, buf, f) /\ OnlySpacesCut(line, buf, f) /\ buf[L] = NUL
      /\ Increasing(toks) /\ AllFound(line, toks, f)
      /\ AllClosed(line, buf, toks, f)
      /\ f \in {0, L} \/ line[f] = SPACE
  BY LineFacts DEF Split
<1>2. Len(toks) \in Nat /\ \A k \in 1 .. Len(toks) : toks[k] \in Nat
  OBVIOUS
<1>3. /\ more \in Seq(Nat) /\ Len(more) = Len(toks) + 1 /\ more[Len(more)] = s
      /\ \A k \in 1 .. Len(toks) : more[k] = toks[k]
  OBVIOUS
<1> HIDE DEF L, more
<1>4. \A q \in f .. L - 1 : buf[q] = line[q + 1] /\ line[q + 1] # NUL
  <2> SUFFICES ASSUME NEW q \in f .. L - 1
               PROVE  buf[q] = line[q + 1] /\ line[q + 1] # NUL
    OBVIOUS
  <2>1. q + 1 \in 1 .. L
    BY <1>1
  <2> QED BY <1>1, <2>1, LineFacts DEF Typed, L
<1>5. s \in f .. L - 1 /\ s + 1 \in 1 .. L /\ line[s + 1] # SPACE
      /\ \A r \in f .. s - 1 : line[r + 1] = SPACE
  <2>1. s \in f .. L - 1 /\ s + 1 \in 1 .. L
    BY <1>1 DEF L
  <2>2. \A r \in f .. s - 1 : r \in f .. L - 1
    BY <1>1, <2>1
  <2> QED BY <1>4, <2>1, <2>2
<1>6. \A r \in s .. e - 1 : r \in f .. L - 1 /\ line[r + 1] # SPACE
  <2>1. \A r \in s .. e - 1 : r \in f .. L - 1
    BY <1>1, <1>5 DEF L
  <2> QED BY <1>4, <2>1
<1>7. e > s /\ e <= L
  <2>1. e # s
    BY <1>4, <1>5
  <2> QED BY <2>1 DEF L
<1>8. e = L \/ (e \in f .. L - 1 /\ line[e + 1] = SPACE /\ buf[e] = SPACE)
  <2>1. CASE e # L
    <3>1. e \in f .. L - 1
      BY <1>1, <1>5, <1>7, <2>1
    <3> QED BY <1>4, <3>1
  <2> QED BY <2>1
<1>9. /\ buf[e] = NUL => e = L /\ g = L
      /\ buf[e] # NUL => e \in f .. L - 1 /\ g = e + 1 /\ line[g] = SPACE
  BY <1>1, <1>8 DEF L, NUL, SPACE
<1>10. g \in 0 .. L /\ e <= g /\ s < g /\ f <= g
  BY <1>1, <1>5, <1>7, <1>9
<1>11. /\ new[e] = NUL /\ \A q \in Positions : q # e => new[q] = buf[q]
       /\ \A q \in 0 .. L : q \in Positions
  <2>1. e \in Positions /\ \A q \in 0 .. L : q \in Positions
    BY <1>1, <1>7, PositionsNat
  <2> QED BY <2>1
<1>12. g \in {0, L} \/ line[g] = SPACE
  BY <1>9
<1>13. Typed(line, new, g)
  <2> SUFFICES ASSUME NEW q \in g .. L - 1 PROVE new[q] = line[q + 1]
    BY DEF Typed, L
  <2>1. q \in f .. L - 1 /\ q \in 0 .. L /\ q # e
    BY <1>1, <1>9, <1>10
  <2> QED BY <1>4, <1>11, <2>1
<1>14. OnlySpacesCut(line, new, g)
  <2> SUFFICES ASSUME NEW q \in 0 .. g - 1
               PROVE  new[q] = line[q + 1] \/ (new[q] = NUL /\ line[q + 1] = SPACE)
    BY DEF OnlySpacesCut
  <2>1. q \in 0 .. L - 1 /\ q \in Positions /\ (q \in 0 .. f - 1 \/ q \in f .. L - 1)
    BY <1>1, <1>10, <1>11
  <2>2. CASE q = e
    BY <1>1, <1>8, <1>11, <2>1, <2>2
  <2>3. CASE q # e
    <3>1. new[q] = buf[q]
      BY <1>11, <2>1, <2>3
    <3> QED BY <1>1, <1>4, <2>1, <3>1 DEF OnlySpacesCut
  <2> QED BY <2>2, <2>3
<1>15. new[L] = NUL
  BY <1>1, <1>11
<1>16. Increasing(more)
  <2>0. SUFFICES ASSUME NEW j \in 1 .. Len(more), NEW k \in 1 .. Len(more), j < k
                 PROVE  more[j] < more[k]
    BY DEF Increasing
  <2>1. j \in 1 .. Len(toks) /\ more[j] = toks[j]
    <3>1. j \in 1 .. Len(toks) + 1 /\ k \in 1 .. Len(toks) + 1
      BY <1>3
    <3>2. j \in 1 .. Len(toks)
      BY <1>2, <2>0, <3>1
    <3> QED BY <1>3, <3>2
  <2>2. CASE k = Len(more)
    <3>1. toks[j] \in 0 .. f - 1
      BY <1>1, <2>1 DEF AllClosed
    <3>2. \A t \in 0 .. f - 1 : t < s
      <4>1. f \in Nat /\ f <= s
        BY <1>1
      <4> QED BY <4>1
    <3>3. toks[j] < s
      BY <3>1, <3>2
    <3>4. more[j] = toks[j] /\ more[k] = s
      BY <1>3, <2>1, <2>2
    <3> QED BY <3>3, <3>4
  <2>3. CASE k # Len(more)
    <3>1. k \in 1 .. Len(toks)
      BY <1>2, <1>3, <2>3
    <3>2. more[k] = toks[k]
      BY <1>3, <3>1
    <3> QED BY <1>1, <2>0, <2>1, <3>1, <3>2 DEF Increasing
  <2> QED BY <2>2, <2>3
<1>17. s + 1 \in WordStarts(line)
  <2>1. s = 0 \/ line[s] = SPACE
    <3>1. CASE s = f
      BY <1>1, <1>5, <3>1
    <3>2. CASE s # f
      <4>1. s - 1 \in f .. s - 1
        BY <1>1, <1>5, <3>2
      <4>2. line[(s - 1) + 1] = SPACE /\ (s - 1) + 1 = s
        BY <1>5, <4>1
      <4> QED BY <4>2
    <3> QED BY <3>1, <3>2
  <2>2. s + 1 = 1 \/ line[(s + 1) - 1] = SPACE
    BY <2>1
  <2> QED BY <1>5, <2>2, LineFacts DEF L
<1>18. AllFound(line, more, g)
  <2> SUFFICES ASSUME NEW t \in 0 .. g - 1, t + 1 \in WordStarts(line)
               PROVE  \E k \in 1 .. Len(more) : more[k] = t
    BY DEF AllFound
  <2>1. /\ t + 1 \in 1 .. L /\ line[t + 1] # SPACE
        /\ t + 1 = 1 \/ line[(t + 1) - 1] = SPACE
    BY LineFacts DEF L
  <2>2. t = 0 \/ line[t] = SPACE
    BY <2>1
  <2>3. CASE t \in 0 .. f - 1
    <3>1. PICK k \in 1 .. Len(toks) : toks[k] = t
      BY <1>1, <2>3 DEF AllFound
    <3> QED BY <1>2, <1>3, <3>1
  <2>4. CASE t \in f .. s - 1
    BY <1>5, <2>1, <2>4
  <2>5. CASE t = s
    BY <1>2, <1>3, <2>5
  <2>6. CASE t \in s + 1 .. e - 1
    <3>1. t - 1 \in s .. e - 1 /\ (t - 1) + 1 = t /\ t # 0
      BY <2>6, <1>5
    <3>2. line[t] # SPACE
      BY <1>6, <3>1
    <3> QED BY <2>2, <3>1, <3>2
  <2>7. CASE t = e
    BY <1>8, <1>10, <2>1, <2>7
  <2>8. t <= e
    BY <1>9, <1>10, <1>7
  <2>9. \/ t \in 0 .. f - 1 \/ t \in f .. s - 1 \/ t = s
        \/ t \in s + 1 .. e - 1 \/ t = e
    <3>1. f \in Nat /\ t \in Nat /\ f <= s
      BY <1>1, <1>10
    <3> QED BY <1>7, <2>8, <3>1
  <2> QED BY <2>3, <2>4, <2>5, <2>6, <2>7, <2>9
<1>19. EndsAt(line, s, e)
  BY <1>6, <1>7, <1>8 DEF EndsAt, L
<1>20. AllClosed(line, new, more, g)
  <2> SUFFICES ASSUME NEW k \in 1 .. Len(more)
               PROVE  /\ more[k] \in 0 .. g - 1
                      /\ more[k] + 1 \in WordStarts(line)
                      /\ Closed(line, new, more[k])
    BY DEF AllClosed
  <2>1. CASE k = Len(more)
    BY <1>3, <1>10, <1>11, <1>17, <1>19, <2>1 DEF Closed
  <2>2. CASE k # Len(more)
    <3>0. k \in 1 .. Len(toks)
      BY <1>2, <1>3, <2>2
    <3>1. k \in 1 .. Len(toks) /\ more[k] = toks[k]
      BY <1>3, <3>0
    <3>2. /\ toks[k] \in 0 .. f - 1 /\ toks[k] + 1 \in WordStarts(line)
          /\ Closed(line, buf, toks[k])
      BY <1>1, <3>1 DEF AllClosed
    <3>3. PICK x \in Nat : EndsAt(line, toks[k], x) /\ buf[x] = NUL
      BY <3>2 DEF Closed
    <3>4. x \in Positions
      BY <1>11, <3>3 DEF EndsAt, L
    <3>5. new[x] = NUL
      BY <1>11, <3>3, <3>4
    <3>6. Closed(line, new, more[k])
      BY <3>1, <3>3, <3>5 DEF Closed
    <3>7. \A t \in 0 .. f - 1 : t \in 0 .. g - 1
      <4>1. f \in Nat /\ g \in Nat /\ f <= g
        BY <1>1, <1>10
      <4> QED BY <4>1
    <3>8. toks[k] \in 0 .. g - 1
      BY <3>2, <3>7
    <3> QED BY <3>1, <3>2, <3>6, <3>8
  <2> QED BY <2>1, <2>2
<1> QED BY <1>9, <1>10, <1>12, <1>13, <1>14, <1>15, <1>16, <1>18, <1>20
        DEF Split, L, more

-----------------------------------------------------------------------------
(* Every set of positions has an ascending enumeration, and one only.      *)
Enumerates(q, S) ==
  /\ q \in [1 .. Cardinality(S) -> S]
  /\ \A j, k \in DOMAIN q : j < k => q[j] < q[k]

LEMMA EnumerationExists ==
  ASSUME NEW S
  PROVE  \A n \in Nat : \E q : Enumerates(q, S \cap (1 .. n))
<1> DEFINE T == {n \in Nat : ~ \E q : Enumerates(q, S \cap (1 .. n))}
<1>1. SUFFICES ASSUME T # {} PROVE FALSE
  OBVIOUS
<1>2. PICK n \in T : \A m \in T : n <= m
  BY <1>1, LeastNat
<1>3. CASE n = 0
  <2>1. S \cap (1 .. n) = {} /\ Cardinality({}) = 0
    BY <1>3, FS_EmptySet
  <2> DEFINE q == [k \in {} |-> 0]
  <2>2. 1 .. 0 = {}
    OBVIOUS
  <2>3. q \in [1 .. Cardinality({}) -> {}] /\ DOMAIN q = {}
    BY <2>1, <2>2
  <2> HIDE DEF q
  <2>4. Enumerates(q, {})
    BY <2>3 DEF Enumerates
  <2> QED BY <2>1, <2>4
<1>4. CASE n # 0
  <2> DEFINE A == S \cap (1 .. n - 1)
             B == S \cap (1 .. n)
  <2>1. n \in Nat /\ n - 1 \in Nat /\ n - 1 \notin T
    BY <1>2, <1>4
  <2>2. PICK q : Enumerates(q, A)
    BY <2>1
  <2>3. IsFiniteSet(A) /\ Cardinality(A) \in Nat /\ A \subseteq 1 .. n - 1
    <3>1. IsFiniteSet(1 .. n - 1) /\ A \in SUBSET (1 .. n - 1)
      BY <2>1, FS_Interval
    <3> QED BY <3>1, FS_Subset, FS_CardinalityType
  <2> DEFINE c == Cardinality(A)
  <2>4. q \in [1 .. c -> A] /\ \A j, k \in 1 .. c : j < k => q[j] < q[k]
    BY <2>2 DEF Enumerates
  <2>5. CASE n \notin S
    <3>1. B = A
      BY <2>1, <2>5
    <3> QED BY <2>2, <3>1
  <2>6. CASE n \in S
    <3>1. B = A \cup {n} /\ n \notin A /\ n \in B /\ A \subseteq B
      BY <2>1, <2>6
    <3>2. Cardinality(B) = c + 1
      BY <2>3, <3>1, FS_AddElement
    <3> HIDE DEF A, B, c
    <3> DEFINE p == [k \in 1 .. c + 1 |-> IF k = c + 1 THEN n ELSE q[k]]
    <3>3. c \in Nat
      BY <2>3 DEF c
    <3>4. \A k \in 1 .. c : k \in 1 .. c + 1 /\ p[k] = q[k] /\ q[k] \in A
      BY <2>4, <3>3
    <3>5. p[c + 1] = n
      BY <3>3
    <3>6. \A k \in 1 .. c + 1 : k = c + 1 \/ k \in 1 .. c
      BY <3>3
    <3>7. p \in [1 .. c + 1 -> B]
      BY <3>1, <3>4, <3>6
    <3>8. DOMAIN p = 1 .. c + 1
      OBVIOUS
    <3> HIDE DEF p
    <3>9. ASSUME NEW j \in 1 .. c + 1, NEW k \in 1 .. c + 1, j < k
          PROVE  p[j] < p[k]
      <4>1. j \in 1 .. c
        BY <3>3, <3>9
      <4>2. q[j] \in 1 .. n - 1
        BY <2>3, <3>4, <4>1
      <4>3. CASE k = c + 1
        BY <2>1, <3>4, <3>5, <4>1, <4>2, <4>3
      <4>4. CASE k \in 1 .. c
        BY <2>4, <3>4, <3>9, <4>1, <4>4
      <4> QED BY <3>6, <4>3, <4>4
    <3>10. Enumerates(p, B)
      BY <3>2, <3>7, <3>8, <3>9 DEF Enumerates
    <3> QED BY <3>10 DEF B
  <2> QED BY <2>5, <2>6
<1> QED BY <1>3, <1>4

LEMMA AscendingIs ==
  ASSUME NEW line, IsLine(line), NEW S, S = WordStarts(line),
         NEW q, q = Ascending(S)
  PROVE  /\ Cardinality(S) \in Nat /\ q \in [1 .. Cardinality(S) -> S]
         /\ \A j, k \in 1 .. Cardinality(S) : j < k => q[j] < q[k]
         /\ \A s \in S : \E k \in 1 .. Cardinality(S) : q[k] = s
<1> DEFINE n == Len(line)
           c == Cardinality(S)
<1>1. n \in Nat /\ S \subseteq 1 .. n
  BY LineFacts
<1>2. S \cap (1 .. n) = S
  BY <1>1
<1>3. IsFiniteSet(S) /\ c \in Nat
  <2>1. IsFiniteSet(1 .. n) /\ S \in SUBSET (1 .. n)
    <3> HIDE DEF n
    <3> QED BY <1>1, FS_Interval
  <2> QED BY <2>1, FS_Subset, FS_CardinalityType
<1>4. \E p : Enumerates(p, S)
  BY <1>1, <1>2, EnumerationExists
<1>5. Enumerates(q, S)
  BY <1>4 DEF Ascending, Enumerates
<1>6. q \in [1 .. c -> S] /\ \A j, k \in 1 .. c : j < k => q[j] < q[k]
  BY <1>5 DEF Enumerates
<1> HIDE DEF c, n
<1>7. q \in Injection(1 .. c, S)
  <2>1. ASSUME NEW j \in 1 .. c, NEW k \in 1 .. c, q[j] = q[k] PROVE j = k
    <3>1. q[j] \in Int
      BY <1>1, <1>6
    <3>2. ~(j < k) /\ ~(k < j)
      BY <1>6, <2>1, <3>1
    <3> QED BY <3>2
  <2> QED BY <1>6, <2>1 DEF Injection, IsInjective
<1>8. Cardinality(1 .. c) = c
  BY <1>3, FS_Interval
<1>9. q \in Surjection(1 .. c, S)
  BY <1>3, <1>7, <1>8, FS_Injection DEF c
<1>10. \A s \in S : \E k \in 1 .. c : q[k] = s
  BY <1>9 DEF Surjection
<1> QED BY <1>3, <1>6, <1>10 DEF c

(* The words that strtok has found are the first words of the line.        *)
LEMMA TokensAreFirstWords ==
  ASSUME NEW line, IsLine(line), NEW buf, NEW toks \in Seq(Nat), NEW f,
         Split(line, buf, toks, f), NEW q, q = Ascending(WordStarts(line)),
         NEW c, c = Cardinality(WordStarts(line))
  PROVE  /\ Len(toks) \in Nat /\ c \in Nat /\ DOMAIN q = 1 .. c
         /\ \A k \in 1 .. Len(toks) : k \in 1 .. c /\ q[k] = toks[k] + 1
         /\ f = Len(line) => c = Len(toks)
<1> DEFINE S == WordStarts(line)
           n == Len(toks)
           Same(k) == k \in 1 .. c /\ q[k] = toks[k] + 1
           T == {k \in 1 .. n : ~Same(k)}
<1>1. /\ c \in Nat /\ q \in [1 .. c -> S]
      /\ \A j, k \in 1 .. c : j < k => q[j] < q[k]
      /\ \A s \in S : \E k \in 1 .. c : q[k] = s
  BY AscendingIs
<1>2. /\ n \in Nat /\ f \in Nat /\ Len(line) \in Nat /\ S \subseteq 1 .. Len(line)
      /\ \A j, k \in 1 .. n : j < k => toks[j] < toks[k]
      /\ \A t \in 0 .. f - 1 : t + 1 \in S => \E k \in 1 .. n : toks[k] = t
      /\ \A k \in 1 .. n : toks[k] \in 0 .. f - 1 /\ toks[k] + 1 \in S
  BY LineFacts DEF Split, Increasing, AllFound, AllClosed
<1>3. \A k \in 1 .. c : q[k] \in S /\ q[k] \in Nat /\ q[k] - 1 \in Nat
  BY <1>1, <1>2
<1> HIDE DEF S, n
<1>4. T = {}
  <2> SUFFICES ASSUME T # {} PROVE FALSE
    OBVIOUS
  <2>1. T \subseteq Nat
    BY <1>2
  <2>2. PICK k \in T : \A m \in T : k <= m
    <3> HIDE DEF T
    <3> QED BY <2>1, LeastNat
  <2>3. k \in 1 .. n /\ ~Same(k)
    BY <2>2
  <2>4. \A m \in 1 .. k - 1 : m \in 1 .. n /\ Same(m)
    <3> SUFFICES ASSUME NEW m \in 1 .. k - 1 PROVE m \in 1 .. n /\ Same(m)
      OBVIOUS
    <3>1. m \in 1 .. n /\ ~(k <= m)
      BY <1>2, <2>3
    <3>2. m \notin T
      <4> HIDE DEF T
      <4> QED BY <2>2, <3>1
    <3> QED BY <3>1, <3>2
  <2>5. PICK j \in 1 .. c : q[j] = toks[k] + 1
    BY <1>1, <1>2, <2>3
  <2>6. toks[k] \in Nat /\ toks[k] < f
    BY <1>2, <2>3
  <2>7. CASE j < k
    <3>1. j \in 1 .. k - 1 /\ j \in 1 .. n
      BY <1>1, <1>2, <2>3, <2>7
    <3>2. q[j] = toks[j] + 1
      BY <2>4, <3>1
    <3>3. toks[j] < toks[k] /\ toks[j] \in Nat
      <4> HIDE DEF T
      <4> QED BY <1>2, <2>3, <2>7, <3>1
    <3> QED BY <2>5, <2>6, <3>2, <3>3
  <2>8. CASE j > k
    <3>1. k \in 1 .. c
      BY <1>1, <1>2, <2>3, <2>8
    <3>2. q[k] < q[j] /\ q[k] \in S /\ q[k] - 1 \in Nat
      BY <1>1, <1>3, <2>8, <3>1
    <3> DEFINE t == q[k] - 1
    <3>3. t \in 0 .. f - 1 /\ t + 1 = q[k] /\ t < toks[k]
      <4> DEFINE a == q[k]
                 b == toks[k]
      <4>1. a \in Nat /\ a - 1 \in Nat
        BY <1>3, <3>1
      <4>2. a < b + 1
        BY <2>5, <3>2
      <4>3. b \in Nat /\ b < f /\ f \in Nat
        BY <1>2, <2>6
      <4> HIDE DEF a, b
      <4>4. a - 1 \in 0 .. f - 1 /\ (a - 1) + 1 = a /\ a - 1 < b
        BY <4>1, <4>2, <4>3
      <4> QED BY <4>4 DEF a, b
    <3> HIDE DEF t
    <3>4. PICK m \in 1 .. n : toks[m] = t
      BY <1>2, <3>2, <3>3
    <3>5. m < k
      <4>1. toks[m] < toks[k] /\ toks[m] \in Nat
        BY <3>3, <3>4
      <4>2. ~(k < m)
        <5> HIDE DEF T
        <5>1. k < m => toks[k] < toks[m]
          BY <1>2, <2>3
        <5> QED BY <2>6, <4>1, <5>1
      <4>3. k # m
        BY <2>6, <4>1
      <4> QED BY <1>2, <2>3, <4>2, <4>3
    <3>6. m \in 1 .. k - 1
      BY <1>2, <2>3, <3>5
    <3>7. m \in 1 .. c /\ q[m] = q[k]
      BY <2>4, <3>3, <3>4, <3>6
    <3>8. q[m] < q[k]
      BY <1>1, <3>1, <3>5, <3>7
    <3> QED BY <1>3, <3>1, <3>7, <3>8
  <2>9. CASE j = k
    BY <2>3, <2>5, <2>9
  <2> QED BY <1>1, <1>2, <2>3, <2>7, <2>8, <2>9
<1>5. \A k \in 1 .. n : Same(k)
  <2> HIDE DEF Same
  <2> QED BY <1>4
<1>6. ASSUME f = Len(line) PROVE c = n
  <2>1. n <= c
    <3>1. CASE n = 0
      BY <1>1, <3>1
    <3>2. CASE n # 0
      <4>1. n \in 1 .. n
        BY <1>2, <3>2
      <4> QED BY <1>1, <1>2, <1>5, <4>1
    <3> QED BY <3>1, <3>2
  <2>2. CASE c > n
    <3> DEFINE k == n + 1
    <3>1. k \in 1 .. c /\ k > n
      BY <1>1, <1>2, <2>2
    <3> HIDE DEF k
    <3>2. q[k] \in S /\ q[k] - 1 \in 0 .. f - 1 /\ (q[k] - 1) + 1 = q[k]
      BY <1>2, <1>3, <1>6, <3>1
    <3>3. PICK m \in 1 .. n : toks[m] = q[k] - 1
      BY <1>2, <3>2
    <3>4. m \in 1 .. c /\ q[m] = q[k] /\ m < k
      BY <1>2, <1>5, <3>1, <3>2, <3>3
    <3> QED BY <1>1, <1>3, <3>1, <3>4
  <2> QED BY <1>1, <1>2, <2>1, <2>2
<1> QED BY <1>1, <1>2, <1>5, <1>6 DEF n

(* The word at t ends where EndsAt says, and strtok leaves it as a string. *)
LEMMA WordIs ==
  ASSUME NEW line, IsLine(line), NEW t \in Nat, t + 1 \in WordStarts(line),
         NEW e \in Nat, EndsAt(line, t, e)
  PROVE  e > t /\ WordFrom(line, t + 1) = SubSeq(line, t + 1, e)
<1> DEFINE L == Len(line)
           S == {x \in t + 1 .. L : \A k \in t + 1 .. x : line[k] # SPACE}
<1>1. L \in Nat /\ t + 1 \in 1 .. L /\ line[t + 1] # SPACE
  BY LineFacts
<1>2. e <= L /\ (e = L \/ line[e + 1] = SPACE) /\ e >= t
  BY DEF EndsAt
<1> HIDE DEF L
<1>3. e > t
  <2>1. e # t
    BY <1>1, <1>2
  <2> QED BY <1>2, <2>1
<1>4. \A k \in t + 1 .. e : line[k] # SPACE
  <2> SUFFICES ASSUME NEW k \in t + 1 .. e PROVE line[k] # SPACE
    OBVIOUS
  <2>1. k - 1 \in t .. e - 1 /\ (k - 1) + 1 = k
    OBVIOUS
  <2> QED BY <2>1 DEF EndsAt
<1>5. e \in S
  BY <1>1, <1>2, <1>3, <1>4
<1>6. ASSUME NEW y \in S PROVE y <= e
  <2>1. y \in t + 1 .. L /\ \A k \in t + 1 .. y : line[k] # SPACE
    OBVIOUS
  <2>2. CASE y > e
    <3>1. e + 1 \in t + 1 .. y /\ e # L
      BY <1>1, <1>2, <1>3, <2>1, <2>2
    <3> QED BY <1>2, <2>1, <3>1
  <2> QED BY <1>1, <2>1, <2>2
<1>7. S \subseteq Int
  BY <1>1
<1>8. Max(S) = e
  <2> HIDE DEF S
  <2> QED BY <1>5, <1>6, <1>7, MaxIs
<1> QED BY <1>3, <1>8 DEF WordFrom, L

LEMMA WordString ==
  ASSUME NEW line, IsLine(line), NEW toks \in Seq(Nat), NEW f,
         Split(line, cmd_buffer, toks, f), NEW k \in 1 .. Len(toks)
  PROVE  StringAt(toks[k]) = WordFrom(line, toks[k] + 1)
<1> DEFINE t == toks[k]
           L == Len(line)
<1>1. /\ t \in Nat /\ t + 1 \in WordStarts(line)
      /\ Closed(line, cmd_buffer, t)
  BY DEF Split, AllClosed
<1>2. /\ L \in Nat /\ L \in Positions /\ f \in 0 .. L
      /\ Typed(line, cmd_buffer, f) /\ OnlySpacesCut(line, cmd_buffer, f)
  BY LineFacts DEF Split
<1> HIDE DEF t
<1>3. PICK e \in Nat : EndsAt(line, t, e) /\ cmd_buffer[e] = NUL
  BY <1>1 DEF Closed
<1>4. e > t /\ WordFrom(line, t + 1) = SubSeq(line, t + 1, e) /\ e <= L
  <2>1. e > t /\ WordFrom(line, t + 1) = SubSeq(line, t + 1, e)
    BY <1>1, <1>3, WordIs
  <2>2. e <= Len(line)
    BY <1>3 DEF EndsAt
  <2> QED BY <2>1, <2>2
<1> HIDE DEF L
<1>5. ASSUME NEW r \in t .. e - 1 PROVE cmd_buffer[r] = line[r + 1] /\ line[r + 1] # NUL
  <2>1. r + 1 \in 1 .. L /\ (r \in 0 .. f - 1 \/ r \in f .. L - 1)
    BY <1>1, <1>2, <1>3, <1>4
  <2>2. line[r + 1] # SPACE
    BY <1>3 DEF EndsAt
  <2>3. cmd_buffer[r] = line[r + 1]
    BY <1>2, <2>1, <2>2 DEF OnlySpacesCut, Typed, L
  <2> QED BY <2>1, <2>3, LineFacts DEF L
<1>6. e \in Positions
  BY <1>2, <1>3, <1>4, PositionsNat
<1>7. StringAt(t) = [j \in 1 .. e - t |-> cmd_buffer[t + j - 1]]
  <2>1. e >= t /\ \A r \in t .. e - 1 : cmd_buffer[r] # NUL
    <3>1. e >= t
      BY <1>1, <1>3, <1>4
    <3>2. \A r \in t .. e - 1 : cmd_buffer[r] # NUL
      BY <1>5, Zenon
    <3> QED BY <3>1, <3>2
  <2> QED BY <1>1, <1>3, <1>6, <2>1, StringAtIs
<1>8. SubSeq(line, t + 1, e) = [j \in 1 .. e - t |-> line[t + j]]
  <2> DEFINE w == SubSeq(line, t + 1, e)
  <2>1. \A m \in t + 1 .. e : line[m] \in Keys
    <3> SUFFICES ASSUME NEW m \in t + 1 .. e PROVE line[m] \in Keys
      OBVIOUS
    <3>1. m \in 1 .. L
      BY <1>1, <1>2, <1>4
    <3> QED BY <3>1, LineFacts DEF L
  <2>2. /\ w \in Seq(Keys) /\ Len(w) = IF t + 1 <= e THEN e - (t + 1) + 1 ELSE 0
        /\ \A j \in 1 .. e - (t + 1) + 1 : w[j] = line[(t + 1) + j - 1]
    BY <1>1, <1>3, <2>1, SubSeqProperties
  <2> HIDE DEF w
  <2>3. Len(w) = e - t /\ e - (t + 1) + 1 = e - t
    BY <1>1, <1>3, <1>4, <2>2
  <2>4. \A j \in 1 .. e - t : (t + 1) + j - 1 = t + j
    BY <1>1, <1>3
  <2>5. \A j \in 1 .. e - t : w[j] = line[t + j]
    BY <2>2, <2>3, <2>4
  <2>6. w = [j \in 1 .. Len(w) |-> w[j]]
    BY <2>2
  <2>7. w = [j \in 1 .. e - t |-> line[t + j]]
    BY <2>3, <2>5, <2>6
  <2> QED BY <2>7 DEF w
<1>9. \A j \in 1 .. e - t : cmd_buffer[t + j - 1] = line[t + j]
  <2> SUFFICES ASSUME NEW j \in 1 .. e - t PROVE cmd_buffer[t + j - 1] = line[t + j]
    OBVIOUS
  <2>1. t + j - 1 \in t .. e - 1 /\ (t + j - 1) + 1 = t + j
    BY <1>1, <1>3
  <2> QED BY <1>5, <2>1
<1>10. StringAt(t) = WordFrom(line, t + 1)
  BY <1>4, <1>7, <1>8, <1>9
<1> QED BY <1>10 DEF t

-----------------------------------------------------------------------------
(***************************************************************************)
(* The inductive invariant.  While a line is read the buffer holds what    *)
(* the screen shows; while it is split, strtok has dealt with the part     *)
(* before the place where it goes on, and the tokens found are those of    *)
(* argv and the one not yet stored.                                        *)
(***************************************************************************)
Tokens == IF token = NULL THEN argv ELSE Append(argv, token)

Found == IF strtok_last = NULL THEN Len(shown) ELSE strtok_last

Reading == i = Len(shown) /\ Typed(shown, cmd_buffer, 0)

Splitting ==
  /\ Split(shown, cmd_buffer, Tokens, Found)
  /\ token = NULL => strtok_last = NULL

LineInv ==
  /\ TypeOK /\ IsLine(shown)
  /\ at \in {"read", "split"} => Reading
  /\ at = "split" => cmd_buffer[Len(shown)] = NUL
  /\ at \in {"args", "dispatch"} => Splitting
  /\ at = "dispatch" => argv # <<>> /\ (token = NULL \/ Len(argv) = MAX_ARGS)

LEMMA NullFacts == NULL \notin Nat /\ \A q \in Positions : q \in Nat /\ q # NULL
BY PositionsNat DEF NULL

LEMMA TokensNat ==
  ASSUME TypeOK
  PROVE  Tokens \in Seq(Nat)
<1>1. argv \in Seq(Nat)
  BY NullFacts DEF TypeOK
<1>2. token # NULL => token \in Nat
  BY NullFacts DEF TypeOK
<1> QED BY <1>1, <1>2 DEF Tokens

(* One call of strtok that has a string to look at.                        *)
LEMMA StrtokSplits ==
  ASSUME TypeOK, IsLine(shown), NEW toks \in Seq(Nat), NEW from \in Nat,
         Split(shown, cmd_buffer, toks, from), NEW str,
         from = IF str = NULL THEN strtok_last ELSE str, Strtok(str)
  PROVE  /\ cmd_buffer' \in [Positions -> Keys \cup {NUL}]
         /\ {token', strtok_last'} \subseteq Positions \cup {NULL}
         /\ Split(shown, cmd_buffer',
                  IF token' = NULL THEN toks ELSE Append(toks, token'),
                  IF strtok_last' = NULL THEN Len(shown) ELSE strtok_last')
         /\ token' = NULL => strtok_last' = NULL
<1> DEFINE start == Strspn(from)
           end   == Strpbrk(start)
           L == Len(shown)
<1>1. /\ L \in Nat /\ L \in Positions /\ from \in 0 .. L /\ cmd_buffer[L] = NUL
      /\ Typed(shown, cmd_buffer, from)
  BY LineFacts DEF Split
<1>2. /\ start \in Positions /\ start \in Nat /\ start >= from /\ start <= L
      /\ cmd_buffer[start] # SPACE
      /\ \A r \in from .. start - 1 : cmd_buffer[r] = SPACE
  <2> HIDE DEF start
  <2>1. start = Strspn(from) /\ L >= from
    BY <1>1 DEF start
  <2> HIDE DEF L
  <2> QED BY <1>1, <2>1, StrspnIs, NullFacts
<1>3. \/ /\ cmd_buffer[start] = NUL
         /\ token' = NULL /\ strtok_last' = NULL
         /\ UNCHANGED cmd_buffer
      \/ /\ cmd_buffer[start] # NUL
         /\ token' = start
         /\ strtok_last' = IF cmd_buffer[end] = NUL THEN NULL ELSE end + 1
         /\ cmd_buffer' = [cmd_buffer EXCEPT ![end] = NUL]
  <2>1. from # NULL
    BY NullFacts
  <2> QED BY <2>1, Zenon DEF Strtok
<1> HIDE DEF start, end
<1>4. CASE cmd_buffer[start] = NUL
  <2>1. token' = NULL /\ strtok_last' = NULL /\ cmd_buffer' = cmd_buffer
    BY <1>3, <1>4
  <2>2. start = L
    <3>1. CASE start # L
      <4>1. start \in from .. L - 1 /\ start + 1 \in 1 .. L
        BY <1>1, <1>2, <3>1
      <4> QED BY <1>1, <1>4, <4>1, LineFacts DEF Typed
    <3> QED BY <3>1
  <2>3. Split(shown, cmd_buffer, toks, L)
    BY <1>2, <2>2, SplitToEnd
  <2> QED BY <2>1, <2>3, Zenon DEF TypeOK
<1>5. CASE cmd_buffer[start] # NUL
  <2>1. /\ token' = start
        /\ strtok_last' = IF cmd_buffer[end] = NUL THEN NULL ELSE end + 1
        /\ cmd_buffer' = [cmd_buffer EXCEPT ![end] = NUL]
    BY <1>3, <1>5
  <2>2. /\ end \in Positions /\ end \in Nat /\ end >= start /\ end <= L
        /\ cmd_buffer[end] \in {SPACE, NUL}
        /\ \A r \in start .. end - 1 : cmd_buffer[r] \notin {SPACE, NUL}
    <3>1. end = Strpbrk(start) /\ L >= start
      BY <1>1, <1>2 DEF end
    <3> HIDE DEF L
    <3> QED BY <1>1, <1>2, <3>1, StrpbrkIs, NullFacts
  <2>3. start < L
    <3>1. start # L
      BY <1>1, <1>5
    <3> QED BY <1>1, <1>2, <3>1
  <2>4. DOMAIN cmd_buffer = Positions
    BY DEF TypeOK
  <2> DEFINE g == IF cmd_buffer[end] = NUL THEN L ELSE end + 1
  <2>5. Split(shown, cmd_buffer', Append(toks, start), g)
    BY <1>1, <1>2, <2>1, <2>2, <2>3, <2>4, SplitWord
  <2>6. g \in 0 .. L
    BY <2>5 DEF Split
  <2>7. (IF strtok_last' = NULL THEN L ELSE strtok_last') = g
    BY <2>1, <2>2, NullFacts
  <2>8. strtok_last' \in Positions \cup {NULL}
    <3>1. \A q \in 0 .. L : q \in Positions
      BY <1>1, PositionsNat
    <3> QED BY <2>1, <2>6, <3>1
  <2>9. token' # NULL /\ token' \in Positions
    BY <1>2, <2>1, NullFacts
  <2>10. cmd_buffer' \in [Positions -> Keys \cup {NUL}]
    BY <2>1 DEF TypeOK
  <2> HIDE DEF g
  <2>11. Split(shown, cmd_buffer',
               IF token' = NULL THEN toks ELSE Append(toks, token'),
               IF strtok_last' = NULL THEN Len(shown) ELSE strtok_last')
    BY <2>1, <2>5, <2>7, <2>9, Zenon
  <2> QED BY <2>8, <2>9, <2>10, <2>11
<1> QED BY <1>4, <1>5

-----------------------------------------------------------------------------
(* The invariant, step by step.                                            *)
LEMMA InvInit == Init => LineInv
<1> SUFFICES ASSUME Init PROVE LineInv
  OBVIOUS
<1>1. TypeOK
  <2>1. fifo \in Seq(Keys) /\ Len(fifo) <= FIFO_SIZE /\ shown \in Seq(Keys)
    BY CommandLineConstants DEF Init
  <2>2. argv \in Seq(Positions) /\ Len(argv) <= MAX_ARGS
    BY CommandLineConstants DEF Init
  <2>3. i \in Positions
    BY PositionsNat DEF Init
  <2> QED BY <2>1, <2>2, <2>3 DEF Init, TypeOK
<1>2. IsLine(shown)
  BY PositionsNat DEF Init, IsLine
<1> QED BY <1>1, <1>2 DEF Init, LineInv

(* A character in the FIFO is not seen before it is read.                  *)
LEMMA SameLine ==
  ASSUME LineInv, TypeOK',
         UNCHANGED <<cmd_buffer, i, argv, token, strtok_last, at, shown>>
  PROVE  LineInv'
<1>1. IsLine(shown)'
  BY DEF LineInv, IsLine
<1>2. Tokens' = Tokens /\ Found' = Found
  BY DEF Tokens, Found
<1>3. Reading' <=> Reading
  BY DEF Reading, Typed
<1>4. Splitting' <=> Splitting
  BY <1>2 DEF Splitting
<1> QED BY <1>1, <1>3, <1>4 DEF LineInv

LEMMA InvReceive ==
  ASSUME LineInv, NEW c \in Keys, Receive(c)
  PROVE  LineInv'
<1>1. fifo' \in Seq(Keys) /\ Len(fifo') <= FIFO_SIZE
  BY CommandLineConstants DEF LineInv, TypeOK, Receive
<1>2. TypeOK'
  BY <1>1 DEF LineInv, TypeOK, Receive
<1> QED BY <1>2, SameLine DEF Receive

LEMMA InvPrompt ==
  ASSUME LineInv, Prompt
  PROVE  LineInv'
<1>1. TypeOK'
  <2>1. 0 \in Positions
    BY PositionsNat
  <2> QED BY <2>1 DEF LineInv, TypeOK, Prompt
<1>2. IsLine(shown)'
  BY PositionsNat DEF Prompt, IsLine
<1>3. Reading'
  BY DEF Prompt, Reading, Typed
<1> QED BY <1>1, <1>2, <1>3 DEF LineInv, Prompt

(* The end of a line, by a newline or because the buffer is full.          *)
LEMMA InvEndOfLine ==
  ASSUME LineInv, at = "read", EndOfLine, fifo' \in Seq(Keys),
         Len(fifo') <= FIFO_SIZE, UNCHANGED <<argv, token, strtok_last, shown>>
  PROVE  LineInv'
<1>1. TypeOK /\ IsLine(shown) /\ Reading
  BY DEF LineInv
<1>2. i \in Positions /\ i \in Nat /\ i = Len(shown) /\ i' = i
  BY <1>1, NullFacts DEF TypeOK, Reading, EndOfLine
<1>3. /\ cmd_buffer' \in [Positions -> Keys \cup {NUL}]
      /\ cmd_buffer'[i] = NUL
      /\ \A q \in Positions : q # i => cmd_buffer'[q] = cmd_buffer[q]
  BY <1>1, <1>2 DEF TypeOK, EndOfLine
<1>4. at' \in {"prompt", "split"}
  BY DEF EndOfLine
<1>5. TypeOK'
  BY <1>1, <1>2, <1>3, <1>4 DEF TypeOK
<1>6. IsLine(shown)'
  BY <1>1 DEF IsLine
<1>7. Reading'
  <2>1. ASSUME NEW q \in 0 .. i - 1 PROVE cmd_buffer'[q] = shown[q + 1]
    <3>1. q \in Positions /\ q # i
      BY <1>2, PositionsNat
    <3>2. cmd_buffer[q] = shown[q + 1]
      BY <1>1, <1>2 DEF Reading, Typed
    <3> QED BY <1>3, <3>1, <3>2
  <2> QED BY <1>2, <2>1 DEF Reading, Typed
<1>8. cmd_buffer'[Len(shown')] = NUL
  BY <1>2, <1>3
<1> QED BY <1>4, <1>5, <1>6, <1>7, <1>8 DEF LineInv

LEMMA InvEraseChar ==
  ASSUME LineInv, at = "read", EraseChar, fifo' \in Seq(Keys),
         Len(fifo') <= FIFO_SIZE, UNCHANGED <<argv, token, strtok_last>>
  PROVE  LineInv'
<1>1. TypeOK /\ IsLine(shown) /\ Reading
  BY DEF LineInv
<1>2. i \in Positions /\ i \in Nat /\ i = Len(shown) /\ shown \in Seq(Keys)
  BY <1>1, NullFacts DEF TypeOK, Reading
<1>3. cmd_buffer' = cmd_buffer /\ at' = at
  BY DEF EraseChar
<1>4. CASE i = 0
  <2>1. i' = i /\ shown' = shown
    BY <1>4 DEF EraseChar
  <2>2. TypeOK'
    BY <1>1, <1>3, <2>1 DEF TypeOK
  <2> QED BY <1>3, <2>1, <2>2, SameLine
<1>5. CASE i # 0
  <2>1. i' = i - 1 /\ shown' = SubSeq(shown, 1, i - 1)
    BY <1>2, <1>5 DEF EraseChar, Front
  <2>2. \A k \in 1 .. i - 1 : shown[k] \in Keys
    BY <1>2
  <2>3. /\ shown' \in Seq(Keys) /\ Len(shown') = i - 1
        /\ \A k \in 1 .. i - 1 : shown'[k] = shown[k]
    <3> DEFINE w == SubSeq(shown, 1, i - 1)
    <3>1. /\ w \in Seq(Keys) /\ Len(w) = IF 1 <= i - 1 THEN (i - 1) - 1 + 1 ELSE 0
          /\ \A k \in 1 .. (i - 1) - 1 + 1 : w[k] = shown[1 + k - 1]
      BY <1>2, <2>2, SubSeqProperties
    <3>2. w = shown'
      BY <2>1
    <3> HIDE DEF w
    <3>3. Len(w) = i - 1 /\ (i - 1) - 1 + 1 = i - 1
      BY <1>2, <1>5, <3>1
    <3>4. \A k \in 1 .. i - 1 : 1 + k - 1 = k
      OBVIOUS
    <3> QED BY <3>1, <3>2, <3>3, <3>4
  <2>4. i - 1 \in Positions /\ i - 1 \in Nat
    BY <1>2, <1>5, PositionsNat
  <2>5. TypeOK'
    BY <1>1, <1>3, <2>1, <2>3, <2>4 DEF TypeOK
  <2>6. IsLine(shown)'
    <3>1. \A k \in 1 .. i - 1 : Printable(shown[k])
      BY <1>1, <1>2 DEF IsLine
    <3>2. \A k \in 1 .. i - 1 : Printable(shown'[k])
      BY <2>3, <3>1
    <3> QED BY <2>3, <2>4, <3>2 DEF IsLine
  <2>7. Reading'
    <3>1. ASSUME NEW q \in 0 .. i - 1 - 1 PROVE cmd_buffer[q] = shown'[q + 1]
      <4>1. q \in 0 .. i - 1 /\ q + 1 \in 1 .. i - 1
        BY <1>2
      <4>2. cmd_buffer[q] = shown[q + 1]
        BY <1>1, <1>2, <4>1 DEF Reading, Typed
      <4> QED BY <2>3, <4>1, <4>2
    <3> QED BY <1>3, <2>1, <2>3, <3>1 DEF Reading, Typed
  <2> QED BY <1>3, <2>5, <2>6, <2>7 DEF LineInv
<1> QED BY <1>4, <1>5

LEMMA InvStoreChar ==
  ASSUME LineInv, at = "read", i < LineLimit, NEW c \in Keys, Printable(c),
         StoreChar(c), fifo' \in Seq(Keys), Len(fifo') <= FIFO_SIZE,
         UNCHANGED <<argv, token, strtok_last>>
  PROVE  LineInv'
<1>1. TypeOK /\ IsLine(shown) /\ Reading
  BY DEF LineInv
<1>2. i \in Positions /\ i \in Nat /\ i = Len(shown) /\ shown \in Seq(Keys)
  BY <1>1, NullFacts DEF TypeOK, Reading
<1>3. /\ i' = i + 1 /\ shown' = Append(shown, c) /\ at' = at
      /\ cmd_buffer' = [cmd_buffer EXCEPT ![i] = c]
  BY DEF StoreChar
<1>4. /\ shown' \in Seq(Keys) /\ Len(shown') = i + 1 /\ shown'[i + 1] = c
      /\ \A k \in 1 .. i : shown'[k] = shown[k]
  BY <1>2, <1>3
<1>5. i + 1 \in Positions
  BY <1>2, PositionsNat DEF LineLimit
<1>6. /\ cmd_buffer' \in [Positions -> Keys \cup {NUL}]
      /\ cmd_buffer'[i] = c
      /\ \A q \in Positions : q # i => cmd_buffer'[q] = cmd_buffer[q]
  BY <1>1, <1>2, <1>3 DEF TypeOK
<1>7. TypeOK'
  BY <1>1, <1>3, <1>4, <1>5, <1>6 DEF TypeOK
<1>8. IsLine(shown)'
  <2>1. ASSUME NEW k \in 1 .. i + 1 PROVE Printable(shown'[k])
    <3>1. CASE k = i + 1
      BY <1>4, <3>1
    <3>2. CASE k # i + 1
      <4>1. k \in 1 .. i
        BY <1>2, <3>2
      <4>2. Printable(shown[k])
        BY <1>1, <1>2, <4>1 DEF IsLine
      <4> QED BY <1>4, <4>1, <4>2
    <3> QED BY <3>1, <3>2
  <2> QED BY <1>4, <1>5, <2>1 DEF IsLine
<1>9. Reading'
  <2>1. ASSUME NEW q \in 0 .. (i + 1) - 1 PROVE cmd_buffer'[q] = shown'[q + 1]
    <3>1. CASE q = i
      BY <1>4, <1>6, <3>1
    <3>2. CASE q # i
      <4>1. q \in 0 .. i - 1 /\ q \in Positions /\ q + 1 \in 1 .. i
        BY <1>2, <3>2, PositionsNat
      <4>2. cmd_buffer[q] = shown[q + 1]
        BY <1>1, <1>2, <4>1 DEF Reading, Typed
      <4> QED BY <1>4, <1>6, <3>2, <4>1, <4>2
    <3> QED BY <3>1, <3>2
  <2> QED BY <1>3, <1>4, <2>1 DEF Reading, Typed
<1> QED BY <1>3, <1>7, <1>8, <1>9 DEF LineInv

(* kgetc_blocking takes one character out of the FIFO.                     *)
LEMMA InvReadChar ==
  ASSUME LineInv, ReadChar
  PROVE  LineInv'
<1>1. TypeOK /\ at = "read" /\ i < LineLimit /\ fifo # <<>>
  BY DEF LineInv, ReadChar
<1>2. fifo' \in Seq(Keys) /\ Len(fifo') <= FIFO_SIZE /\ Head(fifo) \in Keys
  BY <1>1, CommandLineConstants DEF TypeOK, ReadChar
<1> DEFINE c == Kgetc
<1>3. UNCHANGED <<argv, token, strtok_last>>
  BY DEF ReadChar
<1>4. Printable(c) => c \in Keys
  BY <1>2 DEF Kgetc, Printable, LF
<1> HIDE DEF c
<1>5. CASE EndsLine(c) /\ EndOfLine /\ UNCHANGED shown
  BY <1>1, <1>2, <1>3, <1>5, InvEndOfLine
<1>6. CASE c \in {BS, DEL} /\ EraseChar
  BY <1>1, <1>2, <1>3, <1>6, InvEraseChar
<1>7. CASE Printable(c) /\ StoreChar(c)
  BY <1>1, <1>2, <1>3, <1>4, <1>7, InvStoreChar
<1>8. CASE UNCHANGED <<cmd_buffer, i, at, shown>>
  <2>1. TypeOK'
    BY <1>1, <1>2, <1>3, <1>8 DEF TypeOK
  <2> QED BY <1>3, <1>8, <2>1, SameLine
<1> QED BY <1>5, <1>6, <1>7, <1>8 DEF ReadChar, c

LEMMA InvLineFull ==
  ASSUME LineInv, LineFull
  PROVE  LineInv'
<1>1. fifo' \in Seq(Keys) /\ Len(fifo') <= FIFO_SIZE
  BY DEF LineInv, TypeOK, LineFull
<1> QED BY <1>1, InvEndOfLine DEF LineFull

LEMMA InvFirstToken ==
  ASSUME LineInv, FirstToken
  PROVE  LineInv'
<1>1. /\ TypeOK /\ IsLine(shown) /\ Typed(shown, cmd_buffer, 0)
      /\ cmd_buffer[Len(shown)] = NUL /\ Strtok(0) /\ Len(shown) \in Nat
  BY LineFacts DEF LineInv, FirstToken, Reading
<1>2. Split(shown, cmd_buffer, <<>>, 0)
  BY <1>1 DEF Split, OnlySpacesCut, Increasing, AllFound, AllClosed
<1>3. <<>> \in Seq(Nat) /\ 0 \in Nat /\ 0 = IF 0 = NULL THEN strtok_last ELSE 0
  BY NullFacts
<1>4. /\ cmd_buffer' \in [Positions -> Keys \cup {NUL}]
      /\ {token', strtok_last'} \subseteq Positions \cup {NULL}
      /\ Split(shown, cmd_buffer',
               IF token' = NULL THEN <<>> ELSE Append(<<>>, token'),
               IF strtok_last' = NULL THEN Len(shown) ELSE strtok_last')
      /\ token' = NULL => strtok_last' = NULL
  BY <1>1, <1>2, <1>3, StrtokSplits
<1>5. argv' = <<>> /\ at' = "args" /\ UNCHANGED <<fifo, i, shown>>
  BY DEF FirstToken
<1>6. TypeOK'
  <2>1. argv' \in Seq(Positions) /\ Len(argv') <= MAX_ARGS
    BY <1>5, CommandLineConstants
  <2> QED BY <1>1, <1>4, <1>5, <2>1 DEF TypeOK
<1>7. IsLine(shown)'
  BY <1>1, <1>5 DEF IsLine
<1>8. Splitting'
  BY <1>4, <1>5 DEF Splitting, Tokens, Found
<1> QED BY <1>5, <1>6, <1>7, <1>8 DEF LineInv

LEMMA InvNextToken ==
  ASSUME LineInv, NextToken
  PROVE  LineInv'
<1>1. /\ TypeOK /\ IsLine(shown) /\ Splitting /\ token # NULL
      /\ Len(argv) < MAX_ARGS /\ Strtok(NULL)
  BY DEF LineInv, NextToken
<1>2. argv' = Append(argv, token) /\ at' = "args" /\ UNCHANGED <<fifo, i, shown>>
  BY DEF NextToken
<1>3. /\ argv' = Tokens /\ argv' \in Seq(Nat)
      /\ argv' \in Seq(Positions) /\ Len(argv') <= MAX_ARGS
  <2>1. argv' = Tokens
    BY <1>1, <1>2 DEF Tokens
  <2>2. token \in Positions /\ argv \in Seq(Positions)
    BY <1>1 DEF TypeOK
  <2>3. Len(argv') = Len(argv) + 1 /\ argv' \in Seq(Positions) /\ Len(argv) \in Nat
    BY <1>2, <2>2
  <2> QED BY <1>1, <2>1, <2>3, TokensNat, CommandLineConstants
<1>4. Split(shown, cmd_buffer, argv', Found)
  BY <1>1, <1>3 DEF Splitting
<1> DEFINE toks == argv'
<1>5. /\ cmd_buffer' \in [Positions -> Keys \cup {NUL}]
      /\ {token', strtok_last'} \subseteq Positions \cup {NULL}
      /\ Split(shown, cmd_buffer',
               IF token' = NULL THEN toks ELSE Append(toks, token'),
               IF strtok_last' = NULL THEN Len(shown) ELSE strtok_last')
      /\ token' = NULL => strtok_last' = NULL
  <2>1. CASE strtok_last = NULL
    <3>1. token' = NULL /\ cmd_buffer' = cmd_buffer /\ strtok_last' = strtok_last
      BY <1>1, <2>1, Zenon DEF Strtok
    <3>2. Found = Len(shown)
      BY <2>1 DEF Found
    <3> QED BY <1>1, <1>4, <2>1, <3>1, <3>2 DEF TypeOK
  <2>2. CASE strtok_last # NULL
    <3>1. strtok_last \in Nat /\ Found = strtok_last
      BY <1>1, <2>2, NullFacts DEF TypeOK, Found
    <3> HIDE DEF toks
    <3>2. toks \in Seq(Nat) /\ Split(shown, cmd_buffer, toks, strtok_last)
      BY <1>3, <1>4, <3>1 DEF toks
    <3> QED BY <1>1, <3>1, <3>2, StrtokSplits
  <2> QED BY <2>1, <2>2
<1>6. TypeOK'
  BY <1>1, <1>2, <1>3, <1>5 DEF TypeOK
<1>7. IsLine(shown)'
  BY <1>1, <1>2 DEF IsLine
<1>8. Splitting'
  BY <1>2, <1>5 DEF Splitting, Tokens, Found
<1> QED BY <1>2, <1>6, <1>7, <1>8 DEF LineInv

(* argv is complete, or the command returns: only at changes.              *)
LEMMA SameTokens ==
  ASSUME LineInv, at' \in {"prompt", "dispatch", "exited"},
         at' = "dispatch" =>
           /\ at = "args" /\ argv # <<>> /\ (token = NULL \/ Len(argv) = MAX_ARGS),
         UNCHANGED <<fifo, cmd_buffer, i, argv, token, strtok_last, shown>>
  PROVE  LineInv'
<1>1. TypeOK'
  BY DEF LineInv, TypeOK
<1>2. IsLine(shown)'
  BY DEF LineInv, IsLine
<1>3. Tokens' = Tokens /\ Found' = Found
  BY DEF Tokens, Found
<1>4. Splitting' <=> Splitting
  BY <1>3 DEF Splitting
<1> QED BY <1>1, <1>2, <1>4 DEF LineInv

LEMMA InvNext ==
  ASSUME LineInv, [Next]_vars
  PROVE  LineInv'
<1>1. CASE UNCHANGED vars
  <2>1. TypeOK'
    BY <1>1 DEF LineInv, TypeOK, vars
  <2> QED BY <1>1, <2>1, SameLine DEF vars
<1>2. CASE Prompt
  BY <1>2, InvPrompt
<1>3. CASE ReadChar
  BY <1>3, InvReadChar
<1>4. CASE LineFull
  BY <1>4, InvLineFull
<1>5. CASE FirstToken
  BY <1>5, InvFirstToken
<1>6. CASE NextToken
  BY <1>6, InvNextToken
<1>7. CASE EndOfArgs
  BY <1>7, SameTokens DEF EndOfArgs
<1>8. CASE Dispatch
  BY <1>8, SameTokens DEF Dispatch
<1>9. ASSUME NEW c \in Keys, Receive(c) PROVE LineInv'
  BY <1>9, InvReceive
<1> QED BY <1>1, <1>2, <1>3, <1>4, <1>5, <1>6, <1>7, <1>8, <1>9 DEF Next, Cpu

(* What the invariant says when a command is called.                       *)
LEMMA InvWords ==
  ASSUME LineInv
  PROVE  ArgvIsWordsShown
<1> SUFFICES ASSUME at = "dispatch"
             PROVE  /\ Len(argv) = Min({Len(Words(shown)), MAX_ARGS})
                    /\ \A k \in 1 .. Len(argv) :
                         StringAt(argv[k]) = Words(shown)[k]
  BY DEF ArgvIsWordsShown
<1> DEFINE order == Ascending(WordStarts(shown))
           c == Cardinality(WordStarts(shown))
           n == Len(argv)
<1>1. /\ TypeOK /\ IsLine(shown) /\ Splitting /\ Tokens \in Seq(Nat)
      /\ token = NULL \/ n = MAX_ARGS
  BY TokensNat DEF LineInv
<1>2. /\ c \in Nat /\ DOMAIN order = 1 .. c
      /\ \A k \in 1 .. Len(Tokens) : k \in 1 .. c /\ order[k] = Tokens[k] + 1
      /\ Found = Len(shown) => c = Len(Tokens)
  <2> HIDE DEF order, c
  <2>1. order = Ascending(WordStarts(shown)) /\ c = Cardinality(WordStarts(shown))
    BY DEF order, c
  <2> DEFINE toks == Tokens
             f == Found
  <2>2. IsLine(shown) /\ toks \in Seq(Nat) /\ Split(shown, cmd_buffer, toks, f)
    BY <1>1 DEF Splitting
  <2> HIDE DEF toks, f
  <2>3. /\ c \in Nat /\ DOMAIN order = 1 .. c
        /\ \A k \in 1 .. Len(toks) : k \in 1 .. c /\ order[k] = toks[k] + 1
        /\ f = Len(shown) => c = Len(toks)
    <3>1. c \in Nat
      BY <2>1, <2>2, TokensAreFirstWords
    <3>2. DOMAIN order = 1 .. c
      BY <2>1, <2>2, TokensAreFirstWords
    <3>3. \A k \in 1 .. Len(toks) : k \in 1 .. c /\ order[k] = toks[k] + 1
      BY <2>1, <2>2, TokensAreFirstWords
    <3>4. f = Len(shown) => c = Len(toks)
      BY <2>1, <2>2, TokensAreFirstWords
    <3> QED BY <3>1, <3>2, <3>3, <3>4
  <2> QED BY <2>3 DEF toks, f
<1>3. Words(shown) = [k \in 1 .. c |-> WordFrom(shown, order[k])]
  <2>1. Words(shown) = [k \in DOMAIN order |-> WordFrom(shown, order[k])]
    BY Zenon DEF Words
  <2> HIDE DEF order, c
  <2> QED BY <1>2, <2>1
<1> HIDE DEF order, c
<1>4. Len(Words(shown)) = c
  <2> DEFINE w == Words(shown)
             S == {w[k] : k \in 1 .. c}
  <2>1. w \in [1 .. c -> S]
    BY <1>3
  <2> HIDE DEF w, S
  <2>2. Len(w) = c
    BY <1>2, <2>1
  <2> QED BY <2>2 DEF w
<1>5. /\ n \in Nat /\ n <= MAX_ARGS /\ MAX_ARGS \in Nat
      /\ argv \in Seq(Nat)
      /\ \A k \in 1 .. n : k \in 1 .. Len(Tokens) /\ Tokens[k] = argv[k]
  <2>1. argv \in Seq(Nat) /\ n <= MAX_ARGS
    BY <1>1, NullFacts DEF TypeOK
  <2>2. token # NULL => token \in Nat
    BY <1>1, NullFacts DEF TypeOK
  <2> QED BY <2>1, <2>2, CommandLineConstants DEF Tokens
<1>6. n = Min({c, MAX_ARGS})
  <2>1. CASE token = NULL
    <3>1. Found = Len(shown) /\ Tokens = argv
      BY <1>1, <2>1 DEF Splitting, Found, Tokens
    <3>2. c = n
      BY <1>2, <3>1
    <3> HIDE DEF n
    <3> DEFINE S == {c, MAX_ARGS}
    <3>3. n \in S /\ S \subseteq Int /\ \A y \in S : n <= y
      BY <1>2, <1>5, <3>2
    <3> HIDE DEF S
    <3>4. Min(S) = n
      BY <3>3, MinIs
    <3> QED BY <3>4 DEF S
  <2>2. CASE token # NULL
    <3>1. n = MAX_ARGS /\ Len(Tokens) = n + 1
      BY <1>1, <1>5, <2>2 DEF Tokens
    <3>2. n + 1 \in 1 .. Len(Tokens)
      BY <1>5, <3>1
    <3> HIDE DEF n
    <3>3. n + 1 \in 1 .. c
      BY <1>2, <3>2
    <3>4. n <= c
      BY <1>2, <1>5, <3>3
    <3> DEFINE S == {c, MAX_ARGS}
    <3>5. n \in S /\ S \subseteq Int /\ \A y \in S : n <= y
      BY <1>2, <1>5, <3>1, <3>4
    <3> HIDE DEF S
    <3>6. Min(S) = n
      BY <3>5, MinIs
    <3> QED BY <3>6 DEF S
  <2> QED BY <2>1, <2>2
<1>7. ASSUME NEW k \in 1 .. n PROVE StringAt(argv[k]) = Words(shown)[k]
  <2>1. k \in 1 .. Len(Tokens) /\ Tokens[k] = argv[k]
    BY <1>5
  <2>2. k \in 1 .. c /\ order[k] = Tokens[k] + 1
    BY <1>2, <2>1
  <2>3. Words(shown)[k] = WordFrom(shown, Tokens[k] + 1)
    BY <1>3, <2>2
  <2>4. StringAt(Tokens[k]) = WordFrom(shown, Tokens[k] + 1)
    BY <1>1, <2>1, WordString DEF Splitting
  <2> QED BY <2>1, <2>3, <2>4
<1> QED BY <1>4, <1>6, <1>7

LEMMA LineInvariant == Spec => []LineInv
<1>1. LineInv /\ [Next]_vars => LineInv'
  BY InvNext
<1> QED BY InvInit, <1>1, PTL DEF Spec

(* No index of the reader, of strtok or of the argument loop leaves its    *)
(* array: cmd_buffer has room for every character and its terminator, and  *)
(* argv for every token stored.                                            *)
THEOREM CommandLineTypeCorrect == Spec => []TypeOK
<1>1. LineInv => TypeOK
  BY DEF LineInv
<1> QED BY LineInvariant, <1>1, PTL

(* A command gets what the screen shows: the reader, its backspaces and    *)
(* the cuts of strtok together leave the first MAX_ARGS words of the line. *)
THEOREM ArgvIsAlwaysWordsShown == Spec => []ArgvIsWordsShown
<1>1. LineInv => ArgvIsWordsShown
  BY InvWords
<1> QED BY LineInvariant, <1>1, PTL
=============================================================================
