---------------------------- MODULE ScreenProofs ----------------------------
(***************************************************************************)
(* Theorems about what MCApp has on the screen: screens and dialogs, the   *)
(* members of a room, the chat and the debug log, for every value of the   *)
(* constants it leaves open and every order of the steps of each.          *)
(***************************************************************************)
EXTENDS AppProofs

-----------------------------------------------------------------------------
(* The rows of the settings dialog                                         *)

\* The rows of the settings stand in their order, the buttons under them.
RowsStand(rows, h) ==
    /\ rows \in Seq({D!Blank} \cup 0 .. 27) /\ Len(rows) \in Nat /\ DOMAIN rows = 1 .. Len(rows)
    /\ Len(rows) >= 1 /\ (h >= 2 => Len(rows) >= 2)
    /\ \A y, z \in DOMAIN rows :
          y < z /\ rows[y] # D!Blank /\ rows[z] # D!Blank => rows[y] < rows[z]
    /\ \E y \in DOMAIN rows : rows[y] = D!Buttons

\* The settings from one to another, and no others, have a row of their own.
RowsShow(rows, first, last) ==
    \A i \in 1 .. 11 : (\E y \in DOMAIN rows : rows[y] = D!SettingRow(i)) <=> i \in first .. last

LEMMA TopFits ==
    ASSUME NEW h \in Nat \ {0}
    PROVE  /\ D!Top(h) \in 0 .. 4 /\ D!Top(h) <= h - 1 /\ (h >= 2 => D!Top(h) <= h - 2)
           /\ D!Window(h) = h - D!Top(h) - 1
           /\ h >= 26 => D!Window(h) >= 11
BY DEF D!Top, D!Window, D!Clamp, D!Least, D!Most, D!Count

LEMMA GapsAreFew ==
    ASSUME NEW h \in Nat \ {0}, D!Window(h) >= 11
    PROVE  /\ IsFiniteSet(D!Gaps(h)) /\ Cardinality(D!Gaps(h)) \in Nat
           /\ Cardinality(D!Gaps(h)) <= D!Most(0, h - 13 - D!Top(h))
<1> DEFINE g == D!Least(h - 2 - D!Top(h) - 11, 10)
           gap == [j \in 0 .. g - 1 |-> ((2 * j + 1) * (11 - 1)) \div (2 * g)]
<1>1. D!Top(h) \in 0 .. 4 /\ h \in Nat
  BY TopFits
<1>2. g \in Int /\ g <= h - 13 - D!Top(h)
  BY <1>1 DEF D!Least
<1>3. D!Gaps(h) = {gap[j] : j \in 0 .. g - 1}
  BY DEF D!Gaps, D!Count
<1> HIDE DEF g, gap
<1>4. IsFiniteSet(0 .. g - 1) /\ Cardinality(0 .. g - 1) <= D!Most(0, h - 13 - D!Top(h))
  <2>1. CASE g >= 1
    <3>1. 0 \in Int /\ g - 1 \in Int /\ 0 .. g - 1 = 0 .. g - 1
      BY <1>2
    <3>2. IsFiniteSet(0 .. g - 1) /\ Cardinality(0 .. g - 1) = IF 0 > g - 1 THEN 0 ELSE g - 1 - 0 + 1
      BY <3>1, FS_Interval
    <3> QED
      BY <1>1, <1>2, <2>1, <3>2 DEF D!Most
  <2>2. CASE ~(g >= 1)
    <3>1. 0 .. g - 1 = {}
      BY <1>2, <2>2
    <3>2. IsFiniteSet({}) /\ Cardinality({}) = 0
      BY FS_EmptySet
    <3>3. 0 <= D!Most(0, h - 13 - D!Top(h))
      BY <1>1 DEF D!Most
    <3> QED
      BY <3>1, <3>2, <3>3
  <2> QED
    BY <2>1, <2>2
<1>5. gap \in Surjection(0 .. g - 1, D!Gaps(h))
  <2>1. DOMAIN gap = 0 .. g - 1 /\ gap = [j \in 0 .. g - 1 |-> gap[j]]
    BY DEF gap
  <2> QED
    BY <1>3, <2>1 DEF Surjection
<1>6. IsFiniteSet(D!Gaps(h)) /\ Cardinality(D!Gaps(h)) <= Cardinality(0 .. g - 1)
  BY <1>4, <1>5, FS_Surjection
<1>7. Cardinality(D!Gaps(h)) \in Nat /\ Cardinality(0 .. g - 1) \in Nat
  BY <1>4, <1>6, FS_CardinalityType
<1>8. D!Most(0, h - 13 - D!Top(h)) \in Int
  BY <1>1 DEF D!Most
<1> QED
  BY <1>4, <1>6, <1>7, <1>8

\* Spread over the lines, the settings keep their order and their place above the buttons.
LEMMA LinesRise ==
    ASSUME NEW h \in Nat \ {0}, D!Window(h) >= 11
    PROVE  /\ \A i \in 1 .. 11 : D!Line(h, i) \in D!Top(h) + 1 .. h - 1
           /\ \A i, k \in 1 .. 11 : i < k => D!Line(h, i) < D!Line(h, k)
<1> DEFINE before(i) == {k \in D!Gaps(h) : k < i - 1}
           top == D!Top(h)
<1>1. top \in 0 .. 4 /\ h - top - 1 >= 11
  BY TopFits
<1>2. \A i \in 1 .. 11 : D!Line(h, i) = top + i + Cardinality(before(i))
  <2>1. \A set : D!Cardinality(set) = Cardinality(set)
    BY DEF D!Cardinality, Cardinality
  <2> QED
    BY <2>1 DEF D!Line
<1>3. IsFiniteSet(D!Gaps(h)) /\ Cardinality(D!Gaps(h)) \in Nat /\ Cardinality(D!Gaps(h)) <= D!Most(0, h - 13 - top)
  BY GapsAreFew
<1>4. \A i \in 1 .. 11 : /\ IsFiniteSet(before(i)) /\ Cardinality(before(i)) \in Nat
                         /\ Cardinality(before(i)) <= Cardinality(D!Gaps(h))
  <2>1. \A i : before(i) \subseteq D!Gaps(h)
    OBVIOUS
  <2> HIDE DEF before
  <2> QED
    BY <1>3, <2>1, FS_Subset, FS_CardinalityType
<1>5. \A i, k \in 1 .. 11 : i < k => Cardinality(before(i)) <= Cardinality(before(k))
  <2> SUFFICES ASSUME NEW i \in 1 .. 11, NEW k \in 1 .. 11, i < k
               PROVE  Cardinality(before(i)) <= Cardinality(before(k))
    OBVIOUS
  <2>1. before(i) \subseteq before(k)
    <3>1. D!Gaps(h) \subseteq Int
      <4> DEFINE g == D!Least(h - 2 - D!Top(h) - 11, 10)
      <4>1. g \in Int
        BY <1>1 DEF D!Least
      <4>2. D!Gaps(h) = {((2 * j + 1) * (11 - 1)) \div (2 * g) : j \in 0 .. g - 1}
        BY DEF D!Gaps, D!Count
      <4> HIDE DEF g
      <4>3. ASSUME NEW j \in 0 .. g - 1 PROVE ((2 * j + 1) * (11 - 1)) \div (2 * g) \in Int
        <5>1. j \in Int /\ (2 * j + 1) * (11 - 1) \in Int /\ 2 * g \in Nat \ {0}
          BY <4>1
        <5> DEFINE num == (2 * j + 1) * (11 - 1)
                   den == 2 * g
        <5> HIDE DEF num, den
        <5>2. num \in Int /\ den \in Nat \ {0} => num \div den \in Int
          OBVIOUS
        <5> QED
          BY <5>1, <5>2 DEF num, den
      <4> QED
        BY <4>2, <4>3
    <3>2. \A q \in Int : q < i - 1 => q < k - 1
      OBVIOUS
    <3> QED
      BY <3>1, <3>2
  <2> HIDE DEF before
  <2> QED
    BY <1>4, <2>1, FS_Subset
<1> HIDE DEF before, top
<1>6. D!Most(0, h - 13 - top) = IF 0 > h - 13 - top THEN 0 ELSE h - 13 - top
  BY DEF D!Most
<1>7. ASSUME NEW i \in 1 .. 11 PROVE D!Line(h, i) \in top + 1 .. h - 1
  BY <1>1, <1>2, <1>3, <1>4, <1>6
<1>8. ASSUME NEW i \in 1 .. 11, NEW k \in 1 .. 11, i < k PROVE D!Line(h, i) < D!Line(h, k)
  BY <1>1, <1>2, <1>4, <1>5, <1>8
<1> QED
  BY <1>7, <1>8 DEF top

\* The line of a setting shows it, and the lines between settings nothing.
LEMMA SpreadIs ==
    ASSUME NEW h \in Nat \ {0}, D!Window(h) >= 11
    PROVE  /\ \A i \in 1 .. 11 : D!Spread(h, D!Line(h, i)) = D!SettingRow(i)
           /\ \A y : (\A i \in 1 .. 11 : D!Line(h, i) # y) => D!Spread(h, y) = D!Blank
<1>1. \A i, k \in 1 .. 11 : D!Line(h, i) = D!Line(h, k) => i = k
  <2> SUFFICES ASSUME NEW i \in 1 .. 11, NEW k \in 1 .. 11, D!Line(h, i) = D!Line(h, k), i # k PROVE FALSE
    OBVIOUS
  <2>1. i < k \/ k < i
    OBVIOUS
  <2>2. D!Line(h, i) < D!Line(h, k) \/ D!Line(h, k) < D!Line(h, i)
    BY <2>1, LinesRise
  <2>3. D!Line(h, i) \in Int /\ D!Line(h, k) \in Int
    BY LinesRise, TopFits
  <2> QED
    BY <2>2, <2>3
<1>2. ASSUME NEW i \in 1 .. 11 PROVE D!Spread(h, D!Line(h, i)) = D!SettingRow(i)
  <2> DEFINE found == CHOOSE k \in 1 .. 11 : D!Line(h, k) = D!Line(h, i)
  <2>1. found \in 1 .. 11 /\ D!Line(h, found) = D!Line(h, i)
    OBVIOUS
  <2>2. D!Spread(h, D!Line(h, i)) = D!SettingRow(found)
    BY DEF D!Spread, D!Count
  <2> HIDE DEF found
  <2> QED
    BY <1>1, <2>1, <2>2
<1>3. ASSUME NEW y, \A i \in 1 .. 11 : D!Line(h, i) # y PROVE D!Spread(h, y) = D!Blank
  BY <1>3 DEF D!Spread, D!Count
<1> QED
  BY <1>2, <1>3

\* What a dialog of h rows scrolled to s shows.
LEMMA RowsOf ==
    ASSUME NEW h \in Nat \ {0}, NEW s \in Int
    PROVE  /\ RowsStand(D!RowMap(h, s), h)
           /\ D!Window(h) >= 11 => RowsShow(D!RowMap(h, s), 1, 11) /\ D!Scrolled(h, s) = 0
           /\ D!Window(h) < 11 =>
                 /\ RowsShow(D!RowMap(h, s), D!Scrolled(h, s) + 1, D!Scrolled(h, s) + D!Window(h))
                 /\ D!Scrolled(h, s) \in 0 .. 11 - D!Window(h)
                 /\ D!Scrolled(h, s) = D!Most(0, D!Least(s, 11 - D!Window(h)))
                 /\ \A y \in DOMAIN D!RowMap(h, s) : D!RowMap(h, s)[y] # D!Blank
<1> DEFINE rows == D!RowMap(h, s)
           top == D!Top(h)
           window == D!Window(h)
           from == D!Scrolled(h, s)
<1>1. /\ top \in 0 .. 4 /\ top <= h - 1 /\ (h >= 2 => top <= h - 2)
      /\ window = h - top - 1 /\ (h >= 26 => window >= 11)
  BY TopFits
<1>2. window < 11 => from \in 0 .. 11 - window /\ from = D!Most(0, D!Least(s, 11 - window))
  BY <1>1 DEF D!Scrolled, D!Clamp, D!Most, D!Least, D!Count
<1>3. window >= 11 => from = 0
  BY <1>1 DEF D!Scrolled, D!Count
<1>4. CASE h >= 28
  <2>1. rows = [y \in 1 .. 28 |-> y - 1]
    BY <1>4 DEF D!RowMap
  <2> HIDE DEF rows
  <2>2. rows \in Seq({D!Blank} \cup 0 .. 27) /\ Len(rows) = 28
    BY <2>1
  <2>3. RowsStand(rows, h)
    <3>1. rows[27] = D!Buttons /\ 27 \in DOMAIN rows
      BY <2>1 DEF D!Buttons
    <3> QED
      BY <2>1, <2>2, <3>1 DEF RowsStand
  <2>4. RowsShow(rows, 1, 11)
    <3> SUFFICES ASSUME NEW i \in 1 .. 11 PROVE \E y \in DOMAIN rows : rows[y] = D!SettingRow(i)
      BY DEF RowsShow
    <3>1. 3 + 2 * i \in 1 .. 28 /\ rows[3 + 2 * i] = 2 + 2 * i
      BY <2>1
    <3> QED
      BY <2>1, <3>1 DEF D!SettingRow
  <2> QED
    BY <1>1, <1>3, <1>4, <2>3, <2>4 DEF rows
<1>5. CASE h \in {26, 27}
  <2>1. rows = [y \in 1 .. h |-> IF y = h THEN 26 ELSE IF y <= 25 THEN y - 1 ELSE -1]
    <3> DEFINE line(y) ==
              IF y = h THEN 26 ELSE IF h >= 26 THEN IF y <= 25 THEN y - 1 ELSE -1
              ELSE D!Squeezed(h, s, y)
    <3>1. ~(h >= 28)
      BY <1>5
    <3>2. rows = [y \in 1 .. h |-> line(y)]
      BY <3>1 DEF D!RowMap, D!Buttons, D!Blank
    <3>3. \A y \in 1 .. h : line(y) = IF y = h THEN 26 ELSE IF y <= 25 THEN y - 1 ELSE -1
      BY <1>5
    <3> HIDE DEF line, rows
    <3> QED
      BY <3>2, <3>3
  <2> HIDE DEF rows
  <2>2. rows \in Seq({D!Blank} \cup 0 .. 27) /\ Len(rows) = h
    BY <1>5, <2>1 DEF D!Blank
  <2>3. RowsStand(rows, h)
    <3>1. rows[h] = D!Buttons /\ h \in DOMAIN rows
      BY <2>1 DEF D!Buttons
    <3> QED
      BY <1>5, <2>1, <2>2, <3>1 DEF RowsStand, D!Blank
  <2>4. RowsShow(rows, 1, 11)
    <3> SUFFICES ASSUME NEW i \in 1 .. 11 PROVE \E y \in DOMAIN rows : rows[y] = D!SettingRow(i)
      BY DEF RowsShow
    <3>1. 3 + 2 * i \in 1 .. h /\ rows[3 + 2 * i] = 2 + 2 * i
      BY <1>5, <2>1
    <3> QED
      BY <2>1, <3>1 DEF D!SettingRow
  <2> QED
    BY <1>1, <1>3, <1>5, <2>3, <2>4 DEF rows
<1>6. CASE h < 26 /\ window >= 11
  <2>1. rows = [y \in 1 .. h |-> IF y = h THEN 26 ELSE IF y <= top THEN y - 1 ELSE D!Spread(h, y)]
    <3> DEFINE line(y) ==
              IF y = h THEN 26 ELSE IF h >= 26 THEN IF y <= 25 THEN y - 1 ELSE -1
              ELSE D!Squeezed(h, s, y)
    <3>1. ~(h >= 28)
      BY <1>6
    <3>2. rows = [y \in 1 .. h |-> line(y)]
      BY <3>1 DEF D!RowMap, D!Buttons, D!Blank
    <3>3. \A y \in 1 .. h : line(y) = IF y = h THEN 26 ELSE IF y <= top THEN y - 1 ELSE D!Spread(h, y)
      BY <1>6 DEF D!Squeezed, D!Count
    <3> HIDE DEF line, rows
    <3> QED
      BY <3>2, <3>3
  <2>2. /\ \A i \in 1 .. 11 : D!Line(h, i) \in top + 1 .. h - 1
        /\ \A i, k \in 1 .. 11 : i < k => D!Line(h, i) < D!Line(h, k)
    BY <1>6, LinesRise
  <2>3. /\ \A i \in 1 .. 11 : D!Spread(h, D!Line(h, i)) = 2 + 2 * i
        /\ \A y : (\A i \in 1 .. 11 : D!Line(h, i) # y) => D!Spread(h, y) = -1
    BY <1>6, SpreadIs DEF D!SettingRow, D!Blank
  <2> HIDE DEF rows, top, window
  <2>4. \A i \in 1 .. 11 : /\ D!Line(h, i) \in 1 .. h /\ D!Line(h, i) # h /\ ~(D!Line(h, i) <= top)
                            /\ rows[D!Line(h, i)] = 2 + 2 * i
    <3> SUFFICES ASSUME NEW i \in 1 .. 11
                 PROVE  /\ D!Line(h, i) \in 1 .. h /\ D!Line(h, i) # h /\ ~(D!Line(h, i) <= top)
                        /\ rows[D!Line(h, i)] = 2 + 2 * i
      OBVIOUS
    <3>1. D!Line(h, i) \in 1 .. h /\ D!Line(h, i) # h /\ ~(D!Line(h, i) <= top)
      BY <1>1, <2>2
    <3>2. rows[D!Line(h, i)] = D!Spread(h, D!Line(h, i))
      BY <2>1, <3>1
    <3> QED
      BY <2>3, <3>1, <3>2
  <2>5. ASSUME NEW y \in 1 .. h
        PROVE  \/ y = h /\ rows[y] = 26
               \/ y < h /\ y <= top /\ rows[y] = y - 1
               \/ y < h /\ y > top /\ rows[y] = -1
               \/ y < h /\ y > top /\ \E i \in 1 .. 11 : D!Line(h, i) = y /\ rows[y] = 2 + 2 * i
    <3>1. CASE \E i \in 1 .. 11 : D!Line(h, i) = y
      <4>1. PICK i \in 1 .. 11 : D!Line(h, i) = y
        BY <3>1
      <4>2. y # h /\ ~(y <= top) /\ rows[y] = 2 + 2 * i
        BY <2>4, <4>1
      <4> QED
        BY <1>1, <4>1, <4>2
    <3>2. CASE \A i \in 1 .. 11 : D!Line(h, i) # y
      <4>1. D!Spread(h, y) = -1
        BY <2>3, <3>2
      <4> QED
        BY <1>1, <2>1, <4>1
    <3> QED
      BY <3>1, <3>2
  <2>6. ASSUME NEW y \in 1 .. h, NEW z \in 1 .. h, y < z, rows[y] # -1, rows[z] # -1
        PROVE  rows[y] < rows[z]
    <3>1. CASE z = h
      <4>1. rows[z] = 26
        BY <2>5, <3>1, <1>1
      <4>2. rows[y] <= 24
        BY <2>5, <2>6, <1>1, <3>1
      <4>3. rows[y] \in Int
        BY <2>5, <1>1
      <4> QED
        BY <4>1, <4>2, <4>3
    <3>2. CASE z # h /\ z <= top
      BY <1>1, <2>5, <2>6, <3>2
    <3>3. CASE z # h /\ z > top
      <4>1. PICK k \in 1 .. 11 : D!Line(h, k) = z /\ rows[z] = 2 + 2 * k
        BY <1>1, <2>5, <2>6, <3>3
      <4>2. CASE y <= top
        BY <1>1, <2>5, <2>6, <4>1, <4>2, <3>3
      <4>3. CASE y > top
        <5>1. PICK i \in 1 .. 11 : D!Line(h, i) = y /\ rows[y] = 2 + 2 * i
          BY <1>1, <2>5, <2>6, <3>3, <4>3
        <5>2. i < k
          <6> SUFFICES ASSUME ~(i < k) PROVE FALSE
            OBVIOUS
          <6>1. CASE i = k
            BY <2>6, <4>1, <5>1, <6>1
          <6>2. CASE k < i
            <7>1. z < y
              BY <2>2, <4>1, <5>1, <6>2
            <7> QED
              BY <2>6, <7>1
          <6> QED
            BY <6>1, <6>2
        <5> QED
          BY <4>1, <5>1, <5>2
      <4> QED
        BY <1>1, <4>2, <4>3
    <3> QED
      BY <1>1, <3>1, <3>2, <3>3
  <2>7. ASSUME NEW y \in 1 .. h PROVE rows[y] \in {-1} \cup 0 .. 27
    <3>1. CASE \E i \in 1 .. 11 : rows[y] = 2 + 2 * i
      BY <3>1
    <3> QED
      BY <1>1, <2>5, <3>1
  <2>8. rows \in Seq({D!Blank} \cup 0 .. 27) /\ Len(rows) = h /\ DOMAIN rows = 1 .. h
    BY <2>1, <2>7 DEF D!Blank
  <2>9. rows[h] = D!Buttons /\ h \in 1 .. h
    BY <2>1 DEF D!Buttons
  <2>10. RowsStand(rows, h)
    BY <2>6, <2>8, <2>9 DEF RowsStand, D!Blank
  <2>11. RowsShow(rows, 1, 11)
    BY <2>4, <2>8 DEF RowsShow, D!SettingRow
  <2> QED
    BY <1>1, <1>3, <1>6, <2>10, <2>11 DEF rows, window
<1>7. CASE h < 26 /\ window < 11
  <2>1. rows = [y \in 1 .. h |-> IF y = h THEN 26 ELSE IF y <= top THEN y - 1 ELSE 2 + 2 * (from + y - top)]
    <3> DEFINE line(y) ==
              IF y = h THEN 26 ELSE IF h >= 26 THEN IF y <= 25 THEN y - 1 ELSE -1
              ELSE D!Squeezed(h, s, y)
    <3>1. ~(h >= 28)
      BY <1>7
    <3>2. rows = [y \in 1 .. h |-> line(y)]
      BY <3>1 DEF D!RowMap, D!Buttons, D!Blank
    <3>3. \A y \in 1 .. h : line(y) = IF y = h THEN 26 ELSE IF y <= top THEN y - 1 ELSE 2 + 2 * (from + y - top)
      BY <1>1, <1>7 DEF D!Squeezed, D!Count, D!SettingRow
    <3> HIDE DEF line, rows
    <3> QED
      BY <3>2, <3>3
  <2>2. from \in 0 .. 11 - window /\ window \in 0 .. 10
    BY <1>1, <1>2, <1>7
  <2> HIDE DEF rows, top, window, from
  <2>3. \A y \in 1 .. h : y # h /\ ~(y <= top) => from + y - top \in 1 .. 11
    BY <1>1, <2>2
  <2>4. ASSUME NEW y \in 1 .. h
        PROVE  /\ y = h => rows[y] = 26
               /\ y # h /\ y <= top => rows[y] = y - 1
               /\ y # h /\ ~(y <= top) => rows[y] = 2 + 2 * (from + y - top) /\ from + y - top \in 1 .. 11
    BY <2>1, <2>3
  <2>5. ASSUME NEW y \in 1 .. h PROVE rows[y] \in 0 .. 27
    BY <1>1, <2>2, <2>4
  <2>6. rows \in Seq({D!Blank} \cup 0 .. 27) /\ Len(rows) = h /\ DOMAIN rows = 1 .. h
    BY <2>1, <2>5
  <2>7. ASSUME NEW y \in 1 .. h, NEW z \in 1 .. h, y < z PROVE rows[y] < rows[z]
    BY <1>1, <2>2, <2>4, <2>7
  <2>8. RowsStand(rows, h)
    <3>1. rows[h] = D!Buttons /\ h \in 1 .. h
      BY <2>4 DEF D!Buttons
    <3> QED
      BY <2>6, <2>7, <3>1 DEF RowsStand
  <2>9. RowsShow(rows, from + 1, from + window)
    <3> SUFFICES ASSUME NEW i \in 1 .. 11
                 PROVE  (\E y \in 1 .. h : rows[y] = 2 + 2 * i) <=> i \in from + 1 .. from + window
      BY <2>6 DEF RowsShow, D!SettingRow
    <3>1. ASSUME NEW y \in 1 .. h, rows[y] = 2 + 2 * i PROVE i \in from + 1 .. from + window
      <4>1. y # h
        BY <2>4, <3>1
      <4>2. ~(y <= top)
        BY <1>1, <2>4, <3>1, <4>1
      <4>3. i = from + y - top
        BY <1>1, <2>2, <2>4, <3>1, <4>1, <4>2
      <4> QED
        BY <1>1, <2>2, <4>1, <4>2, <4>3
    <3>2. ASSUME i \in from + 1 .. from + window PROVE \E y \in 1 .. h : rows[y] = 2 + 2 * i
      <4> DEFINE y == i - from + top
      <4>1. y \in 1 .. h /\ y # h /\ ~(y <= top) /\ from + y - top = i
        BY <1>1, <2>2, <3>2
      <4> HIDE DEF y
      <4>2. rows[y] = 2 + 2 * i
        BY <2>4, <4>1
      <4> QED
        BY <4>1, <4>2
    <3> QED
      BY <3>1, <3>2
  <2>10. \A y \in DOMAIN rows : rows[y] # D!Blank
    <3>1. \A y \in 1 .. h : rows[y] \in 0 .. 27
      BY <2>5
    <3>2. -1 \notin 0 .. 27
      OBVIOUS
    <3> QED
      BY <2>6, <3>1, <3>2 DEF D!Blank
  <2>11. ~(window >= 11) /\ from \in 0 .. 11 - window /\ from = D!Most(0, D!Least(s, 11 - window))
    BY <1>1, <1>2, <1>7
  <2> QED
    BY <2>8, <2>9, <2>10, <2>11 DEF rows, window, from
<1> QED
  BY <1>1, <1>4, <1>5, <1>6, <1>7

-----------------------------------------------------------------------------
(* The settings dialog and the debug log                                   *)

\* Rows that show settings
LEMMA RowsClicked ==
    /\ \A row : D!Shown(row) # {} => row \in 0 .. 27
    /\ \A row : D!SliderAt(row) # {} => row \in {D!RowOf[n] : n \in D!Sliders}
<1>1. \A n \in D!Names : D!RowOf[n] \in 0 .. 27
  BY DEF D!Names, D!Size, D!RowOf, D!Buttons
<1> QED
  BY <1>1 DEF D!SliderAt, D!Shown

\* The values the settings can have
Legal == {f \in [D!Names -> Nat] : \A n \in D!Names : f[n] < D!Size[n]}

\* Some settings change, to values they can have, and the others stay.
Turned(g, names) == g \in Legal /\ \A m \in D!Names : g[m] # d_set[m] => m \in names

LEMMA SizesAre == \A n \in D!Names : D!Size[n] \in {2, 3, 4}
BY DEF D!Names, D!Size

LEMMA OneTurned ==
    ASSUME NEW f \in Legal, NEW n \in D!Names, NEW v \in 0 .. D!Size[n] - 1
    PROVE  /\ [f EXCEPT ![n] = v] \in Legal
           /\ \A m \in D!Names : [f EXCEPT ![n] = v][m] # f[m] => m = n
<1>1. v \in Nat /\ v < D!Size[n]
  BY SizesAre
<1> QED
  BY <1>1 DEF Legal

LEMMA CycledTurned ==
    ASSUME d_set \in Legal, NEW n \in D!Names, NEW by \in {-1, 1}
    PROVE  Turned(D!Cycled(n, by), {n})
<1>1. d_set[n] \in Nat
  BY DEF Legal
<1>2. (d_set[n] + by) % D!Size[n] \in 0 .. D!Size[n] - 1
  <2>1. CASE D!Size[n] = 2
    BY <1>1, <2>1
  <2>2. CASE D!Size[n] = 3
    BY <1>1, <2>2
  <2>3. CASE D!Size[n] = 4
    BY <1>1, <2>3
  <2> QED
    BY <2>1, <2>2, <2>3, SizesAre
<1>3. PICK v \in 0 .. D!Size[n] - 1 : D!Cycled(n, by) = [d_set EXCEPT ![n] = v]
  BY <1>2 DEF D!Cycled
<1> DEFINE g == [d_set EXCEPT ![n] = v]
<1>4. g \in Legal /\ \A m \in D!Names : g[m] # d_set[m] => m = n
  BY OneTurned
<1> HIDE DEF g
<1>5. Turned(g, {n})
  BY <1>4 DEF Turned
<1> QED
  BY <1>3, <1>5 DEF g

LEMMA AnyTurned ==
    ASSUME d_set \in Legal, NEW n \in D!Names, NEW g \in D!AnyOf(n)
    PROVE  Turned(g, {n})
<1>1. PICK v \in 0 .. D!Size[n] - 1 : g = [d_set EXCEPT ![n] = v]
  BY DEF D!AnyOf
<1> DEFINE f == [d_set EXCEPT ![n] = v]
<1>2. f \in Legal /\ \A m \in D!Names : f[m] # d_set[m] => m = n
  BY OneTurned
<1> HIDE DEF f
<1>3. Turned(f, {n})
  BY <1>2 DEF Turned
<1> QED
  BY <1>1, <1>3 DEF f

\* One setting goes along with another.
LEMMA BothTurned ==
    ASSUME d_set \in Legal, NEW n \in D!Names, NEW m \in D!Names, NEW f, Turned(f, {n}),
           NEW v \in 0 .. D!Size[m] - 1
    PROVE  Turned([f EXCEPT ![m] = v], {n, m}) /\ Turned(f, {n, m})
<1>1. f \in Legal
  BY DEF Turned
<1>2. [f EXCEPT ![m] = v] \in Legal /\ \A k \in D!Names : [f EXCEPT ![m] = v][k] # f[k] => k = m
  BY <1>1, OneTurned
<1> DEFINE g == [f EXCEPT ![m] = v]
<1> HIDE DEF g
<1>3. \A k \in D!Names : g[k] # d_set[k] => k \in {n, m}
  BY <1>2 DEF Turned, g
<1> QED
  BY <1>2, <1>3 DEF Turned, g

LEMMA NamesAre ==
    {"microphone", "output", "gain", "volume", "noise", "mode", "listening", "sensitivity", "loopback",
     "notifications", "smoothing", "echo", "global", "theme", "hud", "language", "muted", "deafened"}
        = D!Names
BY DEF D!Names, D!Size

\* What a click on a row changes is shown by the row, but for the mode with the global key.
Near(row) == D!Shown(row) \cup IF row = 20 THEN {"mode"} ELSE {}

LEMMA GlobalTurned ==
    ASSUME d_set \in Legal
    PROVE  Turned(D!GlobalToggled, {"global", "mode"})
<1> DEFINE f == D!Cycled("global", 1)
<1>1. Turned(f, {"global"})
  BY CycledTurned, NamesAre
<1>2. f \in Legal /\ "mode" \in DOMAIN f
  BY <1>1, NamesAre DEF Turned, Legal
<1>3. D!GlobalToggled = [f EXCEPT !["mode"] = IF d_set["global"] = 0 THEN 1 ELSE f["mode"]]
  BY DEF D!GlobalToggled, D!PushToTalk
<1> HIDE DEF f
<1>4. f["mode"] \in 0 .. D!Size["mode"] - 1 /\ 1 \in 0 .. D!Size["mode"] - 1
  BY <1>2, NamesAre DEF Legal, D!Size
<1> QED
  BY <1>1, <1>3, <1>4, BothTurned, NamesAre

LEMMA DeafenedTurned ==
    ASSUME d_set \in Legal
    PROVE  Turned(D!Deafened, {"deafened", "muted"})
<1> DEFINE f == D!Cycled("deafened", 1)
<1>1. Turned(f, {"deafened"})
  BY CycledTurned, NamesAre
<1>2. f \in Legal /\ "muted" \in DOMAIN f
  BY <1>1, NamesAre DEF Turned, Legal
<1>3. D!Deafened = [f EXCEPT !["muted"] = IF d_set["deafened"] = 0 THEN 1 ELSE f["muted"]]
  BY DEF D!Deafened
<1> HIDE DEF f
<1>4. f["muted"] \in 0 .. D!Size["muted"] - 1 /\ 1 \in 0 .. D!Size["muted"] - 1
  BY <1>2, NamesAre DEF Legal, D!Size
<1> QED
  BY <1>1, <1>3, <1>4, BothTurned, NamesAre

\* More may change than does.
LEMMA Wider ==
    ASSUME NEW g, NEW few, NEW many, Turned(g, few), few \subseteq many
    PROVE  Turned(g, many)
BY DEF Turned

\* What is to be clicked on each row
LEMMA ClickedAre ==
    ASSUME NEW k
    PROVE  /\ D!Clicked(4, k) = D!MicrophoneRow /\ D!Clicked(6, k) = D!OutputRow
           /\ D!Clicked(8, k) = D!VolumeRows(8) /\ D!Clicked(10, k) = D!VolumeRows(10)
           /\ D!Clicked(12, k) = D!NoiseRow /\ D!Clicked(14, k) = D!ModeRow(k)
           /\ D!Clicked(16, k) = D!VolumeRows(16) /\ D!Clicked(18, k) = D!ListenRow
           /\ D!Clicked(20, k) = D!EchoRow /\ D!Clicked(22, k) = D!ThemeRow
           /\ D!Clicked(24, k) = D!LanguageRow /\ D!Clicked(26, k) = D!ButtonRow
<1>1. D!Clicked(4, k) = D!MicrophoneRow
  BY DEF D!Clicked, D!Buttons
<1>2. D!Clicked(6, k) = D!OutputRow
  BY DEF D!Clicked, D!Buttons
<1>3. D!Clicked(8, k) = D!VolumeRows(8)
  BY DEF D!Clicked, D!Buttons
<1>4. D!Clicked(10, k) = D!VolumeRows(10)
  BY DEF D!Clicked, D!Buttons
<1>5. D!Clicked(12, k) = D!NoiseRow
  BY DEF D!Clicked, D!Buttons
<1>6. D!Clicked(14, k) = D!ModeRow(k)
  BY DEF D!Clicked, D!Buttons
<1>7. D!Clicked(16, k) = D!VolumeRows(16)
  BY DEF D!Clicked, D!Buttons
<1>8. D!Clicked(18, k) = D!ListenRow
  BY DEF D!Clicked, D!Buttons
<1>9. D!Clicked(20, k) = D!EchoRow
  BY DEF D!Clicked, D!Buttons
<1>10. D!Clicked(22, k) = D!ThemeRow
  BY DEF D!Clicked, D!Buttons
<1>11. D!Clicked(24, k) = D!LanguageRow
  BY DEF D!Clicked, D!Buttons
<1>12. D!Clicked(26, k) = D!ButtonRow
  BY DEF D!Clicked, D!Buttons
<1> QED
  BY <1>1, <1>2, <1>3, <1>4, <1>5, <1>6, <1>7, <1>8, <1>9, <1>10, <1>11, <1>12

\* The rows that show the settings
LEMMA SettingRowsAre ==
    /\ "microphone" \in D!Shown(4) /\ "output" \in D!Shown(6) /\ "noise" \in D!Shown(12)
    /\ "mode" \in D!Shown(14) /\ "listening" \in D!Shown(14)
    /\ "loopback" \in D!Shown(18) /\ "notifications" \in D!Shown(18) /\ "smoothing" \in D!Shown(18)
    /\ "echo" \in D!Shown(20) /\ "global" \in D!Shown(20)
    /\ "theme" \in D!Shown(22) /\ "hud" \in D!Shown(22) /\ "language" \in D!Shown(24)
    /\ "muted" \in D!Shown(26) /\ "deafened" \in D!Shown(26)
BY NamesAre DEF D!Shown, D!RowOf, D!Buttons

LEMMA RowsTurned ==
    ASSUME d_set \in Legal, NEW row, NEW keyBox \in BOOLEAN, NEW g \in D!Clicked(row, keyBox)
    PROVE  Turned(g, Near(row))
<1>1. row \in {4, 6, 8, 10, 16, 12, 14, 18, 20, 22, 24, 26}
  BY DEF D!Clicked, D!Buttons
<1>2. \A n \in D!Shown(row) \cap D!Names : \A by \in {-1, 1} : Turned(D!Cycled(n, by), Near(row))
  <2> SUFFICES ASSUME NEW n \in D!Shown(row) \cap D!Names, NEW by \in {-1, 1}
               PROVE  Turned(D!Cycled(n, by), Near(row))
    OBVIOUS
  <2> DEFINE f == D!Cycled(n, by)
  <2>1. Turned(f, {n})
    BY CycledTurned
  <2>2. {n} \subseteq Near(row)
    BY DEF Near
  <2> HIDE DEF f
  <2>3. Turned(f, Near(row))
    BY <2>1, <2>2, Wider
  <2> QED
    BY <2>3 DEF f
<1>3. \A n \in D!Shown(row) \cap D!Names : \A f \in D!AnyOf(n) : Turned(f, Near(row))
  <2> SUFFICES ASSUME NEW n \in D!Shown(row) \cap D!Names, NEW f \in D!AnyOf(n)
               PROVE  Turned(f, Near(row))
    OBVIOUS
  <2>1. Turned(f, {n})
    BY AnyTurned
  <2>2. {n} \subseteq Near(row)
    BY DEF Near
  <2> QED
    BY <2>1, <2>2, Wider
<1>4. row = 20 => Turned(D!GlobalToggled, Near(row))
  <2>1. row = 20 => {"global", "mode"} \subseteq Near(row)
    BY SettingRowsAre DEF Near
  <2> HIDE DEF Near
  <2> DEFINE f == D!GlobalToggled
  <2>2. Turned(f, {"global", "mode"})
    BY GlobalTurned
  <2> HIDE DEF f
  <2>3. row = 20 => Turned(f, Near(row))
    BY <2>1, <2>2, Wider
  <2> QED
    BY <2>3 DEF f
<1>5. row = 26 => Turned(D!Deafened, Near(row))
  <2>1. row = 26 => {"deafened", "muted"} \subseteq Near(row)
    BY SettingRowsAre DEF Near
  <2> DEFINE f == D!Deafened
  <2>2. Turned(f, {"deafened", "muted"})
    BY DeafenedTurned
  <2> HIDE DEF f
  <2>3. row = 26 => Turned(f, Near(row))
    BY <2>1, <2>2, Wider
  <2> QED
    BY <2>3 DEF f
<1>6. \/ \E n \in D!Shown(row) \cap D!Names : \E by \in {-1, 1} : g = D!Cycled(n, by)
      \/ \E n \in D!Shown(row) \cap D!Names : g \in D!AnyOf(n)
      \/ row = 20 /\ g = D!GlobalToggled
      \/ row = 26 /\ g = D!Deafened
  <2>1. CASE row = 4
    BY <2>1, ClickedAre, SettingRowsAre, NamesAre DEF D!MicrophoneRow
  <2>2. CASE row = 6
    BY <2>2, ClickedAre, SettingRowsAre, NamesAre DEF D!OutputRow
  <2>3. CASE row = 12
    BY <2>3, ClickedAre, SettingRowsAre, NamesAre DEF D!NoiseRow
  <2>4. CASE row = 14
    BY <2>4, ClickedAre, SettingRowsAre, NamesAre DEF D!ModeRow
  <2>5. CASE row = 18
    BY <2>5, ClickedAre, SettingRowsAre, NamesAre DEF D!ListenRow
  <2>6. CASE row = 20
    BY <2>6, ClickedAre, SettingRowsAre, NamesAre DEF D!EchoRow
  <2>7. CASE row = 22
    BY <2>7, ClickedAre, SettingRowsAre, NamesAre DEF D!ThemeRow
  <2>8. CASE row = 24
    BY <2>8, ClickedAre, SettingRowsAre, NamesAre DEF D!LanguageRow
  <2>9. CASE row = 26
    BY <2>9, ClickedAre, SettingRowsAre, NamesAre DEF D!ButtonRow
  <2>10. CASE row \in {8, 10, 16}
    <3>1. g \in D!VolumeRows(row)
      BY <2>10, ClickedAre
    <3> QED
      BY <3>1 DEF D!VolumeRows, D!SliderAt, D!Shown
  <2> QED
    BY <1>1, <2>1, <2>2, <2>3, <2>4, <2>5, <2>6, <2>7, <2>8, <2>9, <2>10
<1> HIDE DEF Near
<1> QED
  BY <1>2, <1>3, <1>4, <1>5, <1>6

\* Keys change settings to values they can have, too.
LEMMA KeysTurned ==
    ASSUME d_set \in Legal, NEW g \in D!KeySettings
    PROVE  g \in Legal
<1>1. \A n \in D!Names : \A by \in {-1, 1} : D!Cycled(n, by) \in Legal
  BY CycledTurned DEF Turned
<1>2. D!GlobalToggled \in Legal /\ D!Deafened \in Legal
  BY GlobalTurned, DeafenedTurned DEF Turned
<1>3. \A v \in {0, 1} : [d_set EXCEPT !["listening"] = v] \in Legal
  <2>1. \A v \in {0, 1} : v \in 0 .. D!Size["listening"] - 1
    BY DEF D!Size
  <2> QED
    BY <2>1, NamesAre, OneTurned
<1>4. ASSUME NEW n \in {"gain", "volume"}, NEW by \in {-1, 1},
             g = [d_set EXCEPT ![n] = D!Clamp(d_set[n] + by, D!Size[n] - 1)]
      PROVE  g \in Legal
  <2>1. n \in D!Names
    BY NamesAre
  <2>2. d_set[n] \in Nat /\ D!Size[n] \in {2, 3, 4}
    BY <2>1, SizesAre DEF Legal
  <2>3. D!Clamp(d_set[n] + by, D!Size[n] - 1) \in 0 .. D!Size[n] - 1
    BY <2>2 DEF D!Clamp, D!Least, D!Most
  <2> QED
    BY <1>4, <2>1, <2>3, OneTurned
<1>5. \/ g \in {[d_set EXCEPT !["listening"] = v] : v \in {0, 1}}
      \/ \E n \in D!Names, by \in {-1, 1} : g = D!Cycled(n, by)
      \/ g \in {D!GlobalToggled, D!Deafened}
      \/ \E n \in {"gain", "volume"}, by \in {-1, 1} :
            g = [d_set EXCEPT ![n] = D!Clamp(d_set[n] + by, D!Size[n] - 1)]
  BY NamesAre DEF D!KeySettings, D!MicrophoneRow, D!ListenRow, D!EchoRow, D!LanguageRow, D!ButtonRow
<1> QED
  BY <1>1, <1>2, <1>3, <1>4, <1>5

-----------------------------------------------------------------------------
(* The rows of the debug log                                               *)

AddRows(n, k) == D!Plus(n, k)

RowsAdded == INSTANCE FoldFacts WITH Step <- AddRows

LEMMA WrappedIs ==
    ASSUME NEW w \in Nat \ 0 .. 2, NEW n \in Nat
    PROVE  D!Wrapped(w, n) \in Nat
<1> DEFINE more == D!Most(0, n - w) + w - 3
           narrow == w - 2
<1>1. more \in Nat /\ narrow \in Nat \ {0}
  BY DEF D!Most
<1>2. D!Wrapped(w, n) = 1 + (more \div narrow)
  BY DEF D!Wrapped
<1> HIDE DEF more, narrow
<1>3. more \div narrow \in Nat
  BY <1>1
<1> QED
  BY <1>2, <1>3

LEMMA RowsAre ==
    ASSUME NEW f, NEW w \in d_Widths, NEW l \in D!Lines
    PROVE  D!Rows(f, w, l) \in Nat
<1>1. w \in Nat \ 0 .. 2 /\ l.length \in Nat
  BY MCAppAssumption DEF D!ScrolledDialogsAssumption, D!Lines
<1>2. D!Wrapped(w, l.length) \in Nat
  BY <1>1, WrappedIs
<1> QED
  BY <1>2 DEF D!Rows

LEMMA CountIs ==
    ASSUME NEW lines \in Seq(D!Lines), NEW f, NEW w
    PROVE  \E after :
              /\ D!RowCount(lines, f, w) = after[Len(lines)]
              /\ after[0] = 0
              /\ \A k \in 0 .. Len(lines) :
                    k < Len(lines) => after[k + 1] = after[k] + D!Rows(f, w, lines[k + 1])
<1> DEFINE n == Len(lines)
           rows == [i \in DOMAIN lines |-> D!Rows(f, w, lines[i])]
<1>1. n \in Nat /\ DOMAIN lines = 1 .. n /\ DOMAIN rows = 1 .. n
  OBVIOUS
<1>2. D!RowCount(lines, f, w) = RowsAdded!FoldLeft(AddRows, 0, rows)
  BY DEF D!RowCount, D!FoldLeft, D!MapThenFoldSet, D!Max, RowsAdded!FoldLeft, RowsAdded!MapThenFoldSet,
         RowsAdded!Max, AddRows
<1>3. \A k \in 0 .. n : k < n => k + 1 \in DOMAIN lines /\ rows[k + 1] = D!Rows(f, w, lines[k + 1])
  BY <1>1
<1> HIDE DEF rows, n
<1>4. PICK after : RowsAdded!StepByStep(after, n, 0, rows) /\ RowsAdded!FoldLeft(AddRows, 0, rows) = after[n]
  BY <1>1, RowsAdded!FoldStepByStep
<1>5. after[0] = 0 /\ \A k \in 0 .. n : k < n => after[k + 1] = after[k] + rows[k + 1]
  BY <1>4 DEF RowsAdded!StepByStep, AddRows, D!Plus
<1>6. \A k \in 0 .. n : k < n => after[k + 1] = after[k] + D!Rows(f, w, lines[k + 1])
  BY <1>3, <1>5
<1> QED
  BY <1>2, <1>4, <1>5, <1>6 DEF n

LEMMA CountIsNat ==
    ASSUME NEW lines \in Seq(D!Lines), NEW f, NEW w \in d_Widths
    PROVE  D!RowCount(lines, f, w) \in Nat
<1> DEFINE n == Len(lines)
<1>1. n \in Nat /\ \A k \in 0 .. n : k < n => lines[k + 1] \in D!Lines /\ k + 1 \in 0 .. n
  OBVIOUS
<1>2. PICK after :
              /\ D!RowCount(lines, f, w) = after[n]
              /\ after[0] = 0
              /\ \A k \in 0 .. n : k < n => after[k + 1] = after[k] + D!Rows(f, w, lines[k + 1])
  BY CountIs
<1> HIDE DEF n
<1> DEFINE good == {k \in 0 .. n : after[k] \in Nat}
<1>3. 0 \in good
  BY <1>1, <1>2
<1>4. ASSUME NEW k \in good, k < n PROVE k + 1 \in good
  <2>1. after[k + 1] = after[k] + D!Rows(f, w, lines[k + 1]) /\ lines[k + 1] \in D!Lines /\ k + 1 \in 0 .. n
    BY <1>1, <1>2, <1>4
  <2>2. D!Rows(f, w, lines[k + 1]) \in Nat
    BY <2>1, RowsAre
  <2> QED
    BY <2>1, <2>2
<1> HIDE DEF good
<1>5. n \in good
  BY <1>1, <1>3, <1>4, RowsAdded!UpTo
<1> QED
  BY <1>2, <1>5 DEF good

\* A line more takes no row away.
LEMMA CountRises ==
    ASSUME NEW lines \in Seq(D!Lines), NEW f, NEW w \in d_Widths, NEW l \in D!Lines
    PROVE  D!RowCount(lines, f, w) <= D!RowCount(Append(lines, l), f, w)
<1> DEFINE n == Len(lines)
           more == Append(lines, l)
<1>1. n \in Nat /\ more \in Seq(D!Lines) /\ Len(more) = n + 1 /\ more[n + 1] = l
      /\ \A i \in 1 .. n : more[i] = lines[i]
  OBVIOUS
<1> HIDE DEF more
<1>2. PICK before :
              /\ D!RowCount(lines, f, w) = before[n]
              /\ before[0] = 0
              /\ \A k \in 0 .. n : k < n => before[k + 1] = before[k] + D!Rows(f, w, lines[k + 1])
  BY CountIs
<1>3. PICK after :
              /\ D!RowCount(more, f, w) = after[n + 1]
              /\ after[0] = 0
              /\ \A k \in 0 .. n + 1 : k < n + 1 => after[k + 1] = after[k] + D!Rows(f, w, more[k + 1])
  <2>1. more \in Seq(D!Lines) /\ Len(more) = n + 1
    BY <1>1
  <2>2. \E after :
              /\ D!RowCount(more, f, w) = after[Len(more)]
              /\ after[0] = 0
              /\ \A k \in 0 .. Len(more) :
                    k < Len(more) => after[k + 1] = after[k] + D!Rows(f, w, more[k + 1])
    BY <2>1, CountIs
  <2> QED
    BY <2>1, <2>2
<1> HIDE DEF n
<1> DEFINE good == {k \in 0 .. n : after[k] = before[k]}
<1>4. 0 \in good
  BY <1>1, <1>2, <1>3
<1>5. ASSUME NEW k \in good, k < n PROVE k + 1 \in good
  <2>1. k \in 0 .. n /\ k + 1 \in 1 .. n /\ k \in 0 .. n + 1 /\ k < n + 1
    BY <1>1, <1>5
  <2>2. more[k + 1] = lines[k + 1]
    BY <1>1, <2>1
  <2>3. after[k + 1] = after[k] + D!Rows(f, w, more[k + 1])
    BY <1>3, <2>1
  <2>4. before[k + 1] = before[k] + D!Rows(f, w, lines[k + 1])
    BY <1>2, <1>5, <2>1
  <2> QED
    BY <2>1, <2>2, <2>3, <2>4
<1> HIDE DEF good
<1>6. n \in good
  BY <1>1, <1>4, <1>5, RowsAdded!UpTo
<1>7. after[n] = before[n] /\ after[n + 1] = after[n] + D!Rows(f, w, l)
  <2>1. n \in 0 .. n + 1 /\ n < n + 1
    BY <1>1
  <2>2. after[n + 1] = after[n] + D!Rows(f, w, more[n + 1])
    BY <1>3, <2>1
  <2> QED
    BY <1>1, <1>6, <2>2 DEF good
<1>8. D!Rows(f, w, l) \in Nat /\ D!RowCount(lines, f, w) \in Nat
  BY RowsAre, CountIsNat
<1> QED
  BY <1>2, <1>3, <1>7, <1>8 DEF more

-----------------------------------------------------------------------------
(* The settings dialog and the debug log, step by step                     *)

SettingTypes ==
    /\ d_opened \in {"settings", "log"} /\ d_acts \in 0 .. D!Most(d_MaxActs, d_MaxLines)
    /\ d_height \in d_Heights /\ d_scroll \in -d_Ahead .. D!Count + d_Ahead
    /\ d_set \in Legal
    /\ d_captured \in {D!RowOf[n] : n \in D!Sliders} \cup {D!Blank}

\* A frame is of the dialog at some height and scrolled to somewhere.
Frames == {D!NoFrame} \cup {D!Drawn(h, s, k) : h \in Nat \ {0}, s \in Int, k \in BOOLEAN}
FrameFits == d_frame \in Frames

\* The rows of a log that only grew were counted up to some line.
LogFits ==
    /\ d_log \in Seq(D!Lines) /\ Len(d_log) <= d_Cap /\ d_cut \in BOOLEAN
    /\ d_view.Scroll \in Nat /\ d_view.Filter \in 0 .. d_Filters - 1
    /\ d_view.maxScroll \in Nat \cup {-1} /\ d_view.page \in Nat /\ d_view.rows \in Nat
    /\ d_view.width \in d_Widths \cup {0} /\ d_view.filter \in 0 .. d_Filters - 1
    /\ ~d_cut /\ d_view.width # 0 =>
          d_view.rows <= D!RowCount(d_log, d_view.filter, d_view.width)

\* The view is a record with these fields.
ViewShape ==
    d_view = [Scroll |-> d_view.Scroll, Filter |-> d_view.Filter, maxScroll |-> d_view.maxScroll,
              page |-> d_view.page, rows |-> d_view.rows, width |-> d_view.width,
              filter |-> d_view.filter]

DialogInv == SettingTypes /\ FrameFits /\ LogFits /\ ViewShape

LEMMA DialogInit == Init => DialogInv
<1> SUFFICES ASSUME D!Init PROVE DialogInv
  BY DEF Init
<1>1. d_acts \in 0 .. D!Most(d_MaxActs, d_MaxLines) /\ 0 \in -d_Ahead .. D!Count + d_Ahead
  BY MCAppAssumption DEF D!Init, D!ScrolledDialogsAssumption, D!Most, D!Count
<1>2. d_set \in Legal
  BY SizesAre DEF D!Init, Legal
<1>3. SettingTypes
  BY <1>1, <1>2 DEF D!Init, SettingTypes
<1>4. FrameFits
  BY DEF D!Init, FrameFits, Frames
<1>5. LogFits
  <2>1. d_Cap \in Nat /\ 0 \in 0 .. d_Filters - 1
    BY MCAppAssumption DEF D!ScrolledDialogsAssumption
  <2>2. d_log \in Seq(D!Lines) /\ Len(d_log) = 0 /\ d_cut = FALSE
    BY DEF D!Init
  <2>3. /\ d_view.Scroll = 0 /\ d_view.Filter = 0 /\ d_view.maxScroll = -1 /\ d_view.page = 0
        /\ d_view.rows = 0 /\ d_view.width = 0 /\ d_view.filter = 0
    BY DEF D!Init
  <2>4. d_log \in Seq(D!Lines) /\ Len(d_log) <= d_Cap /\ d_cut \in BOOLEAN
    <3>1. Len(d_log) <= d_Cap
      BY <2>1, <2>2
    <3>2. d_cut \in BOOLEAN
      BY <2>2
    <3> QED
      BY <2>2, <3>1, <3>2
  <2>5. /\ d_view.Scroll \in Nat /\ d_view.Filter \in 0 .. d_Filters - 1
        /\ d_view.maxScroll \in Nat \cup {-1} /\ d_view.page \in Nat /\ d_view.rows \in Nat
        /\ d_view.width \in d_Widths \cup {0} /\ d_view.filter \in 0 .. d_Filters - 1
    BY <2>1, <2>3
  <2>6. ~(~d_cut /\ d_view.width # 0)
    BY <2>3
  <2> QED
    BY <2>4, <2>5, <2>6 DEF LogFits
<1>6. ViewShape
  BY DEF D!Init, ViewShape
<1> QED
  BY <1>3, <1>4, <1>5, <1>6 DEF DialogInv

LEMMA ScrolledIs ==
    ASSUME NEW h \in Nat \ {0}, NEW s \in Int
    PROVE  D!Scrolled(h, s) \in 0 .. 11
<1>1. D!Window(h) \in Nat
  BY TopFits
<1> QED
  BY <1>1 DEF D!Scrolled, D!Clamp, D!Least, D!Most, D!Count

\* The settings change, one at a time, to values they can have.
LEMMA SettingStep == SettingTypes /\ FrameFits /\ [Next]_all => SettingTypes'
<1> SUFFICES ASSUME SettingTypes, FrameFits, [Next]_all PROVE SettingTypes'
  OBVIOUS
<1>1. /\ d_Heights \subseteq Nat \ {0} /\ d_Ahead \in Nat /\ d_MaxActs \in Nat /\ d_MaxLines \in Nat
  BY MCAppAssumption DEF D!ScrolledDialogsAssumption
<1>2. CASE UNCHANGED dVars
  BY <1>2 DEF SettingTypes, dVars
<1>3. CASE D!Resize \/ D!Release
  BY <1>3 DEF SettingTypes, D!Resize, D!Release, D!Settings
<1>4. CASE D!Draw
  <2>1. d_height \in Nat \ {0} /\ d_scroll \in Int
    BY <1>1 DEF SettingTypes
  <2>2. d_scroll' \in 0 .. 11
    BY <1>4, <2>1, ScrolledIs DEF D!Draw
  <2>3. d_scroll' \in -d_Ahead .. D!Count + d_Ahead
    BY <1>1, <2>2 DEF D!Count
  <2> QED
    BY <1>4, <2>3 DEF SettingTypes, D!Draw, D!Settings
<1>5. CASE D!Reopen \/ \E by \in {-1, 1} : D!Scroll(by)
  <2>1. 0 \in -d_Ahead .. D!Count + d_Ahead
    BY <1>1 DEF D!Count
  <2> QED
    BY <1>5, <2>1 DEF SettingTypes, D!Reopen, D!Scroll, D!Settings
<1>6. CASE D!Drag \/ D!Key \/ \E y \in DOMAIN d_frame.rows : D!Click(y) \/ \E by \in {-1, 1} : D!Wheel(y, by)
  <2>1. /\ d_acts' = d_acts + 1 /\ d_acts < d_MaxActs
        /\ UNCHANGED <<d_opened, d_height, d_scroll>>
    BY <1>6 DEF D!Drag, D!Key, D!Click, D!Wheel, D!UpTo, D!Settings
  <2>2. d_acts' \in 0 .. D!Most(d_MaxActs, d_MaxLines)
    BY <1>1, <2>1 DEF SettingTypes, D!Most
  <2>3. d_set' \in Legal /\ d_captured' \in {D!RowOf[n] : n \in D!Sliders} \cup {D!Blank}
    <3>1. CASE D!Key
      BY <1>6, <3>1, KeysTurned DEF SettingTypes, D!Key
    <3>2. CASE D!Drag
      <4>1. PICK n \in D!SliderAt(d_captured) : d_set' \in D!AnyOf(n)
        BY <3>2 DEF D!Drag, D!VolumeRows
      <4>2. n \in D!Names
        BY DEF D!SliderAt, D!Shown
      <4> QED
        BY <3>2, <4>1, <4>2, AnyTurned DEF SettingTypes, D!Drag, Turned
    <3>3. ASSUME NEW y \in DOMAIN d_frame.rows, D!Click(y)
          PROVE  d_set' \in Legal /\ d_captured' \in {D!RowOf[n] : n \in D!Sliders} \cup {D!Blank}
      <4>1. PICK r \in d_frame.regions :
              /\ d_set' \in D!Clicked(r.row, d_frame.keyBox)
              /\ d_captured' = IF D!SliderAt(r.row) = {} THEN D!Blank ELSE r.row
        BY <3>3 DEF D!Click
      <4>2. d_frame.keyBox \in BOOLEAN
        BY DEF FrameFits, Frames, D!NoFrame, D!Drawn
      <4>3. d_set' \in Legal
        BY <4>1, <4>2, RowsTurned DEF SettingTypes, Turned
      <4> QED
        BY <4>1, <4>3, RowsClicked
    <3>4. ASSUME NEW y \in DOMAIN d_frame.rows, NEW by \in {-1, 1}, D!Wheel(y, by)
          PROVE  d_set' \in Legal /\ d_captured' = d_captured
      <4>1. PICK n \in D!Sliders : d_set' = [d_set EXCEPT ![n] = D!Clamp(d_set[n] + by, D!Size[n] - 1)]
        BY <3>4 DEF D!Wheel
      <4>2. n \in D!Names /\ D!Size[n] \in {2, 3, 4} /\ d_set[n] \in Nat
        BY NamesAre, SizesAre DEF D!Sliders, SettingTypes, Legal
      <4>3. D!Clamp(d_set[n] + by, D!Size[n] - 1) \in 0 .. D!Size[n] - 1
        BY <4>2 DEF D!Clamp, D!Least, D!Most
      <4>4. d_set' \in Legal
        BY <4>1, <4>2, <4>3, OneTurned DEF SettingTypes
      <4> QED
        BY <3>4, <4>4 DEF D!Wheel
    <3> QED
      BY <1>6, <3>1, <3>2, <3>3, <3>4 DEF SettingTypes
  <2> QED
    BY <2>1, <2>2, <2>3 DEF SettingTypes
<1>7. CASE D!ClearDebugLogs \/ D!ScrollLog \/ D!Jump \/ D!NextFilter \/ D!OpenLog
           \/ \E w \in d_Widths, p \in d_Pages : D!DrawLog(w, p)
  BY <1>7 DEF SettingTypes, D!ClearDebugLogs, D!ScrollLog, D!Jump, D!NextFilter, D!OpenLog, D!DrawLog,
     D!Debug, D!settings
<1>8. CASE \E l \in D!Lines : D!AddDebugLog(l)
  <2>1. d_acts' = d_acts + 1 /\ d_acts < d_MaxLines /\ UNCHANGED <<d_opened, D!settings>>
    BY <1>8 DEF D!AddDebugLog, D!UpTo, D!Debug
  <2>2. d_acts' \in 0 .. D!Most(d_MaxActs, d_MaxLines)
    BY <1>1, <2>1 DEF SettingTypes, D!Most
  <2> QED
    BY <2>1, <2>2 DEF SettingTypes, D!settings
<1>9. D!Next \/ UNCHANGED dVars
  BY DEF Next, Others, all
<1> QED
  BY <1>2, <1>3, <1>4, <1>5, <1>6, <1>7, <1>8, <1>9 DEF D!Next

LEMMA FrameStep == SettingTypes /\ FrameFits /\ [Next]_all => FrameFits'
<1> SUFFICES ASSUME SettingTypes, FrameFits, [Next]_all PROVE FrameFits'
  OBVIOUS
<1>1. CASE D!Draw
  <2>1. d_height \in Nat \ {0} /\ d_scroll \in Int
    BY MCAppAssumption DEF D!ScrolledDialogsAssumption, SettingTypes
  <2>2. d_frame' = D!Drawn(d_height, d_scroll, d_set.mode = D!PushToTalk)
    BY <1>1 DEF D!Draw
  <2>3. PICK k \in BOOLEAN : d_frame' = D!Drawn(d_height, d_scroll, k)
    <3>1. (d_set.mode = D!PushToTalk) \in BOOLEAN
      OBVIOUS
    <3> QED
      BY <2>2, <3>1, Zenon
  <2>4. d_frame' \in Frames
    BY <2>1, <2>3 DEF Frames
  <2> QED
    BY <2>4 DEF FrameFits
<1>2. CASE ~D!Draw
  <2>1. D!Next \/ UNCHANGED dVars
    BY DEF Next, Others, all
  <2>2. d_frame' = d_frame
    BY <1>2, <2>1 DEF D!Next, D!Resize, D!Reopen, D!Drag, D!Release, D!Key, D!Scroll, D!Wheel, D!Click,
       D!AddDebugLog, D!ClearDebugLogs, D!ScrollLog, D!Jump, D!NextFilter, D!OpenLog, D!DrawLog,
       D!Debug, D!settings, dVars
  <2> QED
    BY <2>2 DEF FrameFits
<1> QED
  BY <1>1, <1>2

\* The log grows, or is cut; the view is counted anew by every frame.
LEMMA LogStep == LogFits /\ ViewShape /\ [Next]_all => LogFits' /\ ViewShape'
<1> SUFFICES ASSUME LogFits, ViewShape, [Next]_all PROVE LogFits' /\ ViewShape'
  OBVIOUS
<1>1. /\ d_Cap \in Nat /\ d_Kept \in 0 .. d_Cap /\ d_Filters \in Nat \ {0}
      /\ d_Widths \subseteq Nat \ 0 .. 2 /\ d_Pages \subseteq Nat \ {0}
  BY MCAppAssumption DEF D!ScrolledDialogsAssumption
<1>2. CASE UNCHANGED <<d_log, d_view, d_cut>>
  BY <1>2 DEF LogFits, ViewShape
<1>3. CASE \E l \in D!Lines : D!AddDebugLog(l)
  <2>1. PICK l \in D!Lines :
          LET more == Append(d_log, l)
          IN  /\ d_log' = IF Len(more) > d_Cap
                         THEN SubSeq(more, Len(more) - d_Kept + 1, Len(more)) ELSE more
              /\ d_cut' = (d_cut \/ Len(more) > d_Cap)
    BY <1>3 DEF D!AddDebugLog
  <2> DEFINE more == Append(d_log, l)
  <2>2. more \in Seq(D!Lines) /\ Len(more) = Len(d_log) + 1 /\ Len(d_log) \in Nat /\ Len(d_log) <= d_Cap
    BY DEF LogFits
  <2>3. d_view' = d_view
    BY <1>3 DEF D!AddDebugLog
  <2>4. /\ d_log' = IF Len(more) > d_Cap THEN SubSeq(more, Len(more) - d_Kept + 1, Len(more)) ELSE more
        /\ d_cut' = (d_cut \/ Len(more) > d_Cap)
    BY <2>1
  <2>5. ~d_cut /\ d_view.width # 0 =>
          d_view.rows <= D!RowCount(d_log, d_view.filter, d_view.width)
    BY DEF LogFits
  <2>6. d_view.width # 0 => /\ d_view.width \in d_Widths
                            /\ D!RowCount(d_log, d_view.filter, d_view.width)
                                  <= D!RowCount(more, d_view.filter, d_view.width)
    <3>1. d_view.width # 0 => d_view.width \in d_Widths
      BY DEF LogFits
    <3>2. d_log \in Seq(D!Lines)
      BY DEF LogFits
    <3> QED
      BY <3>1, <3>2, CountRises
  <2>7. d_view.width # 0 => /\ D!RowCount(d_log, d_view.filter, d_view.width) \in Nat
                            /\ D!RowCount(more, d_view.filter, d_view.width) \in Nat
    <3>1. d_log \in Seq(D!Lines)
      BY DEF LogFits
    <3> HIDE DEF more
    <3> QED
      BY <2>2, <2>6, <3>1, CountIsNat
  <2> HIDE DEF more
  <2>8. d_cut' \in BOOLEAN
    BY <2>4
  <2>9. CASE Len(more) > d_Cap
    <3>1. d_log' = SubSeq(more, Len(more) - d_Kept + 1, Len(more)) /\ d_cut'
      BY <2>4, <2>9
    <3>2. SubSeq(more, Len(more) - d_Kept + 1, Len(more)) \in Seq(D!Lines)
          /\ Len(SubSeq(more, Len(more) - d_Kept + 1, Len(more))) = d_Kept
      <4>1. Len(more) - d_Kept + 1 \in 1 .. Len(more) + 1 /\ Len(more) \in Nat
        BY <1>1, <2>2, <2>9
      <4> QED
        BY <1>1, <2>2, <4>1
    <3>3. d_log' \in Seq(D!Lines) /\ Len(d_log') <= d_Cap
      BY <1>1, <3>1, <3>2
    <3> QED
      BY <2>3, <2>8, <3>1, <3>3 DEF LogFits, ViewShape
  <2>10. CASE ~(Len(more) > d_Cap)
    <3>1. d_log' = more /\ (d_cut' <=> d_cut)
      BY <2>4, <2>10
    <3>2. Len(d_log') <= d_Cap /\ d_log' \in Seq(D!Lines)
      BY <1>1, <2>2, <2>10, <3>1
    <3>3. ~d_cut' /\ d_view.width # 0 => d_view.rows <= D!RowCount(d_log', d_view.filter, d_view.width)
      <4>1. d_view.rows \in Nat
        BY DEF LogFits
      <4> QED
        BY <2>5, <2>6, <2>7, <3>1, <4>1
    <3> QED
      BY <2>3, <2>8, <3>2, <3>3 DEF LogFits, ViewShape
  <2> QED
    BY <2>9, <2>10
<1>4. CASE D!ClearDebugLogs
  <2>1. d_log' = <<>> /\ d_cut' = TRUE /\ d_view' = d_view
    BY <1>4 DEF D!ClearDebugLogs
  <2>2. d_log' \in Seq(D!Lines) /\ Len(d_log') = 0
    BY <2>1
  <2>3. d_cut' \in BOOLEAN /\ d_cut' /\ 0 <= d_Cap
    BY <1>1, <2>1
  <2> QED
    BY <2>1, <2>2, <2>3 DEF LogFits, ViewShape
<1>5. ASSUME UNCHANGED <<d_log, d_cut>>, NEW n \in Nat, NEW f \in 0 .. d_Filters - 1,
             d_view' = [d_view EXCEPT !.Scroll = n, !.Filter = f]
      PROVE  LogFits' /\ ViewShape'
  <2>1. /\ d_view'.Scroll = n /\ d_view'.Filter = f /\ d_view'.maxScroll = d_view.maxScroll
        /\ d_view'.page = d_view.page /\ d_view'.rows = d_view.rows /\ d_view'.width = d_view.width
        /\ d_view'.filter = d_view.filter
    BY <1>5 DEF ViewShape
  <2>2. ViewShape'
    BY <1>5, <2>1 DEF ViewShape
  <2>3. LogFits'
    BY <1>5, <2>1 DEF LogFits
  <2> QED
    BY <2>2, <2>3
<1>6. CASE D!ScrollLog \/ D!Jump \/ D!NextFilter
  <2>1. /\ d_view.Scroll \in Nat /\ d_view.Filter \in 0 .. d_Filters - 1
        /\ d_view.maxScroll \in Nat \cup {-1} /\ d_view.page \in Nat
    BY DEF LogFits
  <2>2. ASSUME NEW x \in Int PROVE D!Within(x) \in Nat
    BY <2>1 DEF D!Within, D!Most, D!Least
  <2>3. CASE D!ScrollLog
    <3>1. PICK d \in {-1, 1} : D!ScrollBy(d) \/ D!ScrollBy(3 * d) \/ D!ScrollBy(d * D!Most(1, d_view.page - 1))
      BY <2>3 DEF D!ScrollLog
    <3>2. d \in Int /\ 3 * d \in Int /\ d * D!Most(1, d_view.page - 1) \in Int
      BY <2>1 DEF D!Most
    <3>3. PICK x \in Int : D!ScrollBy(x)
      BY <3>1, <3>2
    <3>4. PICK n \in Nat : d_view' = [d_view EXCEPT !.Scroll = n]
      <4>1. d_view.Scroll + x \in Int
        BY <2>1
      <4> QED
        BY <2>2, <3>3, <4>1 DEF D!ScrollBy
    <3>5. d_view' = [d_view EXCEPT !.Scroll = n, !.Filter = d_view.Filter]
      BY <3>4 DEF ViewShape
    <3> QED
      BY <1>5, <2>1, <2>3, <3>5 DEF D!ScrollLog
  <2>4. CASE D!Jump
    <3>1. PICK n \in Nat : d_view' = [d_view EXCEPT !.Scroll = n]
      <4>1. D!Most(d_view.maxScroll, 0) \in Nat
        BY <2>1 DEF D!Most
      <4> QED
        BY <2>4, <4>1 DEF D!Jump
    <3>2. d_view' = [d_view EXCEPT !.Scroll = n, !.Filter = d_view.Filter]
      BY <3>1 DEF ViewShape
    <3> QED
      BY <1>5, <2>1, <2>4, <3>2 DEF D!Jump
  <2>5. CASE D!NextFilter
    <3>1. (d_view.Filter + 1) % d_Filters \in 0 .. d_Filters - 1
      BY <1>1, <2>1
    <3>2. PICK f \in 0 .. d_Filters - 1 : d_view' = [d_view EXCEPT !.Filter = f, !.Scroll = 0]
      BY <2>5, <3>1 DEF D!NextFilter
    <3>3. d_view' = [d_view EXCEPT !.Scroll = 0, !.Filter = f]
      BY <3>2 DEF ViewShape
    <3> QED
      BY <1>5, <2>5, <3>3 DEF D!NextFilter
  <2> QED
    BY <1>6, <2>3, <2>4, <2>5
<1>7. CASE D!OpenLog
  <2>1. /\ d_view'.Scroll = 0 /\ d_view'.Filter = d_view.Filter /\ d_view'.maxScroll = -1
        /\ d_view'.page = 0 /\ d_view'.rows = 0 /\ d_view'.width = 0 /\ d_view'.filter = 0
        /\ ViewShape'
    BY <1>7 DEF D!OpenLog, ViewShape
  <2>2. d_log' = d_log /\ d_cut' = d_cut
    BY <1>7 DEF D!OpenLog
  <2> QED
    BY <1>1, <2>1, <2>2 DEF LogFits
<1>8. ASSUME NEW w \in d_Widths, NEW p \in d_Pages, D!DrawLog(w, p)
      PROVE  LogFits' /\ ViewShape'
  <2> DEFINE rows == D!RowCount(d_log, d_view.Filter, w)
             last == D!Most(0, rows - p)
             scroll == D!Least(D!Followed(rows, w), last)
  <2>1. d_view' = [d_view EXCEPT !.Scroll = scroll, !.maxScroll = last, !.page = p, !.rows = rows,
                                 !.width = w, !.filter = d_view.Filter]
    BY <1>8 DEF D!DrawLog
  <2>2. d_log' = d_log /\ d_cut' = FALSE
    BY <1>8 DEF D!DrawLog
  <2>3. rows \in Nat
    BY CountIsNat DEF LogFits
  <2>4. D!Followed(rows, w) \in Nat
    <3> HIDE DEF rows
    <3> QED
      BY <2>3 DEF D!Followed, LogFits
  <2>5. p \in Nat /\ last \in Nat /\ scroll \in Nat
    <3> HIDE DEF rows
    <3> QED
      BY <1>1, <2>3, <2>4 DEF D!Most, D!Least
  <2> HIDE DEF rows, last, scroll
  <2>6. /\ d_view'.Scroll = scroll /\ d_view'.Filter = d_view.Filter /\ d_view'.maxScroll = last
        /\ d_view'.page = p /\ d_view'.rows = rows /\ d_view'.width = w /\ d_view'.filter = d_view.Filter
        /\ ViewShape'
    BY <2>1 DEF ViewShape
  <2>7. d_view.Filter \in 0 .. d_Filters - 1 /\ d_log \in Seq(D!Lines) /\ Len(d_log) <= d_Cap
    BY DEF LogFits
  <2>8. d_log' \in Seq(D!Lines) /\ Len(d_log') <= d_Cap /\ d_cut' \in BOOLEAN
    BY <2>2, <2>7
  <2>9. d_view'.rows <= D!RowCount(d_log', d_view'.filter, d_view'.width)
    BY <2>2, <2>3, <2>6 DEF rows
  <2> QED
    BY <2>3, <2>5, <2>6, <2>7, <2>8, <2>9 DEF LogFits
<1>9. D!Next \/ UNCHANGED dVars
  BY DEF Next, Others, all
<1>10. CASE D!Resize \/ D!Draw \/ D!Reopen \/ D!Drag \/ D!Release \/ D!Key
           \/ (\E by \in {-1, 1} : D!Scroll(by) \/ \E y \in DOMAIN d_frame.rows : D!Wheel(y, by))
           \/ \E y \in DOMAIN d_frame.rows : D!Click(y)
  BY <1>2, <1>10 DEF D!Resize, D!Draw, D!Reopen, D!Drag, D!Release, D!Key, D!Scroll, D!Wheel, D!Click,
     D!Settings, D!debug
<1> QED
  BY <1>2, <1>3, <1>4, <1>6, <1>7, <1>8, <1>9, <1>10 DEF D!Next, dVars

LEMMA DialogStep == DialogInv /\ [Next]_all => DialogInv'
BY SettingStep, FrameStep, LogStep DEF DialogInv

-----------------------------------------------------------------------------
(* What is drawn is in reach                                               *)

LEMMA FrameIs ==
    ASSUME FrameFits
    PROVE  d_frame = D!NoFrame \/ \E h \in Nat \ {0}, s \in Int, k \in BOOLEAN :
              /\ d_frame.rows = D!RowMap(h, s) /\ d_frame.regions = D!Regions(D!RowMap(h, s))
              /\ d_frame.keyBox = k
              /\ d_frame.above = (D!Scrolled(h, s) > 0)
              /\ d_frame.below = (D!Scrolled(h, s) + D!Window(h) < D!Count)
<1> SUFFICES ASSUME d_frame # D!NoFrame
             PROVE  \E h \in Nat \ {0}, s \in Int, k \in BOOLEAN :
              /\ d_frame.rows = D!RowMap(h, s) /\ d_frame.regions = D!Regions(D!RowMap(h, s))
              /\ d_frame.keyBox = k
              /\ d_frame.above = (D!Scrolled(h, s) > 0)
              /\ d_frame.below = (D!Scrolled(h, s) + D!Window(h) < D!Count)
  OBVIOUS
<1>1. PICK h \in Nat \ {0}, s \in Int, k \in BOOLEAN : d_frame = D!Drawn(h, s, k)
  BY DEF FrameFits, Frames
<1>2. /\ d_frame.rows = D!RowMap(h, s) /\ d_frame.regions = D!Regions(D!RowMap(h, s))
      /\ d_frame.keyBox = k
  BY <1>1 DEF D!Drawn
<1>3. /\ d_frame.above = (D!Scrolled(h, s) > 0)
      /\ d_frame.below = (D!Scrolled(h, s) + D!Window(h) < D!Count)
  BY <1>1 DEF D!Drawn
<1> QED
  BY <1>2, <1>3

LEMMA RegionsAre ==
    ASSUME FrameFits, NEW r \in d_frame.regions
    PROVE  r \in [line : DOMAIN d_frame.rows, row : 0 .. 27] /\ r.row = d_frame.rows[r.line]
<1>1. d_frame # D!NoFrame
  BY DEF D!NoFrame
<1>2. d_frame.regions = D!Regions(d_frame.rows)
  BY <1>1, FrameIs
<1>3. PICK y \in DOMAIN d_frame.rows :
          r = [line |-> y, row |-> d_frame.rows[y]] /\ D!Shown(d_frame.rows[y]) # {}
  BY <1>2 DEF D!Regions
<1>4. d_frame.rows[y] \in 0 .. 27
  BY <1>3, RowsClicked
<1> QED
  BY <1>3, <1>4

LEMMA ReachKept == FrameFits => D!SettingsStayInReach
<1> SUFFICES ASSUME FrameFits, d_frame.rows # <<>> PROVE D!SettingsStayInReach
  BY DEF D!SettingsStayInReach
<1> DEFINE rows == d_frame.rows
<1>1. d_frame # D!NoFrame
  BY DEF D!NoFrame
<1>2. PICK h \in Nat \ {0}, s \in Int :
          /\ rows = D!RowMap(h, s)
          /\ d_frame.above = (D!Scrolled(h, s) > 0)
          /\ d_frame.below = (D!Scrolled(h, s) + D!Window(h) < D!Count)
  BY <1>1, FrameIs
<1> DEFINE from == D!Scrolled(h, s)
           window == D!Window(h)
<1>3. /\ RowsStand(rows, h)
      /\ window >= 11 => RowsShow(rows, 1, 11) /\ from = 0
      /\ window < 11 => /\ RowsShow(rows, from + 1, from + window)
                        /\ from \in 0 .. 11 - window
                        /\ \A y \in DOMAIN rows : rows[y] # D!Blank
  BY <1>2, RowsOf
<1>4. window \in Nat
  BY TopFits
<1>5. h >= 2 => window >= 1
  BY TopFits
<1>6. h = 1 => Len(rows) = 1
  <2>1. h = 1 => D!RowMap(h, s) = [y \in 1 .. 1 |-> 26]
    BY DEF D!RowMap, D!Buttons
  <2> HIDE DEF rows
  <2> QED
    BY <1>2, <2>1
<1>7. d_frame.above = (from > 0) /\ d_frame.below = (from + window < 11)
  BY <1>2 DEF D!Count
<1> HIDE DEF rows, from, window
<1>8. \A y, z \in DOMAIN rows :
          y < z /\ D!Blank \notin {rows[y], rows[z]} => rows[y] < rows[z]
  BY <1>3 DEF RowsStand
<1>9. \E y \in DOMAIN rows : rows[y] = D!Buttons
  BY <1>3 DEF RowsStand
<1>10. D!Visible = {rows[y] : y \in DOMAIN rows} \cap D!SettingRows
  BY DEF D!Visible, rows
<1>11. ASSUME NEW first, NEW last, RowsShow(rows, first, last)
       PROVE  \A i \in 1 .. 11 : D!SettingRow(i) \in D!Visible <=> i \in first .. last
  <2>1. \A i \in 1 .. 11 : D!SettingRow(i) \in D!SettingRows
    BY DEF D!SettingRows, D!Count
  <2> QED
    BY <1>10, <1>11, <2>1 DEF RowsShow
<1>12. D!SettingRows = {D!SettingRow(i) : i \in 1 .. 11} /\ D!Visible \subseteq D!SettingRows
  BY <1>10 DEF D!SettingRows, D!Count
<1>13. CASE window >= 11
  <2>1. D!SettingRows \ D!Visible = {} /\ D!SettingRow(1) \in D!Visible
    BY <1>3, <1>11, <1>12, <1>13
  <2> QED
    BY <1>8, <1>9, <2>1 DEF D!SettingsStayInReach, rows
<1>14. CASE window < 11
  <2>1. \A i \in 1 .. 11 : D!SettingRow(i) \in D!Visible <=> i \in from + 1 .. from + window
    BY <1>3, <1>11, <1>14
  <2>2. \A y \in DOMAIN rows : rows[y] # D!Blank
    BY <1>3, <1>14
  <2>3. ASSUME NEW r \in D!SettingRows \ D!Visible
        PROVE  \/ d_frame.above /\ \A v \in D!Visible : r < v
               \/ d_frame.below /\ \A v \in D!Visible : r > v
    <3>1. PICK i \in 1 .. 11 : r = D!SettingRow(i)
      BY <1>12
    <3>2. i \notin from + 1 .. from + window
      BY <2>1, <3>1
    <3>3. from \in Nat /\ from <= 11 - window
      BY <1>3, <1>4, <1>14
    <3>4. \A v \in D!Visible : \E k \in 1 .. 11 : v = 2 + 2 * k /\ k \in from + 1 .. from + window
      BY <1>12, <2>1 DEF D!SettingRow
    <3>5. CASE i <= from
      <4>1. \A v \in D!Visible : r < v
        BY <3>1, <3>3, <3>4, <3>5, <1>4 DEF D!SettingRow
      <4>2. from > 0
        BY <3>3, <3>5
      <4> QED
        BY <1>7, <4>1, <4>2
    <3>6. CASE i > from + window
      <4>1. \A v \in D!Visible : r > v
        BY <3>1, <3>3, <3>4, <3>6, <1>4 DEF D!SettingRow
      <4>2. from + window < 11
        BY <3>3, <3>6, <1>4
      <4> QED
        BY <1>7, <4>1, <4>2
    <3> QED
      BY <1>4, <3>2, <3>3, <3>5, <3>6
  <2>4. Len(rows) > 1 => D!Visible # {}
    <3> SUFFICES ASSUME Len(rows) > 1 PROVE D!Visible # {}
      OBVIOUS
    <3>1. window >= 1
      <4>1. h # 1
        <5> SUFFICES ASSUME h = 1 PROVE FALSE
          OBVIOUS
        <5>1. Len(rows) = 1
          BY <1>6
        <5> DEFINE n == Len(rows)
        <5>2. n = 1 /\ n > 1
          BY <5>1
        <5> HIDE DEF n
        <5> QED
          BY <5>2
      <4>2. h >= 2
        BY <4>1
      <4> QED
        BY <1>5, <4>2
    <3>2. from \in 0 .. 11 - window
      BY <1>3, <1>14
    <3>3. from + 1 \in 1 .. 11 /\ from + 1 \in from + 1 .. from + window
      <4> HIDE DEF from, window
      <4> QED
        BY <1>4, <3>1, <3>2
    <3> QED
      BY <2>1, <3>3
  <2> QED
    BY <1>8, <1>9, <2>2, <2>3, <2>4 DEF D!SettingsStayInReach, rows
<1> QED
  BY <1>4, <1>13, <1>14

\* The setting scrolled to is shown by the next frame.
LEMMA ReachedNow ==
    ASSUME SettingTypes, D!Draw, d_height > 1
    PROVE  D!SettingRow(D!Clamp(d_scroll, D!Count - 1) + 1) \in D!Visible'
<1> DEFINE h == d_height
           s == d_scroll
           rows == D!RowMap(h, s)
           i == D!Clamp(s, 10) + 1
<1>1. h \in Nat \ {0} /\ s \in Int /\ h >= 2
  BY MCAppAssumption DEF D!ScrolledDialogsAssumption, SettingTypes
<1>2. d_frame'.rows = rows
  BY DEF D!Draw, D!Drawn
<1> HIDE DEF h, s
<1>3. /\ D!Window(h) >= 11 => RowsShow(rows, 1, 11)
      /\ D!Window(h) < 11 =>
            /\ RowsShow(rows, D!Scrolled(h, s) + 1, D!Scrolled(h, s) + D!Window(h))
            /\ D!Scrolled(h, s) = D!Most(0, D!Least(s, 11 - D!Window(h)))
  BY <1>1, RowsOf
<1>4. D!Window(h) \in Nat \ {0}
  BY <1>1, TopFits
<1>5. i \in 1 .. 11
  BY <1>1 DEF D!Clamp, D!Most, D!Least
<1>6. D!Window(h) < 11 => i \in D!Scrolled(h, s) + 1 .. D!Scrolled(h, s) + D!Window(h)
  BY <1>1, <1>3, <1>4 DEF D!Clamp, D!Most, D!Least
<1> HIDE DEF i, rows
<1>7. \E y \in DOMAIN rows : rows[y] = D!SettingRow(i)
  BY <1>3, <1>4, <1>5, <1>6 DEF RowsShow
<1>8. D!SettingRow(i) \in D!SettingRows
  BY <1>5 DEF D!SettingRows, D!Count
<1>9. D!SettingRow(i) \in {d_frame'.rows[y] : y \in DOMAIN d_frame'.rows} \cap D!SettingRows
  BY <1>2, <1>7, <1>8
<1> QED
  BY <1>9 DEF i, s, D!Visible, D!Count, D!SettingRows, D!SettingRow

\* A click changes what is drawn under it.
LEMMA ClickedNow ==
    ASSUME SettingTypes, FrameFits, NEW y \in DOMAIN d_frame.rows, D!Click(y),
           NEW n \in D!Names, d_set'[n] # d_set[n]
    PROVE  n \in D!Shown(d_frame.rows[y]) \/ (n = "mode" /\ d_frame.rows[y] = 20)
<1>1. PICK r \in d_frame.regions : r.line = y /\ d_set' \in D!Clicked(r.row, d_frame.keyBox)
  BY DEF D!Click
<1>2. r.row = d_frame.rows[y]
  BY <1>1, RegionsAre
<1>3. d_frame.keyBox \in BOOLEAN
  BY FrameIs DEF D!NoFrame
<1>4. Turned(d_set', Near(r.row))
  BY <1>1, <1>3, RowsTurned DEF SettingTypes
<1> QED
  BY <1>2, <1>4 DEF Turned, Near

\* Scrolled up, the view keeps its last row as the log grows.
LEMMA LogPut ==
    ASSUME LogFits, ViewShape, NEW w \in d_Widths, NEW p \in d_Pages, d_view.Scroll > 0, ~d_cut,
           d_view.width = w, d_view.filter = d_view.Filter, D!DrawLog(w, p)
    PROVE  D!LastShown' = D!Most(D!LastShown, D!Least(d_view'.rows, p))
<1> DEFINE rows == D!RowCount(d_log, d_view.Filter, w)
           last == D!Most(0, rows - p)
           scroll == D!Least(D!Followed(rows, w), last)
<1>1. rows \in Nat /\ p \in Nat \ {0} /\ w # 0
  BY CountIsNat, MCAppAssumption DEF LogFits, D!ScrolledDialogsAssumption
<1>2. d_view.rows <= rows /\ d_view.rows \in Nat /\ d_view.Scroll \in Nat
  BY <1>1 DEF LogFits
<1>3. d_view'.rows = rows /\ d_view'.Scroll = scroll
  <2>1. d_view' = [d_view EXCEPT !.Scroll = scroll, !.maxScroll = last, !.page = p, !.rows = rows,
                                 !.width = w, !.filter = d_view.Filter]
    BY DEF D!DrawLog
  <2> HIDE DEF rows, last, scroll
  <2> QED
    BY <2>1 DEF ViewShape
<1> HIDE DEF rows
<1>4. D!Followed(rows, w) = d_view.Scroll + rows - d_view.rows
  BY <1>1, <1>2 DEF D!Followed
<1>5. D!LastShown = d_view.rows - d_view.Scroll /\ D!LastShown' = rows - scroll
  BY <1>3 DEF D!LastShown
<1>6. rows - scroll = D!Most(d_view.rows - d_view.Scroll, D!Least(rows, p))
  BY <1>1, <1>2, <1>4 DEF D!Most, D!Least
<1> QED
  BY <1>3, <1>5, <1>6

LEMMA DialogTypes == DialogInv => D!TypeOK
<1> SUFFICES ASSUME DialogInv PROVE D!TypeOK
  OBVIOUS
<1>1. SettingTypes /\ FrameFits /\ LogFits
  BY DEF DialogInv
<1>2. d_set \in [D!Names -> Nat] /\ \A n \in D!Names : d_set[n] < D!Size[n]
  BY <1>1 DEF SettingTypes, Legal
<1>3. d_frame.rows \in Seq({D!Blank} \cup 0 .. 27) /\ d_frame.keyBox \in BOOLEAN
      /\ d_frame.above \in BOOLEAN /\ d_frame.below \in BOOLEAN
  <2>1. CASE d_frame = D!NoFrame
    <3>1. d_frame.rows = <<>> /\ d_frame.keyBox = FALSE /\ d_frame.above = FALSE /\ d_frame.below = FALSE
      BY <2>1 DEF D!NoFrame
    <3>2. <<>> \in Seq({D!Blank} \cup 0 .. 27) /\ FALSE \in BOOLEAN
      OBVIOUS
    <3> QED
      BY <3>1, <3>2, Zenon
  <2>2. CASE d_frame # D!NoFrame
    <3>1. PICK h \in Nat \ {0}, s \in Int, k \in BOOLEAN :
              /\ d_frame.rows = D!RowMap(h, s) /\ d_frame.keyBox = k
              /\ d_frame.above = (D!Scrolled(h, s) > 0)
              /\ d_frame.below = (D!Scrolled(h, s) + D!Window(h) < D!Count)
      BY <1>1, <2>2, FrameIs, Zenon
    <3>2. D!RowMap(h, s) \in Seq({D!Blank} \cup 0 .. 27)
      BY RowsOf DEF RowsStand
    <3>3. (D!Scrolled(h, s) > 0) \in BOOLEAN /\ (D!Scrolled(h, s) + D!Window(h) < D!Count) \in BOOLEAN
      OBVIOUS
    <3> QED
      BY <3>1, <3>2, <3>3, Zenon
  <2> QED
    BY <2>1, <2>2
<1>4. d_frame.regions \subseteq [line : DOMAIN d_frame.rows, row : 0 .. 27]
  BY <1>1, RegionsAre
<1> QED
  BY <1>1, <1>2, <1>3, <1>4 DEF D!TypeOK, SettingTypes, LogFits

-----------------------------------------------------------------------------
(* The members of a room on the screen                                     *)

LEMMA Products ==
    ASSUME NEW p \in Nat, NEW q \in Nat, NEW c \in Nat, p <= q
    PROVE  p * c <= q * c /\ c * p <= c * q /\ p * c \in Nat /\ c * p \in Nat
<1>1. PICK d \in Nat : q = p + d
  <2>1. q - p \in Nat /\ q = p + (q - p)
    OBVIOUS
  <2> QED
    BY <2>1
<1>2. q * c = p * c + d * c /\ c * q = c * p + c * d
  BY <1>1
<1>3. d * c \in Nat /\ c * d \in Nat /\ p * c \in Nat /\ c * p \in Nat
  OBVIOUS
<1> HIDE <1>1
<1> QED
  BY <1>2, <1>3

\* Division by k.
LEMMA Divided ==
    ASSUME NEW p \in Nat, NEW k \in Nat \ {0}
    PROVE  /\ p \div k \in Nat /\ p % k \in 0 .. k - 1
           /\ p = k * (p \div k) + (p % k)
  BY Z3

LEMMA Quotients ==
    ASSUME NEW p \in Nat, NEW q \in Nat, NEW k \in Nat \ {0}, NEW n \in Nat, p + n * k <= q
    PROVE  (p \div k) + n <= q \div k
<1> DEFINE a == p \div k
           b == q \div k
<1>1. a \in Nat /\ b \in Nat /\ p % k \in 0 .. k - 1 /\ q % k \in 0 .. k - 1
      /\ p = k * a + (p % k) /\ q = k * b + (q % k)
  BY Divided
<1> HIDE DEF a, b
<1>2. SUFFICES ASSUME a + n > b PROVE FALSE
  BY <1>1 DEF a, b
<1>3. b + 1 <= a + n
  BY <1>1, <1>2
<1>4. k * (b + 1) <= k * (a + n)
  BY <1>1, <1>3, Products
<1>5. k * (b + 1) = k * b + k /\ k * (a + n) = k * a + n * k
  BY <1>1
<1>6. k * b \in Nat /\ k * a \in Nat /\ n * k \in Nat
  BY <1>1
<1> QED
  BY <1>1, <1>4, <1>5, <1>6

Rects == [x : Nat, y : Nat, w : Nat, h : Nat]

\* One axis of the grid: n cells of a length l begin at these places.
LEMMA CellBegins ==
    ASSUME NEW l \in Nat, NEW n \in Nat \ {0}, NEW i \in Nat, NEW j \in Nat, NEW k \in Nat, i < j
    PROVE  /\ (l * i) \div n \in Nat
           /\ (l * (i + 1)) \div n <= (l * j) \div n
           /\ l >= k * n => ((l * i) \div n) + k <= (l * (i + 1)) \div n
<1>1. l * i \in Nat /\ l * (i + 1) \in Nat /\ l * j \in Nat /\ l * (i + 1) <= l * j
  BY Products
<1>2. (l * i) \div n \in Nat
  BY <1>1, Divided
<1>3. (l * (i + 1)) + 0 * n <= l * j
  BY <1>1
<1>4. ((l * (i + 1)) \div n) + 0 <= (l * j) \div n
  BY <1>1, <1>3, Quotients
<1>5. (l * (i + 1)) \div n \in Nat /\ (l * j) \div n \in Nat
  BY <1>1, Divided
<1>6. ASSUME l >= k * n PROVE ((l * i) \div n) + k <= (l * (i + 1)) \div n
  <2>1. l * (i + 1) = l * i + l
    OBVIOUS
  <2>2. (l * i) + k * n <= l * (i + 1)
    BY <1>1, <1>6, <2>1
  <2> QED
    BY <1>1, <2>2, Quotients
<1> QED
  BY <1>2, <1>4, <1>5, <1>6

\* The cards of a grid do not overlap, and are as large as there is room for.
LEMMA CellIs ==
    ASSUME NEW a \in Rects, NEW rows \in Nat \ {0}, NEW cols \in Nat \ {0}, NEW i \in Nat
    PROVE  /\ G!GridCell(a, rows, cols, i) \in Rects
           /\ a.h >= 4 * rows => G!GridCell(a, rows, cols, i).h >= 4
           /\ a.w >= 2 * cols => G!GridCell(a, rows, cols, i).w >= 2
<1> DEFINE r == i \div cols
           c == i % cols
           x0 == (a.w * c) \div cols
           x1 == (a.w * (c + 1)) \div cols
           y0 == (a.h * r) \div rows
           y1 == (a.h * (r + 1)) \div rows
<1>1. G!GridCell(a, rows, cols, i) = [x |-> a.x + x0, y |-> a.y + y0, w |-> x1 - x0, h |-> y1 - y0]
  BY DEF G!GridCell, G!Rect
<1>2. r \in Nat /\ c \in Nat
  BY Divided
<1>3. a.w \in Nat /\ a.h \in Nat /\ a.x \in Nat /\ a.y \in Nat
  BY DEF Rects
<1> HIDE DEF r, c
<1>4. r < r + 1 /\ r + 1 \in Nat /\ c < c + 1 /\ c + 1 \in Nat
  BY <1>2
<1>5. x0 \in Nat /\ x1 \in Nat /\ y0 \in Nat /\ y1 \in Nat
  <2>1. a.w * c \in Nat /\ a.w * (c + 1) \in Nat /\ a.h * r \in Nat /\ a.h * (r + 1) \in Nat
    BY <1>2, <1>3
  <2> QED
    BY <2>1, Divided
<1>6. y0 + 0 <= y1 /\ (a.h >= 4 * rows => y0 + 4 <= y1)
  <2>1. a.h >= 0 * rows
    BY <1>3
  <2> QED
    BY <1>2, <1>3, <1>4, <2>1, CellBegins
<1>7. x0 + 0 <= x1 /\ (a.w >= 2 * cols => x0 + 2 <= x1)
  <2>1. a.w >= 0 * cols
    BY <1>3
  <2> QED
    BY <1>2, <1>3, <1>4, <2>1, CellBegins
<1> HIDE DEF x0, x1, y0, y1
<1> QED
  BY <1>1, <1>3, <1>5, <1>6, <1>7 DEF Rects

LEMMA CellsApart ==
    ASSUME NEW a \in Rects, NEW rows \in Nat \ {0}, NEW cols \in Nat \ {0},
           NEW i \in Nat, NEW j \in Nat, i # j
    PROVE  G!Apart(G!GridCell(a, rows, cols, i), G!GridCell(a, rows, cols, j))
<1> DEFINE Left(n) == (a.w * n) \div cols
           Above(n) == (a.h * n) \div rows
           Row(n) == n \div cols
           Col(n) == n % cols
<1>1. \A n \in Nat :
        G!GridCell(a, rows, cols, n) =
          [x |-> a.x + Left(Col(n)), y |-> a.y + Above(Row(n)),
           w |-> Left(Col(n) + 1) - Left(Col(n)), h |-> Above(Row(n) + 1) - Above(Row(n))]
  BY DEF G!GridCell, G!Rect
<1>2. \A n \in Nat : Row(n) \in Nat /\ Col(n) \in Nat /\ n = cols * Row(n) + Col(n)
  BY Divided
<1>3. a.w \in Nat /\ a.h \in Nat /\ a.x \in Nat /\ a.y \in Nat
  BY DEF Rects
<1>4. \A n, m \in Nat : n < m => Left(n + 1) <= Left(m) /\ Above(n + 1) <= Above(m)
  BY <1>3, CellBegins
<1>5. \A n \in Nat : Left(n) \in Nat /\ Above(n) \in Nat
  <2> TAKE n \in Nat
  <2>1. a.w * n \in Nat /\ a.h * n \in Nat
    BY <1>3
  <2> QED
    BY <2>1, Divided
<1> HIDE DEF Left, Above, Row, Col
<1>6. Row(i) # Row(j) \/ Col(i) # Col(j)
  <2>1. i = cols * Row(i) + Col(i) /\ j = cols * Row(j) + Col(j)
    BY <1>2
  <2> QED
    BY <2>1, Zenon
<1>7. \A p, q \in Nat : Row(p) < Row(q) \/ Col(p) < Col(q) =>
         G!Apart(G!GridCell(a, rows, cols, p), G!GridCell(a, rows, cols, q))
  <2> TAKE p, q \in Nat
  <2>1. Row(p) < Row(q) => Above(Row(p) + 1) <= Above(Row(q))
    BY <1>2, <1>4
  <2>2. Col(p) < Col(q) => Left(Col(p) + 1) <= Left(Col(q))
    BY <1>2, <1>4
  <2>3. /\ Left(Col(p)) \in Nat /\ Left(Col(q)) \in Nat /\ Left(Col(p) + 1) \in Nat /\ Left(Col(q) + 1) \in Nat
        /\ Above(Row(p)) \in Nat /\ Above(Row(q)) \in Nat /\ Above(Row(p) + 1) \in Nat /\ Above(Row(q) + 1) \in Nat
    <3>1. Row(p) \in Nat /\ Row(q) \in Nat /\ Col(p) \in Nat /\ Col(q) \in Nat
      BY <1>2
    <3>2. Row(p) + 1 \in Nat /\ Row(q) + 1 \in Nat /\ Col(p) + 1 \in Nat /\ Col(q) + 1 \in Nat
      BY <3>1
    <3> QED
      BY <3>1, <3>2, <1>5
  <2> QED
    BY <1>1, <1>3, <2>1, <2>2, <2>3 DEF G!Apart
<1>8. Row(i) \in Nat /\ Row(j) \in Nat /\ Col(i) \in Nat /\ Col(j) \in Nat
  BY <1>2
<1>9. \/ Row(i) < Row(j) \/ Col(i) < Col(j)
      \/ Row(j) < Row(i) \/ Col(j) < Col(i)
  BY <1>6, <1>8
<1>10. G!Apart(G!GridCell(a, rows, cols, j), G!GridCell(a, rows, cols, i))
         => G!Apart(G!GridCell(a, rows, cols, i), G!GridCell(a, rows, cols, j))
  BY DEF G!Apart
<1> QED
  BY <1>7, <1>9, <1>10

\* What a frame may show.  One that has room for more than the mini HUD is not narrow.
AnyScene == [w : Nat, h : Nat, compact : BOOLEAN, members : SUBSET g_Peers, live : SUBSET g_Peers,
           own : BOOLEAN, late : BOOLEAN, watched : g_Peers \cup {0}, lines : Nat,
           footer : BOOLEAN]
Drawable(s) == s \in AnyScene /\ (G!Mini(s) \/ s.w >= 8)

LEMMA StageConstants ==
    /\ g_Peers \subseteq Nat \ {0} /\ IsFiniteSet(g_Peers)
    /\ g_Limit \in Nat \ {0} /\ g_Footer \in Nat /\ g_MaxActs \in Nat /\ g_HudLines \in Nat
    /\ g_Status \in Nat /\ g_Ping \in Nat /\ g_Pill \in Nat /\ g_Name \in Nat /\ g_Watch \in Nat
    /\ g_Stop \in Nat /\ g_Preview \in Nat
    /\ g_Volume \in Nat /\ g_Volume >= 8 /\ g_Sound \in Nat /\ g_Sound >= 13
    /\ g_Widths \subseteq Nat /\ \A w \in g_Widths : w >= 8
    /\ g_Heights \subseteq Nat
<1>1. G!RoomStageAssumption
  BY MCAppAssumption
<1>2. G!IsFiniteSet(g_Peers) <=> IsFiniteSet(g_Peers)
  BY DEF G!IsFiniteSet, IsFiniteSet
<1> QED
  BY <1>1, <1>2 DEF G!RoomStageAssumption

\* The members of a frame stand in an order, after oneself.
LEMMA Places ==
    ASSUME NEW s, s.members \subseteq g_Peers
    PROVE  /\ G!Count(s) \in Nat
           /\ \A m \in s.members : G!Place(s, m) \in 1 .. G!Count(s)
           /\ \A m, k \in s.members : m < k => G!Place(s, m) < G!Place(s, k)
<1>1. \A set : G!Cardinality(set) = Cardinality(set)
  BY DEF G!Cardinality, Cardinality
<1>2. IsFiniteSet(s.members) /\ s.members \subseteq Nat
  BY StageConstants, FS_Subset
<1> DEFINE Below(m) == {k \in s.members : k < m}
<1>3. \A m \in s.members : IsFiniteSet(Below(m)) /\ Cardinality(Below(m)) \in Nat
  <2> TAKE m \in s.members
  <2>1. Below(m) \in SUBSET s.members
    OBVIOUS
  <2> QED
    BY <1>2, <2>1, FS_Subset, FS_CardinalityType
<1>4. G!Count(s) = Cardinality(s.members) /\ Cardinality(s.members) \in Nat
  BY <1>1, <1>2, FS_CardinalityType DEF G!Count
<1>5. \A m \in s.members : G!Place(s, m) = Cardinality(Below(m)) + 1
  BY <1>1 DEF G!Place
<1>6. \A m \in s.members :
         /\ IsFiniteSet(Below(m) \cup {m})
         /\ Cardinality(Below(m) \cup {m}) = Cardinality(Below(m)) + 1
  <2> TAKE m \in s.members
  <2>1. m \notin Below(m)
    BY <1>2
  <2> HIDE DEF Below
  <2> QED
    BY <1>3, <2>1, FS_AddElement
<1>7. \A m \in s.members : Cardinality(Below(m) \cup {m}) <= Cardinality(s.members)
  <2> TAKE m \in s.members
  <2>1. Below(m) \cup {m} \in SUBSET s.members
    OBVIOUS
  <2> QED
    BY <1>2, <2>1, FS_Subset
<1>8. \A m, k \in s.members : m < k => Cardinality(Below(m) \cup {m}) <= Cardinality(Below(k))
  <2> SUFFICES ASSUME NEW m \in s.members, NEW k \in s.members, m < k
               PROVE  Cardinality(Below(m) \cup {m}) <= Cardinality(Below(k))
    OBVIOUS
  <2>1. Below(m) \cup {m} \in SUBSET Below(k)
    BY <1>2
  <2> HIDE DEF Below
  <2> QED
    BY <1>3, <2>1, FS_Subset
<1> HIDE DEF Below
<1> DEFINE N(m) == Cardinality(Below(m))
           M(m) == Cardinality(Below(m) \cup {m})
<1>9. \A m \in s.members : N(m) \in Nat /\ M(m) = N(m) + 1 /\ G!Place(s, m) = N(m) + 1
  BY <1>3, <1>5, <1>6
<1>10. /\ \A m \in s.members : M(m) <= Cardinality(s.members)
       /\ \A m, k \in s.members : m < k => M(m) <= N(k)
  BY <1>7, <1>8
<1> HIDE DEF N, M
<1>11. \A m \in s.members : G!Place(s, m) \in 1 .. G!Count(s)
  <2> TAKE m \in s.members
  <2>1. N(m) \in Nat /\ M(m) = N(m) + 1 /\ G!Place(s, m) = N(m) + 1 /\ M(m) <= G!Count(s)
    BY <1>4, <1>9, <1>10
  <2> QED
    BY <1>4, <2>1
<1>12. \A m, k \in s.members : m < k => G!Place(s, m) < G!Place(s, k)
  <2> SUFFICES ASSUME NEW m \in s.members, NEW k \in s.members, m < k
               PROVE  G!Place(s, m) < G!Place(s, k)
    OBVIOUS
  <2>1. N(m) \in Nat /\ N(k) \in Nat /\ M(m) = N(m) + 1 /\ M(m) <= N(k)
        /\ G!Place(s, m) = N(m) + 1 /\ G!Place(s, k) = N(k) + 1
    BY <1>9, <1>10
  <2> QED
    BY <2>1
<1> QED
  BY <1>4, <1>11, <1>12

\* No two members have one place.
LEMMA PlacesDiffer ==
    ASSUME NEW s, s.members \subseteq g_Peers, NEW m \in s.members, NEW k \in s.members, m # k
    PROVE  G!Place(s, m) # G!Place(s, k)
<1>1. m \in Nat /\ k \in Nat
  BY StageConstants
<1>2. m < k \/ k < m
  BY <1>1
<1>3. G!Place(s, m) \in Nat /\ G!Place(s, k) \in Nat
  BY Places
<1> QED
  BY <1>2, <1>3, Places

Boxes == [x : Int, y : Int, w : Int, h : Int]

LEMMA PartsApart ==
    ASSUME NEW p \in Boxes, NEW q \in Boxes, NEW t \in Boxes, NEW u \in Boxes,
           G!Within(p, t), G!Within(q, u), G!Apart(t, u)
    PROVE  G!Apart(p, q)
  BY DEF Boxes, G!Within, G!Apart

LEMMA WithinItself == ASSUME NEW p \in Boxes PROVE G!Within(p, p)
  BY DEF Boxes, G!Within

LEMMA ApartBothWays == ASSUME NEW p, NEW q, G!Apart(p, q) PROVE G!Apart(q, p)
  BY DEF G!Apart

LEMMA CutIs ==
    ASSUME NEW p \in Boxes, NEW q \in Boxes, q.w \in Nat, q.h \in Nat
    PROVE  /\ G!Cut(p, q) \in Boxes
           /\ G!Cut(p, q).x >= q.x /\ G!Cut(p, q).y >= q.y
           /\ p.x <= q.x + q.w => G!Cut(p, q).x + G!Cut(p, q).w <= q.x + q.w
           /\ p.y <= q.y + q.h => G!Cut(p, q).y + G!Cut(p, q).h <= q.y + q.h
           /\ G!Cut(p, q).w \in Nat /\ G!Cut(p, q).h \in Nat
  BY DEF Boxes, G!Cut, G!Most, G!Least, G!Rect

LEMMA InnerIs ==
    ASSUME NEW p \in Rects
    PROVE  /\ G!Inner(p) \in Rects /\ G!Inner(p).x = p.x + 1 /\ G!Inner(p).y = p.y + 1
           /\ G!Inner(p).w = (IF p.w >= 2 THEN p.w - 2 ELSE 0)
           /\ G!Inner(p).h = (IF p.h >= 2 THEN p.h - 2 ELSE 0)
  BY DEF Rects, G!Inner, G!Most, G!Rect

-----------------------------------------------------------------------------
(* Rows of members: the list and the mini HUD                              *)

LEMMA GridIs ==
    ASSUME NEW s, Drawable(s), ~G!Mini(s)
    PROVE  G!Grid(s) \in Rects /\ G!GridHeight(s) >= 4 /\ s.w >= 8 /\ G!Grid(s).x = 0
           /\ G!Grid(s).w = s.w /\ G!Grid(s).h = G!GridHeight(s) /\ G!Grid(s).y = 3
  BY StageConstants DEF Drawable, AnyScene, G!Mini, G!Grid, G!GridHeight, G!Rect, Rects

LEMMA HudIs ==
    ASSUME NEW s, Drawable(s), G!HudInner(s).h >= 2
    PROVE  /\ G!HudInner(s) \in Rects /\ G!HudTop(s) \in Nat /\ G!HudDivider(s) \in {0, 1}
           /\ G!HudRest(s) \in Nat
<1>1. s.w \in Nat /\ s.h \in Nat /\ s.lines \in Nat
  BY DEF Drawable, AnyScene
<1>2. G!HudInner(s) \in Rects
  BY <1>1 DEF G!HudInner, G!Rect, Rects
<1>3. G!HudInner(s).h \in Nat
  BY <1>2 DEF Rects
<1>4. G!HudTop(s) \in Nat /\ G!HudTop(s) <= G!HudInner(s).h
  BY <1>1, <1>3 DEF G!HudTop, G!Least
<1> QED
  BY <1>2, <1>3, <1>4 DEF G!HudDivider, G!HudRest

\* Where rows are shown, they are as wide as the area inside the border.
LEMMA MemberRows ==
    ASSUME NEW s, Drawable(s), G!InRows(s), NEW m \in G!Shown(s)
    PROVE  /\ G!RowsOf(s).inner \in Rects /\ G!RowsOf(s).y \in Nat
           /\ G!Place(s, m) \in Nat /\ G!Place(s, m) < G!RowsOf(s).n
           /\ G!PlaceOf(s, m) = [x |-> G!RowsOf(s).inner.x, y |-> G!RowsOf(s).y + G!Place(s, m),
                                 w |-> G!RowsOf(s).inner.w, h |-> 1]
<1>1. m \in s.members /\ G!Place(s, m) < G!RowsOf(s).n /\ s.members \subseteq g_Peers
  BY DEF G!Shown, Drawable, AnyScene
<1>2. G!Place(s, m) \in Nat /\ G!Place(s, m) >= 1
  BY <1>1, Places
<1>3. G!PlaceOf(s, m) = [x |-> G!RowsOf(s).inner.x, y |-> G!RowsOf(s).y + G!Place(s, m),
                         w |-> G!RowsOf(s).inner.w, h |-> 1]
  BY DEF G!PlaceOf, G!Rect
<1>4. CASE G!Mini(s)
  <2>1. G!HudInner(s).h >= 2
    <3>1. G!HudInner(s).h \in Int
      BY DEF Drawable, AnyScene, G!HudInner, G!Rect
    <3> QED
      BY <1>1, <1>2, <1>4, <3>1 DEF G!RowsOf
  <2>2. G!HudInner(s) \in Rects /\ G!HudTop(s) \in Nat /\ G!HudDivider(s) \in {0, 1}
    BY <2>1, HudIs
  <2>3. G!RowsOf(s).inner = G!HudInner(s)
        /\ G!RowsOf(s).y = G!HudInner(s).y + G!HudTop(s) + G!HudDivider(s)
    BY <1>4 DEF G!RowsOf
  <2> QED
    BY <1>1, <1>2, <1>3, <2>2, <2>3 DEF Rects
<1>5. CASE ~G!Mini(s)
  <2>1. G!Inner(G!Grid(s)) \in Rects
    BY <1>5, GridIs, InnerIs
  <2>2. G!Inner(G!Grid(s)).w >= 6
    <3>1. G!Inner(G!Grid(s)).w \in Nat
      BY <2>1 DEF Rects
    <3> QED
      BY <1>1, <1>2, <1>5, <3>1 DEF G!RowsOf
  <2>3. G!ListInner(s) \in Rects
    BY <2>1, <2>2 DEF G!ListInner, G!Rect, Rects
  <2>4. G!RowsOf(s).inner = G!ListInner(s) /\ G!RowsOf(s).y = G!ListInner(s).y
    BY <1>5 DEF G!RowsOf
  <2> QED
    BY <1>1, <1>2, <1>3, <2>3, <2>4 DEF Rects
<1> QED
  BY <1>4, <1>5

\* The areas a frame has for a member, where it shows that member.
AreasOf(s, m) ==
    IF G!InRows(s) THEN G!Row(s, G!RowsOf(s).inner, m, G!RowsOf(s).y + G!Place(s, m))
    ELSE IF G!Staged(s) THEN G!SidebarAreas(s, m) ELSE G!PillArea(s, m)

\* They lie inside, and those of the volume are above the others.
Belongs(s, m, a) == a.who = m /\ a.rect \in Boxes /\ G!Within(a.rect, G!PlaceOf(s, m))
AtHand(s, m, a) ==
    a.does \in G!Levels =>
        /\ \A b \in AreasOf(s, m) : b # a => b.nth < a.nth \/ G!Apart(a.rect, b.rect)
        /\ ~G!InRows(s) /\ G!Staged(s) => a.rect.y # G!Meter(G!PlaceOf(s, m))

LEMMA VolumeIs ==
    ASSUME NEW m, NEW x \in Nat, NEW y \in Nat, NEW right \in Nat, NEW nth \in Nat,
           NEW a \in G!VolumeAreas(m, x, y, right, nth)
    PROVE  /\ x + g_Volume <= right /\ a.who = m /\ a.does \in G!Levels
           /\ a.rect \in Boxes /\ a.rect.y = y /\ a.rect.h = 1 /\ a.rect.w = 3
           /\ x <= a.rect.x /\ a.rect.x + 3 <= x + g_Volume
           /\ a.nth \in {nth, nth + 1}
           /\ \A b \in G!VolumeAreas(m, x, y, right, nth) : b # a => G!Apart(a.rect, b.rect)
<1>1. /\ x + g_Volume <= right
      /\ \A b \in G!VolumeAreas(m, x, y, right, nth) :
            \/ b = [rect |-> [x |-> x, y |-> y, w |-> 3, h |-> 1], does |-> "softer",
                    who |-> m, nth |-> nth]
            \/ b = [rect |-> [x |-> x + g_Volume - 3, y |-> y, w |-> 3, h |-> 1],
                    does |-> "louder", who |-> m, nth |-> nth + 1]
  BY StageConstants DEF G!VolumeAreas, G!Area, G!Rect
<1> QED
  BY <1>1, StageConstants DEF Boxes, G!Levels, G!Apart

LEMMA RowAreas ==
    ASSUME NEW s, Drawable(s), G!InRows(s), NEW m \in G!Shown(s), NEW a \in AreasOf(s, m)
    PROVE  Belongs(s, m, a) /\ AtHand(s, m, a)
<1> DEFINE inner == G!RowsOf(s).inner
           y == G!RowsOf(s).y + G!Place(s, m)
           right == inner.x + inner.w
           x == inner.x + g_Name
           after == IF x + g_Volume > right THEN x ELSE x + g_Volume + 2
           nth == 3 * G!Place(s, m)
           watch == [rect |-> [x |-> after, y |-> y, w |-> g_Watch, h |-> 1],
                     does |-> IF s.watched = m THEN "stopWatching" ELSE "watch",
                     who |-> m, nth |-> nth + 2]
<1>1. inner \in Rects /\ G!RowsOf(s).y \in Nat /\ G!Place(s, m) \in Nat
      /\ G!PlaceOf(s, m) = [x |-> inner.x, y |-> y, w |-> inner.w, h |-> 1]
  BY MemberRows
<1>2. \A b \in AreasOf(s, m) :
         b \in G!VolumeAreas(m, x, y, right, nth) \/ (b = watch /\ after + g_Watch <= right)
  BY DEF AreasOf, G!Row, G!Area, G!Rect
<1>3. x \in Nat /\ y \in Nat /\ right \in Nat /\ nth \in Nat /\ after \in Nat
      /\ inner.x \in Nat /\ inner.w \in Nat
  BY <1>1, StageConstants DEF Rects
<1>4. watch.rect \in Boxes /\ watch.who = m /\ watch.rect.x = after /\ watch.rect.y = y
      /\ watch.rect.w = g_Watch /\ watch.rect.h = 1 /\ watch.does \notin G!Levels
  BY <1>3, StageConstants DEF Boxes, G!Levels
<1>5. x >= inner.x /\ right = inner.x + inner.w /\ after >= x
      /\ (x + g_Volume <= right => after = x + g_Volume + 2)
  BY <1>3, StageConstants
<1> HIDE DEF inner, y, right, x, after, nth, watch
<1>6. CASE a \in G!VolumeAreas(m, x, y, right, nth)
  <2>1. /\ x + g_Volume <= right /\ a.who = m /\ a.rect \in Boxes /\ a.rect.y = y
        /\ a.rect.h = 1 /\ a.rect.w = 3 /\ x <= a.rect.x /\ a.rect.x + 3 <= x + g_Volume
        /\ \A b \in G!VolumeAreas(m, x, y, right, nth) : b # a => G!Apart(a.rect, b.rect)
    BY <1>3, <1>6, VolumeIs
  <2>2. G!Within(a.rect, G!PlaceOf(s, m))
    BY <1>1, <1>3, <1>5, <2>1, StageConstants DEF G!Within, Boxes
  <2>3. G!Apart(a.rect, watch.rect)
    BY <1>3, <1>4, <1>5, <2>1, StageConstants DEF G!Apart, Boxes
  <2> QED
    BY <1>2, <2>1, <2>2, <2>3 DEF Belongs, AtHand
<1>7. CASE a = watch /\ after + g_Watch <= right
  <2>1. G!Within(a.rect, G!PlaceOf(s, m))
    BY <1>1, <1>3, <1>4, <1>5, <1>7, StageConstants DEF G!Within
  <2> QED
    BY <1>4, <1>7, <2>1 DEF Belongs, AtHand
<1> QED
  BY <1>2, <1>6, <1>7

-----------------------------------------------------------------------------
(* The sidebar and the stage                                               *)

\* The width of the sidebar with its border.
Aside(s) == (s.w * 32) \div 100

LEMMA SidebarIs ==
    ASSUME NEW s, Drawable(s), ~G!Mini(s)
    PROVE  /\ Aside(s) \in Nat /\ Aside(s) <= s.w
           /\ G!Sidebar(s) \in Rects /\ G!Sidebar(s).x = 1 /\ G!Sidebar(s).w <= Aside(s)
           /\ G!Stage(s) \in Rects /\ G!Stage(s).x = Aside(s) + 1
           /\ G!CardHeight(s) \in Nat /\ G!CardHeight(s) >= 3
<1>1. s.w \in Nat /\ s.members \subseteq g_Peers
  BY DEF Drawable, AnyScene
<1>2. Aside(s) \in Nat /\ Aside(s) <= s.w
  <2> DEFINE p == s.w * 32
             q == p \div 100
  <2>1. p \in Nat /\ 100 \in Nat \ {0} /\ p <= 100 * s.w
    BY <1>1
  <2> HIDE DEF p
  <2>2. q \in Nat /\ p % 100 \in 0 .. 99 /\ p = 100 * q + (p % 100)
    BY <2>1, Divided
  <2> HIDE DEF q
  <2>3. 100 * q <= 100 * s.w
    BY <1>1, <2>1, <2>2
  <2>4. q <= s.w
    BY <1>1, <2>2, <2>3
  <2> QED
    BY <2>2, <2>4 DEF q, p, Aside
<1>3. G!GridHeight(s) \in Nat
  BY GridIs DEF Rects
<1>4. [x |-> 0, y |-> 3, w |-> Aside(s), h |-> G!GridHeight(s)] \in Rects
  BY <1>2, <1>3 DEF Rects
<1>5. G!Sidebar(s) = G!Inner([x |-> 0, y |-> 3, w |-> Aside(s), h |-> G!GridHeight(s)])
  BY DEF G!Sidebar, G!Rect, Aside
<1>6. G!Sidebar(s) \in Rects /\ G!Sidebar(s).x = 1 /\ G!Sidebar(s).w <= Aside(s)
  BY <1>2, <1>4, <1>5, InnerIs
<1>7. [x |-> Aside(s), y |-> 3, w |-> s.w - Aside(s), h |-> G!GridHeight(s)] \in Rects
  BY <1>1, <1>2, <1>3 DEF Rects
<1>8. G!Stage(s) = G!Inner([x |-> Aside(s), y |-> 3, w |-> s.w - Aside(s), h |-> G!GridHeight(s)])
  BY DEF G!Stage, G!Rect, Aside
<1>9. G!Stage(s) \in Rects /\ G!Stage(s).x = Aside(s) + 1
  BY <1>7, <1>8, InnerIs
<1>10. G!Sidebar(s).h \div (G!Count(s) + 1) \in Nat
  <2>1. G!Count(s) + 1 \in Nat \ {0} /\ G!Sidebar(s).h \in Nat
    BY <1>1, <1>6, Places DEF Rects
  <2> QED
    BY <2>1, Divided
<1> QED
  BY <1>2, <1>6, <1>9, <1>10 DEF G!CardHeight, G!Most

\* The cards of the sidebar stand below one another.
LEMMA MiniCardIs ==
    ASSUME NEW s, Drawable(s), ~G!InRows(s), G!Staged(s), NEW m \in G!Shown(s)
    PROVE  /\ ~G!Mini(s) /\ G!Place(s, m) \in Nat /\ s.members \subseteq g_Peers
           /\ G!PlaceOf(s, m) = G!MiniCard(s, G!Place(s, m))
           /\ G!PlaceOf(s, m).x = 1 /\ G!PlaceOf(s, m).w = G!Sidebar(s).w
           /\ G!PlaceOf(s, m).y = G!Sidebar(s).y + G!Place(s, m) * G!CardHeight(s)
           /\ G!PlaceOf(s, m).h = G!CardHeight(s)
           /\ G!PlaceOf(s, m).w \in Nat /\ G!PlaceOf(s, m).y \in Nat
           /\ G!PlaceOf(s, m) \in Boxes
           /\ G!PlaceOf(s, m).x + G!PlaceOf(s, m).w <= Aside(s) + 1
<1>1. m \in s.members /\ s.members \subseteq g_Peers
  BY DEF G!Shown, Drawable, AnyScene
<1>2. G!Place(s, m) \in Nat /\ ~G!Mini(s)
  BY <1>1, Places DEF G!InRows
<1>3. G!PlaceOf(s, m) = G!MiniCard(s, G!Place(s, m))
  BY DEF G!PlaceOf
<1>4. G!MiniCard(s, G!Place(s, m)) =
        [x |-> G!Sidebar(s).x, y |-> G!Sidebar(s).y + G!Place(s, m) * G!CardHeight(s),
         w |-> G!Sidebar(s).w, h |-> G!CardHeight(s)]
  BY DEF G!MiniCard, G!Rect
<1>5. /\ Aside(s) \in Nat /\ G!Sidebar(s) \in Rects /\ G!Sidebar(s).x = 1
      /\ G!Sidebar(s).w <= Aside(s) /\ G!CardHeight(s) \in Nat
  BY <1>2, SidebarIs
<1> DEFINE at == G!Place(s, m) * G!CardHeight(s)
<1>6. at \in Nat
  BY <1>2, <1>5
<1> HIDE DEF at
<1> QED
  BY <1>1, <1>2, <1>3, <1>4, <1>5, <1>6 DEF at, Rects, Boxes

LEMMA SidebarAreasAre ==
    ASSUME NEW s, Drawable(s), ~G!InRows(s), G!Staged(s), NEW m \in G!Shown(s),
           NEW a \in AreasOf(s, m)
    PROVE  Belongs(s, m, a) /\ AtHand(s, m, a)
<1> DEFINE card == G!PlaceOf(s, m)
           right == card.x + card.w
           nth == 3 * G!Place(s, m)
           x == IF card.h < 4 THEN right - G!Least(card.w, g_Volume + 1) ELSE card.x + 2
           y == IF card.h < 4 THEN card.y + 1 ELSE card.y + 3
           watch == [rect |-> card, does |-> "watch", who |-> m, nth |-> nth]
<1>1. /\ G!PlaceOf(s, m) = G!MiniCard(s, G!Place(s, m)) /\ card \in Boxes /\ card.x = 1
      /\ card.w \in Nat /\ card.y \in Nat /\ card.h \in Nat /\ card.h >= 3
      /\ G!Place(s, m) \in Nat
  BY MiniCardIs, SidebarIs
<1>2. \A b \in AreasOf(s, m) : b \in G!VolumeAreas(m, x, y, right, nth + 1) \/ b = watch
  BY <1>1 DEF AreasOf, G!SidebarAreas, G!Area
<1>3. x \in Nat /\ y \in Nat /\ right \in Nat /\ nth \in Nat /\ nth + 1 \in Nat /\ x >= card.x
  BY <1>1, StageConstants DEF G!Least
<1>4. y # card.y + 2 /\ y >= card.y /\ y + 1 <= card.y + card.h
  BY <1>1
<1>5. right = card.x + card.w
  OBVIOUS
<1>6. watch.rect = card /\ watch.who = m /\ watch.does \notin G!Levels /\ watch.nth = nth
  BY DEF G!Levels
<1> HIDE DEF card, right, nth, x, y, watch
<1>7. CASE a \in G!VolumeAreas(m, x, y, right, nth + 1)
  <2>1. /\ x + g_Volume <= right /\ a.who = m /\ a.rect \in Boxes /\ a.rect.y = y
        /\ a.rect.h = 1 /\ a.rect.w = 3 /\ x <= a.rect.x /\ a.rect.x + 3 <= x + g_Volume
        /\ a.nth \in {nth + 1, nth + 2}
        /\ \A b \in G!VolumeAreas(m, x, y, right, nth + 1) : b # a => G!Apart(a.rect, b.rect)
    <3>1. (nth + 1) + 1 = nth + 2
      BY <1>3
    <3> QED
      BY <1>3, <1>7, <3>1, VolumeIs
  <2>2. G!Within(a.rect, card)
    BY <1>1, <1>3, <1>4, <1>5, <2>1, StageConstants DEF G!Within, Boxes
  <2>3. watch.nth < a.nth
    BY <1>3, <1>6, <2>1
  <2>4. a.rect.y # G!Meter(card)
    BY <1>4, <2>1 DEF G!Meter
  <2> QED
    BY <1>2, <2>1, <2>2, <2>3, <2>4 DEF Belongs, AtHand, card
<1>8. CASE a = watch
  <2>1. G!Within(card, card)
    BY <1>1, WithinItself
  <2> QED
    BY <1>1, <1>6, <1>8, <2>1 DEF Belongs, AtHand, card
<1> QED
  BY <1>2, <1>7, <1>8

\* What is on the stage is off the members.
Other(a) == a.does \notin G!Levels /\ (a.does = "watch" => a.who \in g_Peers)
OffMembers(s, a) ==
    /\ a.rect \in Boxes /\ Other(a)
    /\ \A m \in G!Shown(s) : G!Apart(a.rect, G!PlaceOf(s, m))

Shaped(a) == a = [rect |-> a.rect, does |-> a.does, who |-> a.who, nth |-> a.nth]

LEMMA StageNumbers ==
    ASSUME NEW s, Drawable(s), ~G!Mini(s)
    PROVE  /\ G!Buttons(s) \in Nat /\ G!SoundX(s) \in Nat /\ G!SoundY(s) \in Nat
           /\ G!OwnTop(s) \in Nat /\ G!PreviewX(s) \in Nat /\ G!PreviewY(s) \in Nat
           /\ G!TilesTop(s) \in Nat
<1>1. /\ G!Stage(s).x \in Nat /\ G!Stage(s).y \in Nat /\ G!Stage(s).w \in Nat
      /\ G!Stage(s).h \in Nat
  BY SidebarIs DEF Rects
<1>2. G!Buttons(s) \in Nat
  BY <1>1 DEF G!Buttons
<1>3. G!SoundX(s) \in Nat /\ G!SoundY(s) \in Nat
  BY <1>1, <1>2, StageConstants DEF G!SoundX, G!SoundY
<1>4. G!OwnTop(s) \in Nat
  BY <1>1, <1>3 DEF G!OwnTop
<1>5. G!PreviewX(s) \in Nat /\ G!PreviewY(s) \in Nat
  BY <1>1, <1>2, <1>4, StageConstants DEF G!PreviewX, G!PreviewY
<1>6. G!TilesTop(s) \in Nat
  BY <1>1, <1>3, <1>5 DEF G!TilesTop
<1> QED
  BY <1>2, <1>3, <1>4, <1>5, <1>6

LEMMA TileInIs == ASSUME NEW t \in Rects PROVE G!TileIn(t) \in Boxes
<1> DEFINE fit == ((t.h - 3) * 32) \div 9 + 2
           low == ((t.w - 2) * 9) \div 32 + 3
           w == IF fit < t.w THEN G!Most(fit, 12) ELSE t.w
           h == IF fit < t.w THEN t.h ELSE G!Least(t.h, low)
           half(n) == n \div 2
           x == IF w > t.w THEN t.x - half(w - t.w) ELSE t.x + half(t.w - w)
<1>1. G!TileIn(t) = [x |-> x, y |-> t.y + half(t.h - h), w |-> w, h |-> h]
  BY DEF G!TileIn, G!Rect
<1>2. t.x \in Int /\ t.y \in Int /\ t.w \in Int /\ t.h \in Int
  BY DEF Rects
<1>3. fit \in Int /\ low \in Int
  BY <1>2
<1>4. \A n \in Int : half(n) \in Int
  OBVIOUS
<1> HIDE DEF fit, low, half
<1>5. w \in Int /\ h \in Int
  BY <1>2, <1>3 DEF G!Most, G!Least
<1> HIDE DEF w, h
<1>6. half(w - t.w) \in Int /\ half(t.w - w) \in Int /\ half(t.h - h) \in Int
  BY <1>2, <1>4, <1>5
<1>7. x \in Int
  BY <1>2, <1>5, <1>6
<1> HIDE DEF x
<1> QED
  BY <1>1, <1>2, <1>5, <1>6, <1>7 DEF Boxes

LEMMA LinesAre ==
    ASSUME NEW n \in Nat \ {0}, NEW c \in Nat \ {0}
    PROVE  G!Lines(n, c) \in Nat \ {0}
<1>1. n + c - 1 \in Nat /\ 0 + 1 * c <= n + c - 1
  OBVIOUS
<1>2. (0 \div c) + 1 <= (n + c - 1) \div c
  BY <1>1, Quotients
<1>3. 0 \div c \in Nat /\ (n + c - 1) \div c \in Nat
  BY <1>1, Divided
<1> DEFINE q == (n + c - 1) \div c
           z == 0 \div c
<1> HIDE DEF q, z
<1>4. q \in Nat /\ z \in Nat /\ z + 1 <= q
  BY <1>2, <1>3 DEF q, z
<1> QED
  BY <1>4 DEF q, G!Lines

LEMMA TileIs ==
    ASSUME NEW s, Drawable(s), ~G!Mini(s), G!Tiles(s) \in Rects, G!Streams(s) \in Nat \ {0},
           NEW i \in Nat, NEW does, does \notin G!Levels, NEW who, does = "watch" => who \in g_Peers,
           NEW a \in G!Tile(s, i, does, who)
    PROVE  a.rect \in Boxes /\ Other(a) /\ Shaped(a)
<1> DEFINE n == G!Streams(s)
           cell == G!GridCell(G!Tiles(s), G!Lines(n, G!TileColumns(n)), G!TileColumns(n), i)
<1>1. G!TileColumns(n) \in Nat \ {0}
  BY DEF G!TileColumns, G!Least
<1>2. G!Lines(n, G!TileColumns(n)) \in Nat \ {0}
  BY <1>1, LinesAre
<1>3. cell \in Rects
  BY <1>1, <1>2, CellIs
<1>4. G!TileIn(cell) \in Boxes
  BY <1>3, TileInIs
<1>5. a = [rect |-> G!TileIn(cell), does |-> does, who |-> who, nth |-> 5 + i]
  BY DEF G!Tile, G!Area
<1> HIDE DEF cell
<1> QED
  BY <1>4, <1>5 DEF Other, Shaped

LEMMA TilesAre ==
    ASSUME NEW s, Drawable(s), ~G!Mini(s), NEW a \in G!TileAreas(s)
    PROVE  a.rect \in Boxes /\ Other(a) /\ Shaped(a)
<1>1. G!Tiles(s) = [x |-> G!Stage(s).x + 1, y |-> G!TilesTop(s), w |-> G!Stage(s).w - 2,
                    h |-> G!Stage(s).y + G!Stage(s).h - G!TilesTop(s)]
  BY DEF G!Tiles, G!Rect
<1>2. G!Stage(s).x \in Nat /\ G!Stage(s).w \in Nat /\ G!Stage(s).y \in Nat
      /\ G!Stage(s).h \in Nat /\ G!TilesTop(s) \in Nat
  BY SidebarIs, StageNumbers DEF Rects
<1>3. ~(G!Tiles(s).w < 12 \/ G!Tiles(s).h < 5)
  BY DEF G!TileAreas
<1>4. G!Tiles(s) \in Rects
  BY <1>1, <1>2, <1>3 DEF Rects
<1>5. /\ IsFiniteSet(s.live) /\ Cardinality(s.live) \in Nat
      /\ s.live # {} => Cardinality(s.live) # 0
      /\ \A set : G!Cardinality(set) = Cardinality(set)
  <2>1. s.live \in SUBSET g_Peers
    BY DEF Drawable, AnyScene
  <2>2. IsFiniteSet(s.live)
    BY <2>1, StageConstants, FS_Subset
  <2> QED
    BY <2>2, FS_CardinalityType, FS_EmptySet DEF G!Cardinality, Cardinality
<1>6. \A m \in s.live : G!Nth(s, m) \in Nat
  <2> TAKE m \in s.live
  <2> DEFINE set == {k \in s.live : k < m}
  <2>1. set \in SUBSET s.live
    OBVIOUS
  <2>2. IsFiniteSet(set)
    BY <1>5, <2>1, FS_Subset
  <2>3. G!Cardinality(set) \in Nat
    BY <1>5, <2>2, FS_CardinalityType
  <2> HIDE DEF set
  <2>4. G!Nth(s, m) = G!Cardinality(set) + IF s.own THEN 1 ELSE 0
    BY DEF G!Nth, set
  <2> QED
    BY <2>3, <2>4
<1>7. \/ \E m \in s.live :
           a \in G!Tile(s, G!Nth(s, m), IF s.watched = m THEN "unwatch" ELSE "watch", m)
      \/ s.own /\ a \in G!Tile(s, 0, "preview", 0)
  BY DEF G!TileAreas
<1>8. s.own \/ s.live # {}
  BY <1>7
<1>9. G!Streams(s) \in Nat \ {0}
  BY <1>5, <1>8 DEF G!Streams
<1>10. CASE s.own /\ a \in G!Tile(s, 0, "preview", 0)
  <2>1. "preview" \notin G!Levels
    BY DEF G!Levels
  <2> QED
    BY <1>4, <1>9, <1>10, <2>1, TileIs
<1>11. ASSUME NEW m \in s.live,
              a \in G!Tile(s, G!Nth(s, m), IF s.watched = m THEN "unwatch" ELSE "watch", m)
       PROVE  a.rect \in Boxes /\ Other(a) /\ Shaped(a)
  <2>1. (IF s.watched = m THEN "unwatch" ELSE "watch") \notin G!Levels
    BY DEF G!Levels
  <2>2. m \in g_Peers
    BY DEF Drawable, AnyScene
  <2> QED
    BY <1>4, <1>6, <1>9, <1>11, <2>1, <2>2, TileIs
<1> QED
  BY <1>7, <1>10, <1>11

LEMMA StageAreasAre ==
    ASSUME NEW s, Drawable(s), ~G!InRows(s), G!Staged(s), NEW a \in G!StageAreas(s)
    PROVE  OffMembers(s, a)
<1> DEFINE every == G!TileAreas(s) \cup (IF s.watched # 0 THEN G!WatchControls(s) ELSE {})
                                 \cup IF s.own THEN G!OwnControls(s) ELSE {}
<1>1. ~G!Mini(s)
  BY DEF G!InRows
<1>2. PICK b \in every : a = [b EXCEPT !.rect = G!Cut(@, G!Stage(s))]
  BY DEF G!StageAreas
<1>3. /\ G!Buttons(s) \in Nat /\ G!SoundX(s) \in Nat /\ G!SoundY(s) \in Nat
      /\ G!OwnTop(s) \in Nat /\ G!PreviewX(s) \in Nat /\ G!PreviewY(s) \in Nat
      /\ G!Stage(s).y \in Nat
  BY <1>1, StageNumbers, SidebarIs DEF Rects
<1>4. \A t \in G!WatchControls(s) \cup G!OwnControls(s) :
         t.rect \in Boxes /\ Other(t) /\ Shaped(t)
  BY <1>3, StageConstants
     DEF G!WatchControls, G!OwnControls, G!Area, G!Rect, Boxes, G!Levels, Other, Shaped
<1>5. b.rect \in Boxes /\ Other(b) /\ Shaped(b)
  BY <1>1, <1>4, TilesAre
<1>6. G!Stage(s) \in Boxes /\ G!Stage(s).w \in Nat /\ G!Stage(s).h \in Nat
      /\ G!Stage(s).x = Aside(s) + 1
  BY <1>1, SidebarIs DEF Rects, Boxes
<1>7. G!Cut(b.rect, G!Stage(s)) \in Boxes /\ G!Cut(b.rect, G!Stage(s)).x >= Aside(s) + 1
  BY <1>5, <1>6, CutIs
<1>8. a.rect = G!Cut(b.rect, G!Stage(s)) /\ a.does = b.does /\ a.who = b.who
  <2> DEFINE cut == G!Cut(b.rect, G!Stage(s))
  <2>1. a = [b EXCEPT !.rect = cut]
    BY <1>2
  <2>2. b = [rect |-> b.rect, does |-> b.does, who |-> b.who, nth |-> b.nth]
    BY <1>5 DEF Shaped
  <2> HIDE DEF cut
  <2>3. a.rect = cut /\ a.does = b.does /\ a.who = b.who
    BY <2>1, <2>2
  <2> QED
    BY <2>3 DEF cut
<1>9. \A m \in G!Shown(s) : G!Apart(a.rect, G!PlaceOf(s, m))
  <2> TAKE m \in G!Shown(s)
  <2>1. G!PlaceOf(s, m) \in Boxes /\ G!PlaceOf(s, m).x + G!PlaceOf(s, m).w <= Aside(s) + 1
    BY MiniCardIs
  <2>2. Aside(s) \in Nat
    BY <1>1, SidebarIs
  <2> QED
    BY <1>7, <1>8, <2>1, <2>2 DEF G!Apart, Boxes
<1> QED
  BY <1>5, <1>7, <1>8, <1>9 DEF OffMembers, Other

-----------------------------------------------------------------------------
(* The cards                                                               *)

LEMMA CardsAre ==
    ASSUME NEW s, Drawable(s), ~G!InRows(s), ~G!Staged(s)
    PROVE  /\ \A i \in Nat : /\ G!Card(s, i) \in Rects /\ G!Card(s, i) \in Boxes
                            /\ G!Card(s, i).h >= 4 /\ G!Card(s, i).w >= 2
           /\ \A i, j \in Nat : i # j => G!Apart(G!Card(s, i), G!Card(s, j))
<1>1. ~G!Mini(s) /\ ~G!Listed(s) /\ s.members \subseteq g_Peers
  BY DEF G!InRows, Drawable, AnyScene
<1>2. G!Grid(s) \in Rects /\ G!Grid(s).w >= 8 /\ G!Grid(s).h = G!GridHeight(s)
      /\ G!GridHeight(s) >= 4
  BY <1>1, GridIs
<1>3. G!Slots(s) \in Nat \ {0}
  BY <1>1, StageConstants, Places DEF G!Slots, G!GridSlots, G!Most, G!Least
<1>4. G!Columns(G!Slots(s)) \in {2, 3, 4}
  BY DEF G!Columns
<1> DEFINE cols == G!Columns(G!Slots(s))
           rows == G!CardRows(s)
<1>5. cols \in Nat \ {0} /\ 8 >= 2 * cols
  BY <1>4
<1>6. rows \in Nat \ {0}
  BY <1>3, <1>5, LinesAre DEF G!CardRows
<1>7. \A i : G!Card(s, i) = G!GridCell(G!Grid(s), rows, cols, i)
  BY DEF G!Card
<1> HIDE DEF cols, rows
<1>8. G!Grid(s).h >= 4 * rows /\ G!Grid(s).w >= 2 * cols
  <2>1. ~(G!GridHeight(s) < 4 * rows)
    BY <1>1 DEF G!Listed, rows
  <2>2. G!Grid(s).w \in Nat /\ G!Grid(s).h \in Nat
    BY <1>2 DEF Rects
  <2> QED
    BY <1>2, <1>5, <1>6, <2>1, <2>2
<1>9. \A i \in Nat : G!Card(s, i) \in Rects /\ G!Card(s, i).h >= 4 /\ G!Card(s, i).w >= 2
  BY <1>2, <1>5, <1>6, <1>7, <1>8, CellIs
<1>10. \A i, j \in Nat : i # j => G!Apart(G!Card(s, i), G!Card(s, j))
  BY <1>2, <1>5, <1>6, <1>7, CellsApart
<1>11. \A t \in Rects : t \in Boxes
  BY DEF Rects, Boxes
<1> QED
  BY <1>9, <1>10, <1>11

LEMMA CardPlace ==
    ASSUME NEW s, Drawable(s), ~G!InRows(s), ~G!Staged(s), NEW m \in G!Shown(s)
    PROVE  /\ m \in s.members /\ G!Place(s, m) \in 1 .. G!Count(s) /\ G!Count(s) \in Nat
           /\ G!PlaceOf(s, m) = G!Card(s, G!Place(s, m))
<1>1. m \in s.members /\ s.members \subseteq g_Peers
  BY DEF G!Shown, Drawable, AnyScene
<1> QED
  BY <1>1, Places DEF G!PlaceOf

\* What is inside the border of a card is inside the card.
LEMMA InCard ==
    ASSUME NEW card \in Rects, card.h >= 4, card.w >= 2, NEW p \in Boxes,
           p.x <= card.x + card.w - 1 \/ p.x <= G!Inner(card).x + 1,
           p.y <= G!Inner(card).y + G!Inner(card).h
    PROVE  G!Cut(p, G!Inner(card)) \in Boxes /\ G!Within(G!Cut(p, G!Inner(card)), card)
<1>1. card.x \in Nat /\ card.y \in Nat /\ card.w \in Nat /\ card.h \in Nat
  BY DEF Rects
<1>2. G!Inner(card) \in Boxes /\ G!Inner(card).x = card.x + 1 /\ G!Inner(card).y = card.y + 1
      /\ G!Inner(card).w = card.w - 2 /\ G!Inner(card).h = card.h - 2
  BY <1>1, InnerIs DEF Rects, Boxes
<1> DEFINE i == G!Inner(card)
           x == G!Most(p.x, i.x)
           y == G!Most(p.y, i.y)
           w == G!Most(0, G!Least(p.x + p.w, i.x + i.w) - x)
           h == G!Most(0, G!Least(p.y + p.h, i.y + i.h) - y)
<1>3. G!Cut(p, i) = [x |-> x, y |-> y, w |-> w, h |-> h]
  BY DEF G!Cut, G!Rect
<1>4. p.x \in Int /\ p.y \in Int /\ p.w \in Int /\ p.h \in Int
  BY DEF Boxes
<1>5. /\ i.x = card.x + 1 /\ i.y = card.y + 1 /\ i.w = card.w - 2 /\ i.h = card.h - 2
      /\ p.x <= card.x + card.w - 1 \/ p.x <= i.x + 1
  BY <1>2
<1>6. p.y <= i.y + i.h
  OBVIOUS
<1> HIDE DEF i
<1>7. x \in Int /\ x >= card.x /\ x <= card.x + card.w
  BY <1>1, <1>4, <1>5, <1>6 DEF G!Most
<1>8. y \in Int /\ y >= card.y /\ y <= card.y + card.h - 1
  BY <1>1, <1>4, <1>5, <1>6 DEF G!Most
<1>9. w \in Int /\ x + w <= card.x + card.w
  BY <1>1, <1>4, <1>5, <1>7 DEF G!Most, G!Least
<1>10. h \in Int /\ y + h <= card.y + card.h
  BY <1>1, <1>4, <1>5, <1>8 DEF G!Most, G!Least
<1> HIDE DEF x, y, w, h
<1> QED
  BY <1>1, <1>3, <1>7, <1>8, <1>9, <1>10 DEF Boxes, G!Within, i

LEMMA PillAreas ==
    ASSUME NEW s, Drawable(s), ~G!InRows(s), ~G!Staged(s), NEW m \in G!Shown(s),
           NEW a \in AreasOf(s, m)
    PROVE  Belongs(s, m, a) /\ AtHand(s, m, a)
<1> DEFINE card == G!Card(s, G!Place(s, m))
           inner == G!Inner(card)
           x == inner.x + inner.w - g_Ping - g_Pill - 2
           p == [x |-> x, y |-> inner.y, w |-> g_Pill, h |-> 1]
<1>1. G!Place(s, m) \in Nat /\ G!PlaceOf(s, m) = card
  BY CardPlace
<1>2. card \in Rects /\ card.h >= 4 /\ card.w >= 2
  BY <1>1, CardsAre
<1>3. \A b \in AreasOf(s, m) :
         b = [rect |-> G!Cut(p, inner), does |-> "next", who |-> m, nth |-> G!Place(s, m)]
  BY DEF AreasOf, G!PillArea, G!Area, G!Rect
<1>4. inner.x = card.x + 1 /\ inner.y = card.y + 1 /\ inner.w = card.w - 2 /\ inner.h = card.h - 2
      /\ card.x \in Nat /\ card.w \in Nat /\ card.y \in Nat /\ card.h \in Nat
  BY <1>2, InnerIs DEF Rects
<1>5. p \in Boxes /\ p.x <= card.x + card.w - 1 /\ p.y <= inner.y + inner.h
  BY <1>2, <1>4, StageConstants DEF Boxes
<1>6. G!Cut(p, inner) \in Boxes /\ G!Within(G!Cut(p, inner), card)
  BY <1>2, <1>5, InCard
<1> HIDE DEF card, p, inner
<1> QED
  BY <1>1, <1>3, <1>6 DEF Belongs, AtHand

LEMMA OtherCards ==
    ASSUME NEW s, Drawable(s), ~G!InRows(s), ~G!Staged(s),
           NEW a \in G!Banner(s) \cup {G!Invite(s, i) : i \in G!Count(s) + 1 .. G!Slots(s) - 1}
    PROVE  OffMembers(s, a)
<1>1. s.members \subseteq g_Peers
  BY DEF Drawable, AnyScene
<1>2. G!Count(s) \in Nat
  BY <1>1, Places
<1>3. CASE a \in G!Banner(s)
  <2> DEFINE card == G!Card(s, 0)
             inner == G!Inner(card)
             p == [x |-> inner.x + 1, y |-> inner.y + inner.h - 2, w |-> inner.w - 2, h |-> 2]
  <2>1. card \in Rects /\ card \in Boxes /\ card.h >= 4 /\ card.w >= 2
    BY CardsAre
  <2>2. a = [rect |-> G!Cut(p, inner), does |-> "stopShare", who |-> 0, nth |-> 0]
    BY <1>3 DEF G!Banner, G!Area, G!Rect
  <2>3. inner.x \in Nat /\ inner.y \in Nat /\ inner.w \in Nat /\ inner.h \in Nat
    BY <2>1, InnerIs DEF Rects
  <2>4. p \in Boxes /\ p.x <= inner.x + 1 /\ p.y <= inner.y + inner.h
    BY <2>3 DEF Boxes
  <2>5. G!Cut(p, inner) \in Boxes /\ G!Within(G!Cut(p, inner), card)
    BY <2>1, <2>4, InCard
  <2> HIDE DEF p, inner
  <2>6. \A m \in G!Shown(s) : G!Apart(a.rect, G!PlaceOf(s, m))
    <3> TAKE m \in G!Shown(s)
    <3> DEFINE place == G!Card(s, G!Place(s, m))
    <3>1. G!Place(s, m) \in Nat /\ G!Place(s, m) # 0 /\ G!PlaceOf(s, m) = place
      BY CardPlace
    <3>2. G!Apart(card, place) /\ place \in Boxes
      BY <3>1, CardsAre
    <3> HIDE DEF card, place
    <3>3. G!Within(place, place)
      BY <3>2, WithinItself
    <3> QED
      BY <2>1, <2>2, <2>5, <3>1, <3>2, <3>3, PartsApart
  <2>7. "stopShare" \notin G!Levels
    BY DEF G!Levels
  <2> QED
    BY <2>2, <2>5, <2>6, <2>7 DEF OffMembers, Other
<1>4. ASSUME NEW i \in G!Count(s) + 1 .. G!Slots(s) - 1, a = G!Invite(s, i)
      PROVE  OffMembers(s, a)
  <2>1. i \in Nat /\ i > G!Count(s)
    BY <1>2
  <2>2. a = [rect |-> G!Card(s, i), does |-> "copy", who |-> 0, nth |-> i]
    BY <1>4 DEF G!Invite, G!Area
  <2>3. \A m \in G!Shown(s) : G!Apart(G!Card(s, i), G!PlaceOf(s, m))
    <3> TAKE m \in G!Shown(s)
    <3>1. G!Place(s, m) \in Nat /\ G!Place(s, m) # i /\ G!PlaceOf(s, m) = G!Card(s, G!Place(s, m))
      BY <1>2, <2>1, CardPlace
    <3> QED
      BY <2>1, <3>1, CardsAre
  <2>4. "copy" \notin G!Levels
    BY DEF G!Levels
  <2> QED
    BY <2>1, <2>2, <2>3, <2>4, CardsAre DEF OffMembers, Other
<1> QED
  BY <1>3, <1>4

-----------------------------------------------------------------------------
(* Every frame                                                             *)

\* An area is a shown member's, or off the members.
LEMMA AreasSplit ==
    ASSUME NEW s, Drawable(s), NEW a \in G!Areas(s)
    PROVE  (\E m \in G!Shown(s) : a \in AreasOf(s, m)) \/ OffMembers(s, a)
<1>1. CASE G!Mini(s)
  <2>1. /\ ~(G!HudInner(s).h < 2)
        /\ a \in G!ListRows(s, G!HudInner(s), G!HudInner(s).y + G!HudTop(s) + G!HudDivider(s),
                           G!Least(G!Count(s) + 1, G!HudRest(s) - G!HudDivider(s)))
    BY <1>1 DEF G!Areas, G!Hud
  <2>2. a \in G!ListRows(s, G!RowsOf(s).inner, G!RowsOf(s).y, G!RowsOf(s).n) /\ G!InRows(s)
    BY <1>1, <2>1 DEF G!RowsOf, G!InRows
  <2> QED
    BY <2>2 DEF G!ListRows, AreasOf, G!Shown
<1>2. CASE ~G!Mini(s) /\ ~G!Staged(s) /\ G!Listed(s)
  <2>1. ~(G!Inner(G!Grid(s)).w < 6)
        /\ a \in G!ListRows(s, G!ListInner(s), G!ListInner(s).y, G!ListInner(s).h)
    BY <1>2 DEF G!Areas, G!List
  <2>2. a \in G!ListRows(s, G!RowsOf(s).inner, G!RowsOf(s).y, G!RowsOf(s).n) /\ G!InRows(s)
    BY <1>2, <2>1 DEF G!RowsOf, G!InRows
  <2> QED
    BY <2>2 DEF G!ListRows, AreasOf, G!Shown
<1>3. CASE ~G!Mini(s) /\ G!Staged(s)
  <2>1. ~G!InRows(s)
    BY <1>3 DEF G!InRows
  <2>2. \/ a \in G!StageAreas(s)
        \/ \E m \in s.members : G!Fits(s, G!Place(s, m)) /\ a \in G!SidebarAreas(s, m)
    BY <1>3 DEF G!Areas
  <2> QED
    BY <1>3, <2>1, <2>2, StageAreasAre DEF AreasOf, G!Shown
<1>4. CASE ~G!Mini(s) /\ ~G!Staged(s) /\ ~G!Listed(s)
  <2>1. ~G!InRows(s)
    BY <1>4 DEF G!InRows
  <2>2. \/ \E m \in s.members : a \in G!PillArea(s, m)
        \/ a \in G!Banner(s) \cup {G!Invite(s, i) : i \in G!Count(s) + 1 .. G!Slots(s) - 1}
    BY <1>4 DEF G!Areas, G!Cards
  <2> QED
    BY <1>4, <2>1, <2>2, OtherCards DEF AreasOf, G!Shown
<1> QED
  BY <1>1, <1>2, <1>3, <1>4

LEMMA AreasAre ==
    ASSUME NEW s, Drawable(s), NEW m \in G!Shown(s), NEW a \in AreasOf(s, m)
    PROVE  Belongs(s, m, a) /\ AtHand(s, m, a)
  BY RowAreas, SidebarAreasAre, PillAreas

\* No member is drawn over another.
LEMMA ShownApart ==
    ASSUME NEW s, Drawable(s), NEW m \in G!Shown(s), NEW k \in G!Shown(s), m # k
    PROVE  G!Apart(G!PlaceOf(s, m), G!PlaceOf(s, k))
<1>1. m \in s.members /\ k \in s.members /\ s.members \subseteq g_Peers
  BY DEF G!Shown, Drawable, AnyScene
<1>2. G!Place(s, m) # G!Place(s, k)
  BY <1>1, PlacesDiffer
<1>3. CASE G!InRows(s)
  <2>1. /\ G!RowsOf(s).inner \in Rects /\ G!RowsOf(s).y \in Nat
        /\ G!Place(s, m) \in Nat /\ G!Place(s, k) \in Nat
        /\ G!PlaceOf(s, m) = [x |-> G!RowsOf(s).inner.x, y |-> G!RowsOf(s).y + G!Place(s, m),
                              w |-> G!RowsOf(s).inner.w, h |-> 1]
        /\ G!PlaceOf(s, k) = [x |-> G!RowsOf(s).inner.x, y |-> G!RowsOf(s).y + G!Place(s, k),
                              w |-> G!RowsOf(s).inner.w, h |-> 1]
    BY <1>3, MemberRows
  <2> QED
    BY <1>2, <2>1 DEF G!Apart, Boxes, Rects
<1>4. CASE ~G!InRows(s) /\ G!Staged(s)
  <2> DEFINE i == G!Place(s, m)
             j == G!Place(s, k)
             c == G!CardHeight(s)
             top == G!Sidebar(s).y
  <2>1. /\ i \in Nat /\ j \in Nat /\ G!PlaceOf(s, m) \in Boxes
        /\ G!PlaceOf(s, m).y = top + i * c /\ G!PlaceOf(s, k).y = top + j * c
        /\ G!PlaceOf(s, m).h = c /\ G!PlaceOf(s, k).h = c
    BY <1>4, MiniCardIs
  <2>2. c \in Nat /\ top \in Nat
    BY <1>4, MiniCardIs, SidebarIs DEF Rects
  <2>3. i # j
    BY <1>2
  <2> HIDE DEF i, j, c, top
  <2>4. i + 1 <= j \/ j + 1 <= i
    BY <2>1, <2>3
  <2>5. (i + 1) * c <= j * c \/ (j + 1) * c <= i * c
    BY <2>1, <2>2, <2>4, Products
  <2>6. (i + 1) * c = i * c + c /\ (j + 1) * c = j * c + c /\ i * c \in Nat /\ j * c \in Nat
    BY <2>1, <2>2
  <2> QED
    BY <2>1, <2>2, <2>5, <2>6 DEF G!Apart
<1>5. CASE ~G!InRows(s) /\ ~G!Staged(s)
  <2>1. G!Place(s, m) \in Nat /\ G!Place(s, k) \in Nat
        /\ G!PlaceOf(s, m) = G!Card(s, G!Place(s, m))
        /\ G!PlaceOf(s, k) = G!Card(s, G!Place(s, k))
    BY <1>5, CardPlace
  <2> QED
    BY <1>2, <1>5, <2>1, CardsAre
<1> QED
  BY <1>3, <1>4, <1>5

LEMMA PlacesAreBoxes ==
    ASSUME NEW s, Drawable(s), NEW m \in G!Shown(s)
    PROVE  G!PlaceOf(s, m) \in Boxes
<1>1. CASE G!InRows(s)
  <2>1. /\ G!RowsOf(s).inner \in Rects /\ G!RowsOf(s).y \in Nat /\ G!Place(s, m) \in Nat
        /\ G!PlaceOf(s, m) = [x |-> G!RowsOf(s).inner.x, y |-> G!RowsOf(s).y + G!Place(s, m),
                              w |-> G!RowsOf(s).inner.w, h |-> 1]
    BY <1>1, MemberRows
  <2> QED
    BY <2>1 DEF Boxes, Rects
<1>2. CASE ~G!InRows(s) /\ G!Staged(s)
  BY <1>2, MiniCardIs
<1>3. CASE ~G!InRows(s) /\ ~G!Staged(s)
  <2>1. G!Place(s, m) \in Nat /\ G!PlaceOf(s, m) = G!Card(s, G!Place(s, m))
    BY <1>3, CardPlace
  <2> QED
    BY <1>3, <2>1, CardsAre
<1> QED
  BY <1>1, <1>2, <1>3

\* Those left out are the last.
LEMMA ShownFirst ==
    ASSUME NEW s, Drawable(s), NEW m \in G!Shown(s), NEW k \in s.members, k < m
    PROVE  k \in G!Shown(s)
<1>1. m \in s.members /\ s.members \subseteq g_Peers
  BY DEF G!Shown, Drawable, AnyScene
<1>2. G!Place(s, k) < G!Place(s, m) /\ G!Place(s, k) \in Nat /\ G!Place(s, m) \in Nat
  BY <1>1, Places
<1>3. CASE G!InRows(s)
  <2>1. G!Place(s, m) < G!RowsOf(s).n
    BY <1>3 DEF G!Shown
  <2>2. G!RowsOf(s).n \in Int
    <3>1. CASE G!Mini(s) /\ G!HudInner(s).h < 2
      BY <3>1 DEF G!RowsOf
    <3>2. CASE G!Mini(s) /\ ~(G!HudInner(s).h < 2)
      <4>1. G!HudInner(s).h \in Int
        BY DEF Drawable, AnyScene, G!HudInner, G!Rect
      <4>2. G!HudInner(s).h >= 2
        BY <3>2, <4>1
      <4>3. G!HudRest(s) \in Nat /\ G!HudDivider(s) \in {0, 1} /\ G!Count(s) \in Nat
        BY <1>1, <4>2, HudIs, Places
      <4> QED
        BY <3>2, <4>3 DEF G!RowsOf, G!Least
    <3>3. CASE ~G!Mini(s)
      <4>1. G!Inner(G!Grid(s)) \in Rects
        BY <3>3, GridIs, InnerIs
      <4> QED
        BY <3>3, <4>1 DEF G!RowsOf, G!ListInner, G!Rect, Rects
    <3> QED
      BY <3>1, <3>2, <3>3
  <2> QED
    BY <1>2, <1>3, <2>1, <2>2 DEF G!Shown
<1>4. CASE ~G!InRows(s) /\ G!Staged(s)
  <2>1. G!Fits(s, G!Place(s, m)) /\ ~G!Mini(s)
    BY <1>4 DEF G!Shown, G!InRows
  <2>2. G!CardHeight(s) \in Nat /\ G!Sidebar(s).h \in Nat
    BY <2>1, SidebarIs DEF Rects
  <2>3. (G!Place(s, k) + 1) * G!CardHeight(s) <= (G!Place(s, m) + 1) * G!CardHeight(s)
        /\ (G!Place(s, k) + 1) * G!CardHeight(s) \in Nat
        /\ (G!Place(s, m) + 1) * G!CardHeight(s) \in Nat
    BY <1>2, <2>2, Products
  <2>4. (G!Place(s, m) + 1) * G!CardHeight(s) <= G!Sidebar(s).h
    BY <2>1 DEF G!Fits
  <2> DEFINE p == (G!Place(s, k) + 1) * G!CardHeight(s)
             q == (G!Place(s, m) + 1) * G!CardHeight(s)
  <2> HIDE DEF p, q
  <2>5. p <= G!Sidebar(s).h
    <3>1. p <= q /\ p \in Nat /\ q \in Nat /\ q <= G!Sidebar(s).h
      BY <2>3, <2>4 DEF p, q
    <3> QED
      BY <2>2, <3>1
  <2>6. G!Fits(s, G!Place(s, k))
    BY <2>5 DEF p, G!Fits
  <2> QED
    BY <1>4, <2>6 DEF G!Shown
<1>5. CASE ~G!InRows(s) /\ ~G!Staged(s)
  BY <1>5 DEF G!Shown
<1> QED
  BY <1>3, <1>4, <1>5

\* There is a least in a set of numbers.
LEMMA LeastOfNats ==
    ASSUME NEW set \in SUBSET Nat, set # {}
    PROVE  \E m \in set : \A k \in set : m <= k
<1> DEFINE less == {p \in Nat \X Nat : p[1] < p[2]}
<1>1. IsWellFoundedOn(less, Nat)
  BY NatLessThanWellFounded DEF OpToRel
<1>2. PICK m \in set : \A k \in set : <<k, m>> \notin less
  <2> HIDE DEF less
  <2> QED
    BY <1>1, WFMin
<1>3. ASSUME NEW k \in set PROVE m <= k
  <2>1. <<k, m>> \in Nat \X Nat /\ ~(k < m)
    BY <1>2
  <2> QED
    BY <2>1
<1> QED
  BY <1>3

StageInv == G!TypeOK

LEMMA StageInit == Init => StageInv
<1> SUFFICES ASSUME G!Init PROVE StageInv
  BY DEF Init
<1>1. g_volume \in [g_Peers -> 0 .. 8] /\ g_sound \in [g_Peers -> 0 .. 20]
  BY DEF G!Init
<1>2. g_present \subseteq g_Peers /\ g_live \subseteq g_present /\ g_watched \in g_Peers \cup {0}
  BY DEF G!Init
<1>3. g_own \in BOOLEAN /\ g_jobs \subseteq G!Jobs
  BY DEF G!Init
<1>4. g_acts \in 0 .. g_MaxActs
  BY StageConstants DEF G!Init
<1>5. g_seen \in G!Scenes \cup {G!Nobody}
  BY DEF G!Init
<1> QED
  BY <1>1, <1>2, <1>3, <1>4, <1>5 DEF StageInv, G!TypeOK

\* A frame is of the room as it was.
LEMMA SeenIs == StageInv => Drawable(g_seen)
<1> SUFFICES ASSUME StageInv PROVE Drawable(g_seen)
  OBVIOUS
<1>1. CASE g_seen \in G!Scenes
  <2>1. g_Widths \subseteq Nat /\ g_Heights \subseteq Nat /\ 0 .. g_HudLines \subseteq Nat
        /\ \A w \in g_Widths : w >= 8
    BY StageConstants
  <2>2. g_seen \in AnyScene
    BY <1>1, <2>1 DEF G!Scenes, AnyScene
  <2>3. g_seen.w \in g_Widths
    BY <1>1 DEF G!Scenes
  <2> QED
    BY <2>1, <2>2, <2>3 DEF Drawable
<1>2. CASE g_seen = G!Nobody
  BY <1>2 DEF G!Nobody, Drawable, AnyScene, G!Mini
<1> QED
  BY <1>1, <1>2 DEF StageInv, G!TypeOK

\* A volume is of a member there may be.
LEMMA LevelIsOfAMember ==
    ASSUME StageInv, NEW a \in G!OnTop(g_seen), a.does \in G!Levels \cup {"watch"}
    PROVE  a.who \in g_Peers
<1>1. a \in G!Areas(g_seen) /\ Drawable(g_seen)
  BY SeenIs DEF G!OnTop
<1>2. CASE OffMembers(g_seen, a)
  BY <1>2 DEF OffMembers, Other
<1>3. CASE \E m \in G!Shown(g_seen) : a \in AreasOf(g_seen, m)
  <2>1. PICK m \in G!Shown(g_seen) : a \in AreasOf(g_seen, m)
    BY <1>3
  <2>2. a.who = m
    BY <1>1, <2>1, AreasAre DEF Belongs
  <2> QED
    BY <1>1, <2>2 DEF G!Shown, Drawable, AnyScene
<1> QED
  BY <1>1, <1>2, <1>3, AreasSplit

LEMMA ClickKeepsTypes ==
    ASSUME StageInv, NEW a \in G!OnTop(g_seen), G!Click(a)
    PROVE  StageInv'
<1> USE DEF StageInv, G!TypeOK
<1>1. g_acts' \in 0 .. g_MaxActs /\ g_seen' = g_seen
  BY StageConstants DEF G!Click, G!Act
<1>2. CASE G!VolumeClick(a)
  <2>1. a.does \in G!Levels
    BY <1>2 DEF G!VolumeClick, G!Levels
  <2>2. a.who \in g_Peers /\ g_volume[a.who] \in 0 .. 8
    BY <2>1, LevelIsOfAMember
  <2>3. g_volume' \in [g_Peers -> 0 .. 8]
    BY <1>2, <2>2 DEF G!VolumeClick, G!SetVolume, G!Most, G!Least
  <2> QED
    BY <1>1, <1>2, <2>3 DEF G!VolumeClick, G!room
<1>3. CASE G!SoundClick(a)
  <2>1. g_sound' \in [g_Peers -> 0 .. 20]
    <3>1. CASE a.who \in g_Peers
      <4>1. g_sound[a.who] \in 0 .. 20
        BY <3>1
      <4> QED
        BY <1>3, <4>1 DEF G!SoundClick, G!SetSound, G!Most, G!Least
    <3>2. CASE a.who \notin g_Peers
      BY <1>3, <3>2 DEF G!SoundClick, G!SetSound
    <3> QED
      BY <3>1, <3>2
  <2> QED
    BY <1>1, <1>3, <2>1 DEF G!SoundClick, G!room
<1>4. CASE G!WatchClick(a)
  <2>1. a.does = "watch" => a.who \in g_Peers
    BY LevelIsOfAMember
  <2>2. g_jobs' \subseteq G!Jobs
    BY <1>4, <2>1 DEF G!WatchClick, G!Starts, G!Jobs
  <2> QED
    BY <1>1, <1>4, <2>2 DEF G!WatchClick, G!levels
<1>5. CASE G!ShareClick(a)
  BY <1>1, <1>5 DEF G!ShareClick, G!levels
<1> QED
  BY <1>2, <1>3, <1>4, <1>5 DEF G!Click

LEMMA StageStep == StageInv /\ [Next]_all => StageInv'
<1> SUFFICES ASSUME StageInv, [Next]_all PROVE StageInv'
  OBVIOUS
<1> USE StageConstants DEF StageInv, G!TypeOK
<1>1. CASE UNCHANGED gVars
  BY <1>1 DEF gVars
<1>2. ASSUME NEW m \in g_Peers, G!Joins(m) PROVE StageInv'
  BY <1>2 DEF G!Joins, G!Act, G!levels
<1>3. ASSUME NEW m \in g_Peers, G!Leaves(m) PROVE StageInv'
  <2>1. g_jobs' \subseteq G!Jobs
    BY <1>3 DEF G!Leaves, G!Jobs
  <2> QED
    BY <1>3, <2>1 DEF G!Leaves, G!Act
<1>4. ASSUME NEW m \in g_Peers, G!Shares(m) PROVE StageInv'
  BY <1>4 DEF G!Shares, G!Act, G!levels
<1>5. ASSUME NEW m \in g_Peers, G!ShareEnds(m) PROVE StageInv'
  <2>1. g_jobs' \subseteq G!Jobs
    BY <1>5 DEF G!ShareEnds, G!Jobs
  <2> QED
    BY <1>5, <2>1 DEF G!ShareEnds, G!Act, G!levels
<1>6. ASSUME NEW m \in g_Peers, G!StartWatching(m) PROVE StageInv'
  <2>1. g_jobs' \subseteq G!Jobs
    BY <1>6 DEF G!StartWatching, G!Jobs
  <2> QED
    BY <1>6, <2>1 DEF G!StartWatching, G!levels
<1>7. ASSUME NEW m \in g_Peers, G!PlayerOpened(m) PROVE StageInv'
  BY <1>7 DEF G!PlayerOpened, G!levels
<1>8. CASE G!OwnShare \/ G!ViewerEnds \/ G!StopWatching \/ G!StopShare
  <2>1. CASE G!OwnShare
    <3>1. g_own' \in BOOLEAN
      BY <2>1 DEF G!OwnShare
    <3> QED
      BY <2>1, <3>1 DEF G!OwnShare, G!Act, G!levels
  <2>2. CASE G!ViewerEnds
    BY <2>2 DEF G!ViewerEnds, G!levels
  <2>3. CASE G!StopWatching
    BY <2>3 DEF G!StopWatching, G!levels
  <2>4. CASE G!StopShare
    <3>1. g_own' \in BOOLEAN
      BY <2>4 DEF G!StopShare
    <3> QED
      BY <2>4, <3>1 DEF G!StopShare, G!levels
  <2> QED
    BY <1>8, <2>1, <2>2, <2>3, <2>4
<1>9. CASE G!Press
  <2>1. g_jobs' \subseteq G!Jobs /\ g_own' \in BOOLEAN /\ g_watched' \in g_Peers \cup {0}
    <3>1. \A set \in SUBSET g_Peers : set # {} => G!First(set) \in g_Peers
      <4> SUFFICES ASSUME NEW set \in SUBSET g_Peers, set # {} PROVE G!First(set) \in set
        OBVIOUS
      <4>1. set \subseteq Nat
        OBVIOUS
      <4>2. \E m \in set : \A k \in set : m <= k
        BY <4>1, LeastOfNats
      <4> QED
        BY <4>2 DEF G!First
    <3>2. g_seen.live \in SUBSET g_Peers
      BY SeenIs DEF Drawable, AnyScene
    <3>3. \A set \in SUBSET g_Peers : G!WatchFirst(set) =>
             g_jobs' \subseteq G!Jobs /\ g_own' = g_own /\ g_watched' = g_watched
      BY <3>1 DEF G!WatchFirst, G!Starts, G!Jobs
    <3>4. \A job \in G!Jobs : G!Starts(job) => g_jobs' \subseteq G!Jobs
      BY DEF G!Starts
    <3>5. <<"stop", 0>> \in G!Jobs /\ <<"unshare", 0>> \in G!Jobs
      BY DEF G!Jobs
    <3>6. g_live \in SUBSET g_Peers
      OBVIOUS
    <3>7. CASE G!FooterButton
      BY <3>2, <3>3, <3>4, <3>5, <3>7 DEF G!FooterButton
    <3>8. CASE G!HudButton
      BY <3>2, <3>3, <3>8 DEF G!HudButton
    <3>9. CASE G!Key
      BY <3>3, <3>4, <3>5, <3>6, <3>9 DEF G!Key
    <3> QED
      BY <1>9, <3>7, <3>8, <3>9 DEF G!Press
  <2> QED
    BY <1>9, <2>1 DEF G!Press, G!Act, G!levels
<1>10. CASE G!SoundKey
  <2>1. g_sound' \in [g_Peers -> 0 .. 20]
    <3>1. g_watched \in g_Peers /\ g_sound[g_watched] \in 0 .. 20
      BY <1>10 DEF G!SoundKey
    <3> QED
      BY <1>10, <3>1 DEF G!SoundKey, G!SetSound, G!Most, G!Least
  <2> QED
    BY <1>10, <2>1 DEF G!SoundKey, G!Act, G!room
<1>11. ASSUME NEW w \in g_Widths, NEW h \in g_Heights, NEW compact \in BOOLEAN,
              NEW lines \in 0 .. g_HudLines, NEW footer \in BOOLEAN,
              G!Draw(w, h, compact, lines, footer)
       PROVE  StageInv'
  <2>1. g_own' \in BOOLEAN
    BY <1>11 DEF G!Draw
  <2>2. g_seen' \in G!Scenes
    BY <1>11, <2>1 DEF G!Draw, G!Scenes
  <2> QED
    BY <1>11, <2>1, <2>2 DEF G!Draw, G!levels
<1>12. ASSUME NEW a \in G!OnTop(g_seen), G!Click(a) PROVE StageInv'
  BY <1>12, ClickKeepsTypes
<1>13. G!Next \/ UNCHANGED gVars
  BY DEF Next, Others, all
<1> QED
  BY <1>1, <1>2, <1>3, <1>4, <1>5, <1>6, <1>7, <1>8, <1>9, <1>10, <1>11, <1>12, <1>13 DEF G!Next

\* The parts of the room's page.
LEMMA MembersShown == StageInv => G!MembersAreShown
<1> SUFFICES ASSUME StageInv PROVE G!MembersAreShown
  OBVIOUS
<1>1. Drawable(g_seen)
  BY SeenIs
<1>2. \A m, k \in G!Shown(g_seen) : m # k => G!Apart(G!PlaceOf(g_seen, m), G!PlaceOf(g_seen, k))
  BY <1>1, ShownApart
<1>3. \A m \in G!Shown(g_seen), k \in g_seen.members : k < m => k \in G!Shown(g_seen)
  BY <1>1, ShownFirst
<1>4. ASSUME ~G!InRows(g_seen), ~G!Staged(g_seen)
      PROVE  G!Shown(g_seen) = g_seen.members /\ \A m \in g_seen.members : G!PlaceOf(g_seen, m).h >= 4
  <2>1. G!Shown(g_seen) = g_seen.members
    BY <1>4 DEF G!Shown
  <2>2. ASSUME NEW m \in G!Shown(g_seen) PROVE G!PlaceOf(g_seen, m).h >= 4
    <3>1. G!Place(g_seen, m) \in Nat /\ G!PlaceOf(g_seen, m) = G!Card(g_seen, G!Place(g_seen, m))
      BY <1>1, <1>4, CardPlace
    <3> QED
      BY <1>1, <1>4, <3>1, CardsAre
  <2> QED
    BY <2>1, <2>2
<1> QED
  BY <1>2, <1>3, <1>4 DEF G!MembersAreShown

LEMMA VolumeAtHand == StageInv => G!VolumeIsAtHand
<1> SUFFICES ASSUME StageInv, NEW a \in G!Areas(g_seen), a.does \in G!Levels
             PROVE  /\ a.who \in G!Shown(g_seen) /\ G!Within(a.rect, G!PlaceOf(g_seen, a.who))
                    /\ ~G!InRows(g_seen) /\ G!Staged(g_seen) =>
                          a.rect.y # G!Meter(G!PlaceOf(g_seen, a.who))
                    /\ \A b \in G!Areas(g_seen) :
                          b # a => b.nth < a.nth \/ G!Apart(a.rect, b.rect)
  BY DEF G!VolumeIsAtHand
<1>1. Drawable(g_seen)
  BY SeenIs
<1>2. PICK m \in G!Shown(g_seen) : a \in AreasOf(g_seen, m)
  BY <1>1, AreasSplit DEF OffMembers, Other
<1>3. /\ a.who = m /\ a.rect \in Boxes /\ G!Within(a.rect, G!PlaceOf(g_seen, m))
      /\ \A b \in AreasOf(g_seen, m) : b # a => b.nth < a.nth \/ G!Apart(a.rect, b.rect)
      /\ ~G!InRows(g_seen) /\ G!Staged(g_seen) => a.rect.y # G!Meter(G!PlaceOf(g_seen, m))
  BY <1>1, <1>2, AreasAre DEF Belongs, AtHand
<1>4. G!PlaceOf(g_seen, m) \in Boxes
  BY <1>1, <1>2, PlacesAreBoxes
<1>5. ASSUME NEW b \in G!Areas(g_seen), b # a
      PROVE  b.nth < a.nth \/ G!Apart(a.rect, b.rect)
  <2>1. CASE OffMembers(g_seen, b)
    <3>1. b.rect \in Boxes /\ G!Apart(b.rect, G!PlaceOf(g_seen, m))
      BY <1>2, <2>1 DEF OffMembers
    <3>2. G!Apart(G!PlaceOf(g_seen, m), b.rect) /\ G!Within(b.rect, b.rect)
      BY <3>1, ApartBothWays, WithinItself
    <3> QED
      BY <1>3, <1>4, <3>1, <3>2, PartsApart
  <2>2. ASSUME NEW k \in G!Shown(g_seen), b \in AreasOf(g_seen, k)
        PROVE  b.nth < a.nth \/ G!Apart(a.rect, b.rect)
    <3>1. CASE k = m
      BY <1>3, <1>5, <2>2, <3>1
    <3>2. CASE k # m
      <4>1. b.rect \in Boxes /\ G!Within(b.rect, G!PlaceOf(g_seen, k))
        BY <1>1, <2>2, AreasAre DEF Belongs
      <4>2. G!PlaceOf(g_seen, k) \in Boxes /\ G!Apart(G!PlaceOf(g_seen, m), G!PlaceOf(g_seen, k))
        BY <1>1, <1>2, <3>2, ShownApart, PlacesAreBoxes
      <4> QED
        BY <1>3, <1>4, <4>1, <4>2, PartsApart
    <3> QED
      BY <3>1, <3>2
  <2> QED
    BY <1>1, <2>1, <2>2, AreasSplit
<1> QED
  BY <1>3, <1>2, <1>5

\* A click on a member is for that member.
LEMMA ClickedMember ==
    ASSUME StageInv, NEW a \in G!OnTop(g_seen), NEW m \in G!Shown(g_seen), G!Click(a),
           ~G!Apart(a.rect, G!PlaceOf(g_seen, m)), NEW k \in g_Peers \ {m}
    PROVE  /\ g_volume'[k] = g_volume[k] /\ g_sound'[k] = g_sound[k]
           /\ <<"watch", k>> \in g_jobs' => <<"watch", k>> \in g_jobs
<1>1. a \in G!Areas(g_seen) /\ Drawable(g_seen)
  BY SeenIs DEF G!OnTop
<1>2. ~OffMembers(g_seen, a)
  BY DEF OffMembers
<1>3. PICK n \in G!Shown(g_seen) : a \in AreasOf(g_seen, n)
  BY <1>1, <1>2, AreasSplit
<1>4. a.who = n /\ a.rect \in Boxes /\ G!Within(a.rect, G!PlaceOf(g_seen, n))
  BY <1>1, <1>3, AreasAre DEF Belongs
<1>5. n = m
  <2> SUFFICES ASSUME n # m PROVE FALSE
    OBVIOUS
  <2>1. /\ G!PlaceOf(g_seen, n) \in Boxes /\ G!PlaceOf(g_seen, m) \in Boxes
        /\ G!Apart(G!PlaceOf(g_seen, n), G!PlaceOf(g_seen, m))
    BY <1>1, <1>3, ShownApart, PlacesAreBoxes
  <2>2. G!Within(G!PlaceOf(g_seen, m), G!PlaceOf(g_seen, m))
    BY <2>1, WithinItself
  <2> QED
    BY <1>4, <2>1, <2>2, PartsApart
<1>6. a.who = m
  BY <1>4, <1>5
<1>7. g_volume \in [g_Peers -> 0 .. 8] /\ g_sound \in [g_Peers -> 0 .. 20] /\ k # m
  BY DEF StageInv, G!TypeOK
<1>8. CASE G!VolumeClick(a)
  BY <1>6, <1>7, <1>8 DEF G!VolumeClick, G!SetVolume
<1>9. CASE G!SoundClick(a)
  BY <1>6, <1>7, <1>9 DEF G!SoundClick, G!SetSound
<1>10. CASE G!WatchClick(a)
  BY <1>6, <1>7, <1>10 DEF G!WatchClick, G!Starts, G!levels
<1>11. CASE G!ShareClick(a)
  BY <1>11 DEF G!ShareClick, G!levels
<1> QED
  BY <1>8, <1>9, <1>10, <1>11 DEF G!Click

-----------------------------------------------------------------------------
(* The screen, the keys and the settings                                   *)

\* A key goes to what is drawn, whatever dialogs are open together; once nothing is on its
\* way from the node, the screen shows the room it is in; and however small the terminal is,
\* the settings stand in their order, those left out where an arrow points (testModalRowMap),
\* and the members apart, each with its volume where clicks reach it (ui_room_members.go).
THEOREM ScreenAndKeysAlwaysAgree == Spec => []ScreenAndKeysAgree
<1>1. ScreenInv => A!ScreenShowsTheRoom
  BY DEF ScreenInv, RoomIsShown, A!ScreenShowsTheRoom, A!Pending, Shown, Answered, Removed, Told
<1>2. ScreenInv /\ OffersAreCounted /\ DialogInv /\ StageInv => ScreenAndKeysAgree
  BY <1>1, KeysGoRight, ReachKept, MembersShown, VolumeAtHand DEF ScreenAndKeysAgree, DialogInv
<1> QED
  BY <1>2, ScreenInit, ScreenStep, OffersInit, OffersStep, DialogInit, DialogStep,
     StageInit, StageStep, PTL DEF Spec

-----------------------------------------------------------------------------
(* The chat on the screen                                                  *)

AddLines(lines, m) == C!AddLines(lines, m)

LinesAdded == INSTANCE FoldFacts WITH Step <- AddLines

\* Messages with numbers of their own
IsChat(ms, top) ==
    /\ \E set : ms \in Seq(set)
    /\ \A i \in DOMAIN ms : ms[i].id \in 1 .. top /\ ms[i].rows \in {1, 2}
    /\ \A i, j \in DOMAIN ms : ms[i].id = ms[j].id => i = j

\* The lines of messages: each once, the first one of the first message first
LinesFit(lines, ms) ==
    /\ \E set : lines \in Seq(set)
    /\ \A j \in DOMAIN lines : \E i \in DOMAIN ms : \E r \in 1 .. ms[i].rows : lines[j] = <<ms[i].id, r>>
    /\ \A i \in DOMAIN ms : \A r \in 1 .. ms[i].rows : \E j \in DOMAIN lines : lines[j] = <<ms[i].id, r>>
    /\ \A i, j \in DOMAIN lines : lines[i] = lines[j] => i = j
    /\ lines # <<>> => lines[1] = <<ms[1].id, 1>>

\* One more message
LEMMA LinesOfOneMore ==
    ASSUME NEW top \in Nat, NEW ms, IsChat(ms, top), NEW k \in Nat, k + 1 \in DOMAIN ms, NEW lines,
           NEW few, few = SubSeq(ms, 1, k), LinesFit(lines, few), NEW m, m = ms[k + 1]
    PROVE  LinesFit(C!AddLines(lines, m), SubSeq(ms, 1, k + 1))
<1> DEFINE rows == m.rows
           more == C!LinesOf(m)
           many == SubSeq(ms, 1, k + 1)
           joined == lines \o more
<1>1. PICK set : ms \in Seq(set)
  BY DEF IsChat
<1>2. k + 1 \in 1 .. Len(ms) /\ Len(ms) \in Nat
  BY <1>1
<1>3. /\ DOMAIN few = 1 .. k /\ DOMAIN many = 1 .. k + 1
      /\ \A i \in 1 .. k : few[i] = ms[i] /\ many[i] = ms[i]
      /\ many[k + 1] = m
  BY <1>1, <1>2
<1>4. rows \in {1, 2} /\ \A i \in 1 .. k : ms[i].id # m.id
  BY <1>2, <1>3, <1>1 DEF IsChat
<1> HIDE DEF many
<1>5. /\ more = [i \in 1 .. rows |-> <<m.id, i>>]
      /\ \E s : more \in Seq(s)
  <2>1. more = [i \in 1 .. rows |-> <<m.id, i>>]
    BY DEF C!LinesOf
  <2>2. more \in Seq({<<m.id, i>> : i \in 1 .. rows})
    BY <1>4, <2>1
  <2> QED
    BY <2>1, <2>2
<1>6. PICK s1, s2 : lines \in Seq(s1) /\ more \in Seq(s2)
  BY <1>5 DEF LinesFit
<1> HIDE DEF more, rows
<1>7. Len(more) = rows /\ Len(lines) \in Nat
  BY <1>4, <1>5, <1>6
<1>8. /\ joined \in Seq(s1 \union s2) /\ DOMAIN joined = 1 .. Len(lines) + rows
      /\ \A j \in 1 .. Len(lines) : joined[j] = lines[j]
      /\ \A j \in Len(lines) + 1 .. Len(lines) + rows : joined[j] = <<m.id, j - Len(lines)>>
  <2>1. lines \in Seq(s1 \union s2) /\ more \in Seq(s1 \union s2)
    BY <1>6
  <2>2. joined \in Seq(s1 \union s2) /\ Len(joined) = Len(lines) + Len(more)
    BY <2>1
  <2>3. \A j \in 1 .. Len(lines) : joined[j] = lines[j]
    BY <2>1, <1>7
  <2>4. \A j \in Len(lines) + 1 .. Len(lines) + rows : joined[j] = more[j - Len(lines)]
    BY <2>1, <1>4, <1>7
  <2>5. \A j \in Len(lines) + 1 .. Len(lines) + rows : j - Len(lines) \in 1 .. rows
    BY <1>4, <1>7
  <2> HIDE DEF joined
  <2>6. \A j \in Len(lines) + 1 .. Len(lines) + rows : joined[j] = <<m.id, j - Len(lines)>>
    BY <1>5, <2>4, <2>5
  <2>7. DOMAIN joined = 1 .. Len(lines) + rows
    BY <1>7, <2>2
  <2> QED
    BY <2>2, <2>3, <2>6, <2>7
<1> HIDE DEF joined
<1>9. DOMAIN lines = 1 .. Len(lines)
  BY <1>6
<1>10. \A i \in 1 .. k : \A r \in 1 .. ms[i].rows : \E j \in 1 .. Len(lines) : lines[j] = <<ms[i].id, r>>
  <2>1. \A i \in DOMAIN few : \A r \in 1 .. few[i].rows : \E j \in DOMAIN lines : lines[j] = <<few[i].id, r>>
    BY Zenon DEF LinesFit
  <2> SUFFICES ASSUME NEW i \in 1 .. k, NEW r \in 1 .. ms[i].rows
               PROVE  \E j \in 1 .. Len(lines) : lines[j] = <<ms[i].id, r>>
    OBVIOUS
  <2>2. i \in DOMAIN few /\ few[i] = ms[i]
    BY <1>3
  <2>3. \E j \in DOMAIN lines : lines[j] = <<few[i].id, r>>
    BY <2>1, <2>2
  <2> QED
    BY <1>9, <2>2, <2>3
<1>11. \A j \in 1 .. Len(lines) : \E i \in 1 .. k : \E r \in 1 .. ms[i].rows : lines[j] = <<ms[i].id, r>>
  <2>1. \A j \in DOMAIN lines : \E i \in DOMAIN few : \E r \in 1 .. few[i].rows : lines[j] = <<few[i].id, r>>
    BY DEF LinesFit
  <2> QED
    BY <1>3, <1>9, <2>1
<1>12. ASSUME NEW j \in DOMAIN joined
       PROVE  \E i \in DOMAIN many : \E r \in 1 .. many[i].rows : joined[j] = <<many[i].id, r>>
  <2>1. CASE j \in 1 .. Len(lines)
    <3>1. PICK i \in 1 .. k : \E r \in 1 .. ms[i].rows : lines[j] = <<ms[i].id, r>>
      BY <1>11, <2>1
    <3>2. i \in DOMAIN many /\ many[i] = ms[i]
      BY <1>3
    <3> QED
      BY <1>8, <2>1, <3>1, <3>2
  <2>2. CASE j \in Len(lines) + 1 .. Len(lines) + rows
    <3>1. j - Len(lines) \in 1 .. rows /\ joined[j] = <<m.id, j - Len(lines)>>
      BY <1>4, <1>7, <1>8, <2>2
    <3> QED
      BY <1>2, <1>3, <3>1 DEF rows
  <2>3. j \in 1 .. Len(lines) \/ j \in Len(lines) + 1 .. Len(lines) + rows
    BY <1>4, <1>7, <1>8, <1>12
  <2> QED
    BY <2>1, <2>2, <2>3
<1>13. ASSUME NEW i \in DOMAIN many, NEW r \in 1 .. many[i].rows
       PROVE  \E j \in DOMAIN joined : joined[j] = <<many[i].id, r>>
  <2>1. CASE i \in 1 .. k
    <3>1. r \in 1 .. ms[i].rows /\ many[i] = ms[i]
      BY <1>3, <1>13, <2>1
    <3>2. PICK j \in 1 .. Len(lines) : lines[j] = <<ms[i].id, r>>
      BY <1>10, <2>1, <3>1
    <3>3. j \in DOMAIN joined
      BY <1>4, <1>7, <1>8, <3>2
    <3> QED
      BY <1>8, <3>1, <3>2, <3>3
  <2>2. CASE i = k + 1
    <3>1. Len(lines) + r \in Len(lines) + 1 .. Len(lines) + rows /\ (Len(lines) + r) - Len(lines) = r
      BY <1>3, <1>4, <1>7, <1>13, <2>2 DEF rows
    <3>2. Len(lines) + r \in DOMAIN joined
      BY <1>4, <1>7, <1>8, <3>1
    <3> QED
      BY <1>3, <1>8, <2>2, <3>1, <3>2
  <2> QED
    BY <1>3, <2>1, <2>2
<1>14. ASSUME NEW i \in DOMAIN joined, NEW j \in DOMAIN joined, joined[i] = joined[j]
       PROVE  i = j
  <2>1. \A l \in 1 .. Len(lines) : \A n \in Len(lines) + 1 .. Len(lines) + rows : joined[l] # joined[n]
    BY <1>4, <1>8, <1>11
  <2>2. CASE i \in 1 .. Len(lines) /\ j \in 1 .. Len(lines)
    BY <1>8, <1>9, <1>14, <2>2 DEF LinesFit
  <2>3. CASE i \in Len(lines) + 1 .. Len(lines) + rows /\ j \in Len(lines) + 1 .. Len(lines) + rows
    <3>1. i - Len(lines) = j - Len(lines)
      BY <1>8, <1>14, <2>3
    <3> QED
      BY <1>4, <1>7, <2>3, <3>1
  <2> QED
    BY <1>4, <1>7, <1>8, <1>14, <2>1, <2>2, <2>3
<1>15. joined[1] = <<many[1].id, 1>>
  <2>1. CASE lines = <<>>
    <3>1. k = 0
      <4> SUFFICES ASSUME k # 0 PROVE FALSE
        OBVIOUS
      <4>1. 1 \in 1 .. k /\ 1 \in 1 .. ms[1].rows
        BY <1>2, <1>1 DEF IsChat
      <4>2. \E j \in 1 .. Len(lines) : lines[j] = <<ms[1].id, 1>>
        BY <1>10, <4>1
      <4> QED
        BY <2>1, <4>2
    <3>2. Len(lines) = 0 /\ 1 \in Len(lines) + 1 .. Len(lines) + rows
      BY <1>4, <2>1
    <3> QED
      BY <1>3, <1>8, <3>1, <3>2
  <2>2. CASE lines # <<>>
    <3>1. 1 \in 1 .. Len(lines)
      BY <1>6, <1>7, <2>2
    <3>2. 1 \in 1 .. k
      BY <1>11, <3>1
    <3>3. lines[1] = <<few[1].id, 1>>
      BY <2>2 DEF LinesFit
    <3> QED
      BY <1>3, <1>8, <3>1, <3>2, <3>3
  <2> QED
    BY <2>1, <2>2
<1>16. C!AddLines(lines, m) = joined
  BY DEF C!AddLines, joined, more
<1>17. LinesFit(joined, many)
  BY <1>8, <1>12, <1>13, <1>14, <1>15 DEF LinesFit
<1> QED
  BY <1>16, <1>17 DEF many

\* All lines
LEMMA LinesOfAll ==
    ASSUME NEW top \in Nat, IsChat(c_Messages, top)
    PROVE  LinesFit(C!Lines, c_Messages)
<1> DEFINE ms == c_Messages
           n == Len(ms)
<1>1. C!Lines = LinesAdded!FoldLeft(AddLines, <<>>, ms)
  BY DEF C!Lines, C!FoldLeft, C!MapThenFoldSet, C!Max, LinesAdded!FoldLeft, LinesAdded!MapThenFoldSet,
         LinesAdded!Max, AddLines
<1>2. PICK set : ms \in Seq(set)
  BY DEF IsChat
<1>3. n \in Nat /\ DOMAIN ms = 1 .. n /\ IsChat(ms, top)
  BY <1>2
<1>4. SubSeq(ms, 1, n) = ms
  BY <1>2, SubSeqFull
<1>5. LinesFit(<<>>, SubSeq(ms, 1, 0))
  <2>1. SubSeq(ms, 1, 0) = <<>>
    BY SubSeqEmpty
  <2>2. DOMAIN SubSeq(ms, 1, 0) = {} /\ <<>> \in Seq({})
    BY <2>1
  <2> QED
    BY <2>2 DEF LinesFit
<1> HIDE DEF ms, n
<1>6. PICK after : LinesAdded!StepByStep(after, n, <<>>, ms) /\ LinesAdded!FoldLeft(AddLines, <<>>, ms) = after[n]
  BY <1>3, LinesAdded!FoldStepByStep
<1> DEFINE good == {k \in 0 .. n : LinesFit(after[k], SubSeq(ms, 1, k))}
<1>7. 0 \in good
  BY <1>3, <1>5, <1>6 DEF LinesAdded!StepByStep
<1>8. ASSUME NEW k \in good, k < n PROVE k + 1 \in good
  <2>1. k \in 0 .. n /\ k \in Nat /\ k + 1 \in DOMAIN ms /\ k + 1 \in 0 .. n
    BY <1>3, <1>8
  <2>2. LinesFit(after[k], SubSeq(ms, 1, k))
    OBVIOUS
  <2>3. after[k + 1] = C!AddLines(after[k], ms[k + 1])
    BY <1>6, <1>8, <2>1 DEF LinesAdded!StepByStep, AddLines
  <2>4. LinesFit(after[k + 1], SubSeq(ms, 1, k + 1))
    BY <1>3, <2>1, <2>2, <2>3, LinesOfOneMore
  <2> QED
    BY <2>1, <2>4
<1> HIDE DEF good
<1>9. n \in good
  BY <1>3, <1>7, <1>8, LinesAdded!UpTo
<1>10. LinesFit(after[n], SubSeq(ms, 1, n))
  BY <1>9 DEF good
<1> QED
  BY <1>1, <1>4, <1>6, <1>10 DEF ms

-----------------------------------------------------------------------------
(* Where messages go                                                       *)

\* The first message of the lines is gone, or nothing from it on is.
Held(ms, lines) ==
    \/ \A i \in DOMAIN ms : ms[i].id # lines[1][1]
    \/ \E p \in DOMAIN ms :
         /\ ms[p].id = lines[1][1]
         /\ \A j \in DOMAIN lines : \E q \in DOMAIN ms :
              p <= q /\ ms[q].id = lines[j][1] /\ lines[j][2] <= ms[q].rows

\* Messages move to other places of a sequence in their order, to before its first one if
\* they are cut away; one more may come, with a new number.
Moves(ms, new, to, top) ==
    /\ \E set : new \in Seq(set)
    /\ \A i \in DOMAIN ms : to[i] \in Int
    /\ \A i, j \in DOMAIN ms : i <= j => to[i] <= to[j]
    /\ \A i \in DOMAIN ms : to[i] >= 1 =>
         /\ to[i] \in DOMAIN new /\ new[to[i]].id = ms[i].id
         /\ ms[i].rows <= new[to[i]].rows
    /\ \A k \in DOMAIN new : /\ new[k].rows \in {1, 2}
                             /\ new[k].id = top \/ \E i \in DOMAIN ms : to[i] = k
    /\ \A k, l \in DOMAIN new : new[k].id = top /\ new[l].id = top => k = l

LEMMA MovesKeep ==
    ASSUME NEW top \in Nat, NEW ms, IsChat(ms, top), NEW new, NEW to, NEW lines,
           Moves(ms, new, to, top + 1), \A j \in DOMAIN lines : lines[j][2] \in Nat
    PROVE  /\ IsChat(new, top + 1)
           /\ (\A k \in DOMAIN new : new[k].id # top + 1) => IsChat(new, top)
           /\ Held(ms, lines) /\ lines[1][1] \in 1 .. top => Held(new, lines)
<1>1. \A k \in DOMAIN new : new[k].id = top + 1 \/ \E i \in DOMAIN ms : to[i] = k /\ new[k].id = ms[i].id /\ ms[i].id \in 1 .. top
  <2> SUFFICES ASSUME NEW k \in DOMAIN new, new[k].id # top + 1
               PROVE  \E i \in DOMAIN ms : to[i] = k /\ new[k].id = ms[i].id /\ ms[i].id \in 1 .. top
    OBVIOUS
  <2>1. PICK i \in DOMAIN ms : to[i] = k
    BY DEF Moves
  <2>2. k \in Nat /\ k >= 1
    BY DEF Moves
  <2> QED
    BY <2>1, <2>2 DEF Moves, IsChat
<1>2. \A i, j \in DOMAIN ms : ms[i].id = ms[j].id => i = j
  BY DEF IsChat
<1>3. IsChat(new, top + 1)
  <2>1. \A k \in DOMAIN new : new[k].id \in 1 .. top + 1 /\ new[k].rows \in {1, 2}
    BY <1>1 DEF Moves
  <2>2. ASSUME NEW k \in DOMAIN new, NEW l \in DOMAIN new, new[k].id = new[l].id
        PROVE  k = l
    <3>1. CASE new[k].id = top + 1
      BY <2>2, <3>1 DEF Moves
    <3>2. CASE new[k].id # top + 1
      BY <1>1, <1>2, <2>2, <3>2
    <3> QED
      BY <3>1, <3>2
  <2> QED
    BY <2>1, <2>2 DEF IsChat, Moves
<1>4. ASSUME Held(ms, lines), lines[1][1] \in 1 .. top PROVE Held(new, lines)
  <2> DEFINE f == lines[1][1]
  <2>1. f \in 1 .. top /\ f # top + 1
    BY <1>4
  <2>2. CASE \A i \in DOMAIN ms : ms[i].id # f
    <3>1. \A k \in DOMAIN new : new[k].id # f
      BY <1>1, <2>1, <2>2
    <3> QED
      BY <3>1 DEF Held
  <2>3. ASSUME NEW p \in DOMAIN ms, ms[p].id = f,
               \A j \in DOMAIN lines : \E q \in DOMAIN ms :
                 p <= q /\ ms[q].id = lines[j][1] /\ lines[j][2] <= ms[q].rows
        PROVE  Held(new, lines)
    <3>1. CASE to[p] >= 1
      <4>1. to[p] \in DOMAIN new /\ new[to[p]].id = f
        BY <2>3, <3>1 DEF Moves
      <4>2. ASSUME NEW j \in DOMAIN lines
            PROVE  \E k \in DOMAIN new : to[p] <= k /\ new[k].id = lines[j][1] /\ lines[j][2] <= new[k].rows
        <5>1. PICK q \in DOMAIN ms : p <= q /\ ms[q].id = lines[j][1] /\ lines[j][2] <= ms[q].rows
          BY <2>3
        <5>2. to[p] \in Int /\ to[q] \in Int /\ to[p] <= to[q]
          BY <5>1 DEF Moves
        <5>3. to[q] >= 1
          BY <3>1, <5>2
        <5>4. to[q] \in DOMAIN new /\ new[to[q]].id = ms[q].id /\ ms[q].rows <= new[to[q]].rows
          BY <5>3 DEF Moves
        <5>5. ms[q].rows \in {1, 2} /\ new[to[q]].rows \in {1, 2} /\ lines[j][2] \in Nat
          BY <5>4 DEF IsChat, Moves
        <5> QED
          BY <5>1, <5>2, <5>4, <5>5
      <4> QED
        BY <4>1, <4>2 DEF Held
    <3>2. CASE ~(to[p] >= 1)
      <4>1. ASSUME NEW k \in DOMAIN new, new[k].id = f PROVE FALSE
        <5>1. PICK i \in DOMAIN ms : to[i] = k /\ new[k].id = ms[i].id
          BY <1>1, <2>1, <4>1
        <5>2. i = p
          BY <1>2, <2>3, <4>1, <5>1
        <5>3. k >= 1
          BY DEF Moves
        <5> QED
          BY <3>2, <5>1, <5>2, <5>3
      <4> QED
        BY <4>1 DEF Held
    <3> QED
      BY <3>1, <3>2
  <2> QED
    BY <1>4, <2>2, <2>3 DEF Held
<1>5. ASSUME \A k \in DOMAIN new : new[k].id # top + 1 PROVE IsChat(new, top)
  <2>1. \A k \in DOMAIN new : new[k].id \in 1 .. top
    BY <1>1, <1>5
  <2> QED
    BY <1>3, <2>1 DEF IsChat
<1> QED
  BY <1>3, <1>4, <1>5

\* Nothing moves in a sequence that is appended to.
LEMMA AppendMoves ==
    ASSUME NEW top \in Nat, NEW ms, IsChat(ms, top), NEW m, m.id = top + 1, m.rows \in {1, 2}
    PROVE  \E to : Moves(ms, Append(ms, m), to, top + 1)
<1>1. PICK set : ms \in Seq(set)
  BY DEF IsChat
<1> DEFINE new == Append(ms, m)
           to == [i \in DOMAIN ms |-> i]
<1>2. /\ new \in Seq(set \union {m}) /\ DOMAIN ms = 1 .. Len(ms) /\ Len(ms) \in Nat
      /\ DOMAIN new = 1 .. Len(ms) + 1 /\ new[Len(ms) + 1] = m
      /\ \A i \in 1 .. Len(ms) : new[i] = ms[i]
  <2>1. ms \in Seq(set \union {m}) /\ m \in set \union {m}
    BY <1>1
  <2> QED
    BY <2>1, AppendProperties
<1> HIDE DEF new
<1>3. \A i \in DOMAIN ms : ms[i].id # top + 1 /\ ms[i].rows \in {1, 2}
  BY DEF IsChat
<1>4. Moves(ms, new, to, top + 1)
  <2>1. \A k \in DOMAIN new : k \in DOMAIN ms \/ k = Len(ms) + 1
    BY <1>2
  <2> QED
    BY <1>2, <1>3, <2>1 DEF Moves
<1> QED
  BY <1>4 DEF new

\* A message that is put in after x others moves those that follow it by one place.
LEMMA InsertMoves ==
    ASSUME NEW top \in Nat, NEW ms, IsChat(ms, top), NEW m, m.id = top + 1, m.rows \in {1, 2},
           NEW x \in 0 .. Len(ms)
    PROVE  \E to : Moves(ms, C!InsertAt(ms, x + 1, m), to, top + 1)
<1>1. PICK set : ms \in Seq(set)
  BY DEF IsChat
<1> DEFINE sorts == set \union {m}
           before == SubSeq(ms, 1, x)
           after == SubSeq(ms, x + 1, Len(ms))
           new == C!InsertAt(ms, x + 1, m)
           to == [i \in DOMAIN ms |-> IF i <= x THEN i ELSE i + 1]
<1>2. DOMAIN ms = 1 .. Len(ms) /\ Len(ms) \in Nat /\ x \in Nat
  BY <1>1
<1>3. before \in Seq(sorts) /\ Len(before) = x /\ \A i \in 1 .. x : before[i] = ms[i]
  BY <1>1, <1>2, SubSeqProperties
<1>4. after \in Seq(sorts) /\ Len(after) = Len(ms) - x /\ \A i \in 1 .. Len(ms) - x : after[i] = ms[i + x]
  <2>1. \A i \in x + 1 .. Len(ms) : ms[i] \in sorts
    BY <1>1, <1>2
  <2>2. x + 1 \in Nat /\ Len(ms) \in Nat /\ x + 1 <= Len(ms) + 1
    BY <1>2
  <2>3. Len(ms) - (x + 1) + 1 = Len(ms) - x
    BY <1>2
  <2>4. \A i \in 1 .. Len(ms) - x : x + 1 + i - 1 = i + x
    BY <1>2
  <2>5. ms \in Seq(sorts)
    BY <1>1
  <2> HIDE DEF sorts
  <2>6. after \in Seq(sorts)
    BY <2>1, <2>2, <2>5
  <2>7. Len(after) = Len(ms) - x
    <3>1. Len(after) = IF x + 1 <= Len(ms) THEN Len(ms) - (x + 1) + 1 ELSE 0
      BY <2>5
    <3> HIDE DEF after
    <3>2. CASE x + 1 <= Len(ms)
      BY <2>3, <3>1, <3>2
    <3>3. CASE ~(x + 1 <= Len(ms))
      <4>1. PICK l \in Nat : l = Len(ms)
        BY <1>2
      <4>2. x \in 0 .. l /\ ~(x + 1 <= l)
        BY <3>3, <4>1
      <4>3. l - x = 0
        BY <4>2
      <4> QED
        BY <3>1, <3>3, <4>1, <4>3
    <3> QED
      BY <3>2, <3>3
  <2>8. \A i \in 1 .. Len(ms) - x : after[i] = ms[x + 1 + i - 1]
    BY <1>2, <2>5
  <2> QED
    BY <2>4, <2>6, <2>7, <2>8
<1>5. new = before \o <<m>> \o after
  <2>1. (x + 1) - 1 = x
    BY <1>2
  <2> QED
    BY <2>1 DEF C!InsertAt
<1>6. <<m>> \in Seq(sorts) /\ Len(<<m>>) = 1 /\ <<m>>[1] = m
  OBVIOUS
<1> HIDE DEF before, after, new, sorts
<1>7. /\ new \in Seq(sorts) /\ DOMAIN new = 1 .. Len(ms) + 1
      /\ \A i \in 1 .. x : new[i] = ms[i]
      /\ new[x + 1] = m
      /\ \A i \in x + 1 .. Len(ms) : new[i + 1] = ms[i]
  <2> DEFINE head == before \o <<m>>
  <2>1. head \in Seq(sorts) /\ Len(head) = x + 1
    BY <1>2, <1>3, <1>6
  <2>2. \A i \in 1 .. x : head[i] = before[i]
    BY <1>2, <1>3, <1>6
  <2>3. head[x + 1] = m
    BY <1>2, <1>3, <1>6
  <2>4. new = head \o after
    BY <1>5
  <2> HIDE DEF head
  <2>5. new \in Seq(sorts) /\ Len(new) = Len(ms) + 1
    <3>1. new \in Seq(sorts) /\ Len(new) = Len(head) + Len(after)
      BY <1>4, <2>1, <2>4, ConcatProperties
    <3>2. (x + 1) + (Len(ms) - x) = Len(ms) + 1
      BY <1>2
    <3> QED
      BY <1>4, <2>1, <3>1, <3>2
  <2>6. \A i \in 1 .. x + 1 : new[i] = head[i]
    BY <1>2, <1>4, <2>1, <2>4
  <2>7. \A i \in x + 2 .. Len(ms) + 1 : new[i] = after[i - (x + 1)]
    BY <1>2, <1>4, <2>1, <2>4
  <2>8. DOMAIN new = 1 .. Len(ms) + 1
    BY <2>5
  <2>9. \A i \in 1 .. x : new[i] = ms[i]
    BY <1>2, <1>3, <2>2, <2>6
  <2>10. new[x + 1] = m
    BY <1>2, <2>3, <2>6
  <2>11. ASSUME NEW i \in x + 1 .. Len(ms) PROVE new[i + 1] = ms[i]
    <3>1. i + 1 \in x + 2 .. Len(ms) + 1 /\ (i + 1) - (x + 1) = i - x /\ i - x \in 1 .. Len(ms) - x /\ (i - x) + x = i
      BY <1>2
    <3> QED
      BY <1>4, <2>7, <3>1
  <2> QED
    BY <2>5, <2>8, <2>9, <2>10, <2>11
<1>8. \A i \in DOMAIN ms : ms[i].id # top + 1 /\ ms[i].rows \in {1, 2}
  BY DEF IsChat
<1>9. Moves(ms, new, to, top + 1)
  <2>1. \A i \in DOMAIN ms : to[i] \in DOMAIN new /\ new[to[i]] = ms[i]
    BY <1>2, <1>7
  <2>2. \A i, j \in DOMAIN ms : i <= j => to[i] <= to[j]
    BY <1>2
  <2>3. ASSUME NEW k \in DOMAIN new, k # x + 1
        PROVE  \E i \in DOMAIN ms : to[i] = k
    <3>1. CASE k <= x
      BY <1>2, <1>7, <2>3, <3>1
    <3>2. CASE k > x + 1
      <4>1. k - 1 \in DOMAIN ms /\ to[k - 1] = k
        BY <1>2, <1>7, <2>3, <3>2
      <4> QED
        BY <4>1
    <3> QED
      BY <1>2, <1>7, <2>3, <3>1, <3>2
  <2>4. \A k \in DOMAIN new : new[k].id = top + 1 => k = x + 1
    BY <1>8, <2>1, <2>3
  <2>5. \A k \in DOMAIN new : /\ new[k].rows \in {1, 2}
                              /\ new[k].id = top + 1 \/ \E i \in DOMAIN ms : to[i] = k
    BY <1>7, <1>8, <2>1, <2>3
  <2>6. \A i \in DOMAIN ms : to[i] \in Int
    BY <1>2
  <2> HIDE DEF to
  <2>7. \E s : new \in Seq(s)
    BY <1>7
  <2>8. \A i \in DOMAIN ms : to[i] >= 1 =>
          /\ to[i] \in DOMAIN new /\ new[to[i]].id = ms[i].id
          /\ ms[i].rows <= new[to[i]].rows
    BY <1>8, <2>1
  <2>9. \A k, l \in DOMAIN new : new[k].id = top + 1 /\ new[l].id = top + 1 => k = l
    BY <2>4
  <2> QED
    BY <2>2, <2>5, <2>6, <2>7, <2>8, <2>9 DEF Moves
<1> QED
  BY <1>9 DEF new

\* A cut moves messages towards the first place and beyond.
LEMMA CutMoves ==
    ASSUME C!ChatPanelAssumption, NEW top \in Nat, NEW ms, IsChat(ms, top)
    PROVE  /\ \E to : Moves(ms, C!Cut(ms), to, top + 1)
           /\ \A k \in DOMAIN C!Cut(ms) : C!Cut(ms)[k].id # top + 1
<1>1. PICK set : ms \in Seq(set)
  BY DEF IsChat
<1>2. DOMAIN ms = 1 .. Len(ms) /\ Len(ms) \in Nat
  BY <1>1
<1>3. \A i \in DOMAIN ms : ms[i].id # top + 1 /\ ms[i].rows \in {1, 2}
  BY DEF IsChat
<1> DEFINE cut == C!Cut(ms)
           d == IF Len(ms) > c_MaxShown THEN Len(ms) - c_Kept ELSE 0
           to == [i \in DOMAIN ms |-> i - d]
<1>4. /\ cut \in Seq(set) /\ DOMAIN cut = 1 .. Len(ms) - d /\ d \in Nat /\ d <= Len(ms)
      /\ \A i \in 1 .. Len(ms) - d : cut[i] = ms[i + d]
  <2>1. CASE Len(ms) > c_MaxShown
    <3>1. d = Len(ms) - c_Kept /\ d \in Nat /\ d <= Len(ms) /\ c_Kept \in Nat
      BY <1>2, <2>1 DEF C!ChatPanelAssumption
    <3>2. cut = SubSeq(ms, d + 1, Len(ms))
      BY <2>1, <3>1 DEF C!Cut
    <3> HIDE DEF d, cut
    <3>3. \A i \in d + 1 .. Len(ms) : ms[i] \in set
      <4> SUFFICES ASSUME NEW i \in d + 1 .. Len(ms) PROVE i \in 1 .. Len(ms)
        BY <1>1
      <4> QED
        BY <1>2, <3>1
    <3> QED
      BY <1>2, <3>1, <3>2, <3>3, SubSeqProperties
  <2>2. CASE ~(Len(ms) > c_MaxShown)
    BY <1>1, <1>2, <2>2 DEF C!Cut
  <2> QED
    BY <2>1, <2>2
<1> HIDE DEF cut, d
<1>5. \A k \in DOMAIN cut : k + d \in DOMAIN ms /\ to[k + d] = k /\ cut[k] = ms[k + d]
  <2> SUFFICES ASSUME NEW k \in 1 .. Len(ms) - d
               PROVE  k + d \in 1 .. Len(ms) /\ (k + d) - d = k /\ cut[k] = ms[k + d]
    BY <1>2, <1>4
  <2> QED
    BY <1>2, <1>4
<1>6. \A i \in DOMAIN ms : to[i] >= 1 => to[i] \in DOMAIN cut /\ cut[to[i]] = ms[i]
  BY <1>2, <1>4
<1>7. \A i, j \in DOMAIN ms : to[i] \in Int /\ (i <= j => to[i] <= to[j])
  BY <1>2, <1>4
<1> HIDE DEF to
<1>8. Moves(ms, cut, to, top + 1)
  <2>1. \E s : cut \in Seq(s)
    BY <1>4
  <2>2. \A i \in DOMAIN ms : to[i] >= 1 =>
          /\ to[i] \in DOMAIN cut /\ cut[to[i]].id = ms[i].id
          /\ ms[i].rows <= cut[to[i]].rows
    BY <1>3, <1>6
  <2>3. \A k \in DOMAIN cut : /\ cut[k].rows \in {1, 2}
                              /\ cut[k].id = top + 1 \/ \E i \in DOMAIN ms : to[i] = k
    BY <1>3, <1>5
  <2>4. \A k, l \in DOMAIN cut : cut[k].id = top + 1 /\ cut[l].id = top + 1 => k = l
    BY <1>3, <1>5
  <2> QED
    BY <1>7, <2>1, <2>2, <2>3, <2>4 DEF Moves
<1>9. \A k \in DOMAIN cut : cut[k].id # top + 1
  BY <1>3, <1>5
<1> QED
  BY <1>8, <1>9 DEF cut

\* A sequence with an entry replaced is a sequence.
LEMMA SameDomainIsSeq ==
    ASSUME NEW n \in Nat, NEW f, NEW set, f \in [1 .. n -> set]
    PROVE  f \in Seq(set)
OBVIOUS

LEMMA ReplacedIsSeq ==
    ASSUME NEW set, NEW ms \in Seq(set), NEW x, NEW e
    PROVE  [ms EXCEPT ![x] = e] \in Seq(set \union {e})
<1>1. [ms EXCEPT ![x] = e] \in [1 .. Len(ms) -> set \union {e}]
  <2>1. DOMAIN ms = 1 .. Len(ms) /\ \A i \in 1 .. Len(ms) : ms[i] \in set
    OBVIOUS
  <2> DEFINE new == [i \in 1 .. Len(ms) |-> IF i = x THEN e ELSE ms[i]]
  <2>2. [ms EXCEPT ![x] = e] = new
    BY <2>1
  <2>3. new \in [1 .. Len(ms) -> set \union {e}]
    BY <2>1
  <2> QED
    BY <2>2, <2>3
<1>2. Len(ms) \in Nat
  OBVIOUS
<1> QED
  BY <1>1, <1>2, SameDomainIsSeq

\* SetMediaPreview
Longer(ms, x) == [ms EXCEPT ![x].rows = 2, ![x].picture = FALSE]

\* A picture that is decoded makes its message longer, where it is.
LEMMA PreviewMoves ==
    ASSUME NEW top \in Nat, NEW ms, IsChat(ms, top), NEW x \in DOMAIN ms, NEW new,
           new = Longer(ms, x)
    PROVE  /\ \E to : Moves(ms, new, to, top + 1)
           /\ \A k \in DOMAIN new : new[k].id # top + 1
<1>1. PICK set : ms \in Seq(set)
  BY DEF IsChat
<1> DEFINE to == [i \in DOMAIN ms |-> i]
<1>2. \A i \in DOMAIN ms : ms[i].id # top + 1 /\ ms[i].rows \in {1, 2}
  BY DEF IsChat
<1>3. DOMAIN ms = 1 .. Len(ms) /\ Len(ms) \in Nat
  BY <1>1
<1>4. /\ DOMAIN new = DOMAIN ms
      /\ \A i \in DOMAIN ms : new[i].id = ms[i].id /\ new[i].rows = IF i = x THEN 2 ELSE ms[i].rows
  BY DEF Longer
<1>5. \E s : new \in Seq(s)
  <2> DEFINE half == [ms EXCEPT ![x].rows = 2]
             one == [ms[x] EXCEPT !.rows = 2]
             two == [half[x] EXCEPT !.picture = FALSE]
  <2>1. half \in Seq(set \union {one})
    BY <1>1, ReplacedIsSeq
  <2> HIDE DEF half
  <2>2. [half EXCEPT ![x] = two] \in Seq((set \union {one}) \union {two})
    BY <2>1, ReplacedIsSeq
  <2>3. new = [half EXCEPT ![x] = two]
    BY DEF half, Longer
  <2> HIDE DEF one, two
  <2> QED
    BY <2>2, <2>3
<1> HIDE DEF to
<1>6. \A i \in DOMAIN ms : to[i] = i /\ to[i] \in Int
  BY <1>3 DEF to
<1>7. Moves(ms, new, to, top + 1)
  <2>1. \A i, j \in DOMAIN ms : i <= j => to[i] <= to[j]
    BY <1>6
  <2>2. \A i \in DOMAIN ms : to[i] >= 1 =>
          /\ to[i] \in DOMAIN new /\ new[to[i]].id = ms[i].id
          /\ ms[i].rows <= new[to[i]].rows
    BY <1>2, <1>4, <1>6
  <2>3. \A k \in DOMAIN new : /\ new[k].rows \in {1, 2}
                              /\ new[k].id = top + 1 \/ \E i \in DOMAIN ms : to[i] = k
    BY <1>2, <1>4, <1>6
  <2>4. \A k, l \in DOMAIN new : new[k].id = top + 1 /\ new[l].id = top + 1 => k = l
    BY <1>2, <1>4
  <2> QED
    BY <1>5, <1>6, <2>1, <2>2, <2>3, <2>4 DEF Moves
<1> QED
  BY <1>2, <1>4, <1>7

-----------------------------------------------------------------------------
(* Where a message of the history goes                                     *)

\* The binary search, one step after another
Halving(search, ms, at, piece) ==
    LET lo == piece[1]  hi == piece[2]  h == (lo + hi) \div 2
    IN  IF lo >= hi THEN lo
        ELSE IF ms[h + 1].at > at THEN search[<<lo, h>>] ELSE search[<<h + 1, hi>>]

\* A step leaves a piece that is shorter, or ends.
LEMMA HalvingIsShorter ==
    ASSUME NEW n \in Nat, NEW ms, NEW at, NEW piece \in (0 .. n) \X (0 .. n), NEW f, NEW g, NEW k \in Nat,
           piece[2] - piece[1] <= k + 1,
           \A q \in (0 .. n) \X (0 .. n) : q[2] - q[1] <= k => f[q] = g[q]
    PROVE  Halving(f, ms, at, piece) = Halving(g, ms, at, piece)
<1>1. PICK lo \in 0 .. n, hi \in 0 .. n : piece = <<lo, hi>>
  OBVIOUS
<1> DEFINE h == (lo + hi) \div 2
<1>2. CASE lo >= hi
  BY <1>1, <1>2 DEF Halving
<1>3. CASE lo < hi
  <2>1. h \in lo .. hi /\ h < hi /\ h + 1 \in lo .. hi
    BY <1>3
  <2>2. /\ <<lo, h>> \in (0 .. n) \X (0 .. n) /\ h - lo <= k
        /\ <<h + 1, hi>> \in (0 .. n) \X (0 .. n) /\ hi - (h + 1) <= k
    BY <1>1, <2>1
  <2>3. f[<<lo, h>>] = g[<<lo, h>>] /\ f[<<h + 1, hi>>] = g[<<h + 1, hi>>]
    BY <2>2
  <2> QED
    BY <1>1, <1>3, <2>3 DEF Halving
<1> QED
  BY <1>1, <1>2, <1>3

\* The search ends at a place between the messages, in whatever order they stand.
LEMMA FirstAfterIsAPlace ==
    ASSUME NEW ms, NEW at, Len(ms) \in Nat
    PROVE  C!FirstAfter(ms, at) \in 0 .. Len(ms)
<1> DEFINE n == Len(ms)
           Parts == (0 .. n) \X (0 .. n)
           Good(k) == \E f : \A p \in Parts : p[2] - p[1] <= k => f[p] = Halving(f, ms, at, p)
           good == {k \in 0 .. n : Good(k)}
<1> HIDE DEF n
<1>1. n \in Nat
  BY DEF n
<1>2. 0 \in good
  <2> DEFINE f == [p \in Parts |-> p[1]]
  <2>1. \A p \in Parts : p[2] - p[1] <= 0 => f[p] = Halving(f, ms, at, p)
    BY <1>1 DEF Halving
  <2> HIDE DEF f
  <2>2. Good(0)
    BY <2>1
  <2> QED
    BY <1>1, <2>2
<1>3. ASSUME NEW k \in good, k < n PROVE k + 1 \in good
  <2>1. k \in Nat /\ k + 1 \in 0 .. n /\ Good(k)
    BY <1>1, <1>3
  <2>2. PICK f : \A p \in Parts : p[2] - p[1] <= k => f[p] = Halving(f, ms, at, p)
    BY <2>1
  <2> DEFINE g == [p \in Parts |-> Halving(f, ms, at, p)]
  <2>3. \A q \in Parts : q[2] - q[1] <= k => f[q] = g[q]
    BY <2>2
  <2>4. \A p \in Parts : g[p] = Halving(f, ms, at, p)
    OBVIOUS
  <2> HIDE DEF g
  <2>5. \A p \in Parts : p[2] - p[1] <= k + 1 => g[p] = Halving(g, ms, at, p)
    <3> SUFFICES ASSUME NEW p \in Parts, p[2] - p[1] <= k + 1
                 PROVE  g[p] = Halving(g, ms, at, p)
      OBVIOUS
    <3>1. Halving(f, ms, at, p) = Halving(g, ms, at, p)
      BY <1>1, <2>1, <2>3, HalvingIsShorter
    <3> QED
      BY <2>4, <3>1
  <2>6. Good(k + 1)
    BY <2>5
  <2> HIDE DEF Good
  <2> QED
    BY <2>1, <2>6
<1> HIDE DEF good
<1>4. n \in good
  BY <1>1, <1>2, <1>3, LinesAdded!UpTo
<1>5. PICK f : \A p \in Parts : p[2] - p[1] <= n => f[p] = Halving(f, ms, at, p)
  BY <1>4 DEF good
<1> DEFINE g == [p \in Parts |-> f[p]]
<1>6. g = [p \in Parts |-> Halving(g, ms, at, p)]
  <2>1. \A p \in Parts : f[p] = Halving(f, ms, at, p)
    <3> SUFFICES ASSUME NEW p \in Parts PROVE p[2] - p[1] <= n
      BY <1>5
    <3> QED
      BY <1>1
  <2>2. \A p \in Parts : g[p] = f[p]
    OBVIOUS
  <2> HIDE DEF g
  <2>3. \A p \in Parts : Halving(f, ms, at, p) = Halving(g, ms, at, p)
    <3> SUFFICES ASSUME NEW p \in Parts PROVE Halving(f, ms, at, p) = Halving(g, ms, at, p)
      OBVIOUS
    <3>1. p[2] - p[1] <= n + 1
      BY <1>1
    <3> QED
      BY <1>1, <2>2, <3>1, HalvingIsShorter
  <2> QED
    BY <2>1, <2>3 DEF g
<1> DEFINE search == CHOOSE s : s = [p \in Parts |-> Halving(s, ms, at, p)]
<1> HIDE DEF g
<1>7. search = [p \in Parts |-> Halving(search, ms, at, p)]
  BY <1>6
<1>8. C!FirstAfter(ms, at) = search[<<0, n>>]
  BY DEF C!FirstAfter, Halving, n
<1> HIDE DEF search
<1> DEFINE fits == {k \in 0 .. n : \A p \in Parts : p[2] - p[1] <= k => search[p] \in 0 .. n}
<1>9. 0 \in fits
  BY <1>1, <1>7 DEF Halving
<1>10. ASSUME NEW k \in fits, k < n PROVE k + 1 \in fits
  <2>1. k \in Nat /\ k + 1 \in 0 .. n /\ \A p \in Parts : p[2] - p[1] <= k => search[p] \in 0 .. n
    BY <1>1, <1>10
  <2> SUFFICES ASSUME NEW p \in Parts, p[2] - p[1] <= k + 1 PROVE search[p] \in 0 .. n
    BY <2>1
  <2>2. search[p] = Halving(search, ms, at, p)
    BY <1>7
  <2>3. PICK lo \in 0 .. n, hi \in 0 .. n : p = <<lo, hi>>
    OBVIOUS
  <2> DEFINE h == (lo + hi) \div 2
  <2>4. CASE lo >= hi
    BY <2>2, <2>3, <2>4 DEF Halving
  <2>5. CASE lo < hi
    <3>1. h \in lo .. hi /\ h < hi /\ h + 1 \in lo .. hi
      BY <1>1, <2>5
    <3>2. /\ <<lo, h>> \in Parts /\ h - lo <= k
          /\ <<h + 1, hi>> \in Parts /\ hi - (h + 1) <= k
      BY <1>1, <2>1, <2>3, <3>1
    <3>3. search[<<lo, h>>] \in 0 .. n /\ search[<<h + 1, hi>>] \in 0 .. n
      BY <2>1, <3>2
    <3> QED
      BY <2>2, <2>3, <2>5, <3>3 DEF Halving
  <2> QED
    BY <1>1, <2>3, <2>4, <2>5
<1> HIDE DEF fits
<1>11. n \in fits
  BY <1>1, <1>9, <1>10, LinesAdded!UpTo
<1>12. <<0, n>> \in Parts /\ <<0, n>>[2] - <<0, n>>[1] <= n
  BY <1>1
<1>13. search[<<0, n>>] \in 0 .. n
  BY <1>11, <1>12 DEF fits
<1> QED
  BY <1>8, <1>13 DEF n

-----------------------------------------------------------------------------
(* Frames                                                                  *)

\* Lines of messages, as they were when the chat was drawn
Old(lines, top) ==
    /\ \E set : lines \in Seq(set)
    /\ lines # <<>>
    /\ \A j \in DOMAIN lines : \E id \in 1 .. top : \E r \in {1, 2} : lines[j] = <<id, r>>
    /\ \A i, j \in DOMAIN lines : lines[i] = lines[j] => i = j

\* What is on screen while the user looks at older lines and touches nothing
Seen ==
    /\ c_drawn /\ Old(c_lastLines, c_said) /\ Held(c_Messages, c_lastLines)
    /\ c_chatLineCount = Len(c_lastLines)
    /\ c_ChatScrollOffset < Len(c_lastLines)
    /\ c_view[Len(c_view)] = c_lastLines[Len(c_lastLines) - c_ChatScrollOffset]

PanelInv ==
    /\ c_said \in Nat /\ IsChat(c_Messages, c_said)
    /\ {c_ChatScrollOffset, c_chatMaxScroll, c_chatLineCount, c_chatPageRows} \subseteq Nat
    /\ c_ChatHeight \in Nat \ {0}
    /\ c_ChatScrollOffset > 0 /\ ~c_touched /\ c_view # <<>> => Seen

LEMMA OldGrows ==
    ASSUME NEW top \in Nat, NEW lines, Old(lines, top)
    PROVE  /\ Old(lines, top + 1) /\ lines[1][1] \in 1 .. top
           /\ \A j \in DOMAIN lines : lines[j][2] \in Nat
<1>1. \A j \in DOMAIN lines : \E id \in 1 .. top : \E r \in {1, 2} : lines[j] = <<id, r>>
  BY DEF Old
<1>2. PICK set : lines \in Seq(set) /\ lines # <<>>
  BY DEF Old
<1>3. 1 \in DOMAIN lines
  BY <1>2
<1>4. lines[1][1] \in 1 .. top
  BY <1>1, <1>3
<1>5. \A j \in DOMAIN lines : lines[j][2] \in Nat
  BY <1>1
<1>6. \A j \in DOMAIN lines : \E id \in 1 .. top + 1 : \E r \in {1, 2} : lines[j] = <<id, r>>
  BY <1>1
<1> QED
  BY <1>4, <1>5, <1>6 DEF Old

\* A chat that is cut stays a chat, and old lines stay held.
LEMMA CutKeeps ==
    ASSUME C!ChatPanelAssumption, NEW top \in Nat, NEW ms, IsChat(ms, top)
    PROVE  /\ IsChat(C!Cut(ms), top)
           /\ \A lines : Old(lines, top) /\ Held(ms, lines) => Held(C!Cut(ms), lines)
<1> DEFINE cut == C!Cut(ms)
<1>1. PICK to : Moves(ms, cut, to, top + 1)
  BY CutMoves
<1>2. \A k \in DOMAIN cut : cut[k].id # top + 1
  BY CutMoves
<1> HIDE DEF cut
<1>3. IsChat(cut, top)
  <2>1. \A j \in DOMAIN <<>> : <<>>[j][2] \in Nat
    OBVIOUS
  <2> QED
    BY <1>1, <1>2, <2>1, MovesKeep
<1>4. ASSUME NEW lines, Old(lines, top), Held(ms, lines) PROVE Held(cut, lines)
  BY <1>1, <1>4, OldGrows, MovesKeep
<1> QED
  BY <1>3, <1>4 DEF cut

\* So does one that a message comes to.
LEMMA AppendKeeps ==
    ASSUME C!ChatPanelAssumption, NEW top \in Nat, NEW ms, IsChat(ms, top),
           NEW m, m.id = top + 1, m.rows \in {1, 2}
    PROVE  /\ IsChat(Append(ms, m), top + 1) /\ IsChat(C!Cut(Append(ms, m)), top + 1)
           /\ \A lines : Old(lines, top) /\ Held(ms, lines) => Held(C!Cut(Append(ms, m)), lines)
<1> DEFINE new == Append(ms, m)
<1>1. PICK to : Moves(ms, new, to, top + 1)
  BY AppendMoves
<1> HIDE DEF new
<1>2. IsChat(new, top + 1)
  <2>1. \A j \in DOMAIN <<>> : <<>>[j][2] \in Nat
    OBVIOUS
  <2> QED
    BY <1>1, <2>1, MovesKeep
<1>3. IsChat(C!Cut(new), top + 1)
  BY <1>2, CutKeeps
<1>4. ASSUME NEW lines, Old(lines, top), Held(ms, lines) PROVE Held(C!Cut(new), lines)
  <2>1. Held(new, lines) /\ Old(lines, top + 1)
    BY <1>1, <1>4, OldGrows, MovesKeep
  <2> QED
    BY <1>2, <2>1, CutKeeps
<1> QED
  BY <1>2, <1>3, <1>4 DEF new

LEMMA InsertKeeps ==
    ASSUME C!ChatPanelAssumption, NEW top \in Nat, NEW ms, IsChat(ms, top),
           NEW m, m.id = top + 1, m.rows \in {1, 2}, NEW x \in 0 .. Len(ms)
    PROVE  /\ IsChat(C!Cut(C!InsertAt(ms, x + 1, m)), top + 1)
           /\ \A lines : Old(lines, top) /\ Held(ms, lines) =>
                Held(C!Cut(C!InsertAt(ms, x + 1, m)), lines)
<1> DEFINE new == C!InsertAt(ms, x + 1, m)
<1>1. PICK to : Moves(ms, new, to, top + 1)
  BY InsertMoves
<1> HIDE DEF new
<1>2. IsChat(new, top + 1)
  <2>1. \A j \in DOMAIN <<>> : <<>>[j][2] \in Nat
    OBVIOUS
  <2> QED
    BY <1>1, <2>1, MovesKeep
<1>3. IsChat(C!Cut(new), top + 1)
  BY <1>2, CutKeeps
<1>4. ASSUME NEW lines, Old(lines, top), Held(ms, lines) PROVE Held(C!Cut(new), lines)
  <2>1. Held(new, lines) /\ Old(lines, top + 1)
    BY <1>1, <1>4, OldGrows, MovesKeep
  <2> QED
    BY <1>2, <2>1, CutKeeps
<1> QED
  BY <1>3, <1>4 DEF new

LEMMA PreviewKeeps ==
    ASSUME NEW top \in Nat, NEW ms, IsChat(ms, top), NEW x \in DOMAIN ms, NEW new,
           new = Longer(ms, x)
    PROVE  /\ IsChat(new, top)
           /\ \A lines : Old(lines, top) /\ Held(ms, lines) => Held(new, lines)
<1>1. (\E to : Moves(ms, new, to, top + 1)) /\ \A k \in DOMAIN new : new[k].id # top + 1
  BY PreviewMoves
<1>2. PICK to : Moves(ms, new, to, top + 1)
  BY <1>1
<1>3. IsChat(new, top)
  <2>1. \A j \in DOMAIN <<>> : <<>>[j][2] \in Nat
    OBVIOUS
  <2> QED
    BY <1>1, <1>2, <2>1, MovesKeep
<1>4. ASSUME NEW lines, Old(lines, top), Held(ms, lines) PROVE Held(new, lines)
  BY <1>2, <1>4, OldGrows, MovesKeep
<1> QED
  BY <1>3, <1>4

\* What a frame shows, so many lines above the newest
Frame(lines, rows, off) ==
    LET from == C!Least(Len(lines), rows + off)
    IN  SubSeq(lines, from + 1, C!Min2(from + rows, Len(lines)))

LEMMA ShownAre ==
    ASSUME NEW set, NEW lines \in Seq(set), NEW rows \in Nat \ {0}, NEW off \in Nat,
           off <= C!Least(Len(lines), rows), Len(lines) >= 1
    PROVE  /\ off > 0 => off < Len(lines)
           /\ off > 0 => Frame(lines, rows, off)[Len(Frame(lines, rows, off))] = lines[Len(lines) - off]
           /\ off = C!Least(Len(lines), rows) => Frame(lines, rows, off)[1] = lines[1]
<1> SUFFICES ASSUME NEW n, n = Len(lines), off <= C!Least(n, rows), n >= 1, NEW shown,
                    shown = SubSeq(lines, C!Least(n, rows + off) + 1, C!Min2(C!Least(n, rows + off) + rows, n))
             PROVE  /\ off > 0 => off < n
                    /\ off > 0 => shown[Len(shown)] = lines[n - off]
                    /\ off = C!Least(n, rows) => shown[1] = lines[1]
  BY DEF Frame
<1>1. n \in Nat /\ DOMAIN lines = 1 .. n
  OBVIOUS
<1> DEFINE from == C!Least(n, rows + off)
           to == C!Min2(from + rows, n)
<1>2. CASE n > rows
  <2>1. from = n - (rows + off) /\ from \in Nat /\ to = n - off /\ off <= n - rows
    BY <1>1, <1>2 DEF C!Least, C!Min2
  <2>2. C!Least(n, rows) = n - rows
    BY <1>1, <1>2 DEF C!Least
  <2> HIDE DEF from, to
  <2>3. from + 1 \in Int /\ to \in Int /\ to - (from + 1) + 1 = rows /\ from + 1 <= to
    BY <1>1, <2>1
  <2>4. \A i \in from + 1 .. to : lines[i] \in set
    <3> SUFFICES ASSUME NEW i \in from + 1 .. to PROVE i \in 1 .. n
      BY <1>1
    <3> QED
      BY <1>1, <2>1
  <2>5. shown = SubSeq(lines, from + 1, to)
    BY DEF from, to
  <2>6. Len(shown) = rows /\ \A i \in 1 .. rows : shown[i] = lines[from + 1 + i - 1]
    <3>1. PICK a \in Int, b \in Int : a = from + 1 /\ b = to
      BY <2>3
    <3>2. /\ Len(SubSeq(lines, a, b)) = IF a <= b THEN b - a + 1 ELSE 0
          /\ \A i \in 1 .. b - a + 1 : SubSeq(lines, a, b)[i] = lines[a + i - 1]
      BY <2>4, <3>1, SubSeqProperties
    <3>3. b - a + 1 = rows /\ a <= b /\ shown = SubSeq(lines, a, b)
      BY <2>3, <2>5, <3>1
    <3>4. Len(shown) = rows /\ \A i \in 1 .. rows : shown[i] = lines[a + i - 1]
      BY <3>2, <3>3
    <3> QED
      BY <3>1, <3>4
  <2>7. shown[rows] = lines[n - off]
    <3>1. from + 1 + rows - 1 = n - off /\ rows \in 1 .. rows
      BY <1>1, <2>1
    <3> QED
      BY <2>6, <3>1
  <2>8. off = n - rows => shown[1] = lines[1]
    <3> SUFFICES ASSUME off = n - rows PROVE shown[1] = lines[1]
      OBVIOUS
    <3>1. from + 1 + 1 - 1 = 1 /\ 1 \in 1 .. rows
      BY <1>1, <2>1
    <3> QED
      BY <2>6, <3>1
  <2>9. rows \in 1 .. n /\ off < n
    BY <1>1, <1>2, <2>1
  <2> QED
    BY <2>2, <2>6, <2>7, <2>8, <2>9
<1>3. CASE ~(n > rows)
  <2>1. from = 0 /\ to = n /\ off = 0
    BY <1>1, <1>3 DEF C!Least, C!Min2
  <2>2. shown = SubSeq(lines, 1, n)
    BY <2>1
  <2>3. shown = lines
    BY <2>2, SubSeqFull
  <2> QED
    BY <2>1, <2>3
<1> QED
  BY <1>1, <1>2, <1>3

\* What a frame draws
LEMMA DrawIs ==
    ASSUME PanelInv, C!Draw, NEW lines, lines = C!Lines, NEW n, n = Len(lines),
           NEW rows, rows = C!AvailRows, NEW off, off = c_ChatScrollOffset'
    PROVE  /\ LinesFit(lines, c_Messages) /\ n \in Nat /\ rows \in Nat \ {0}
           /\ off \in Nat /\ off <= C!Least(n, rows)
           /\ off = C!Min2(IF c_ChatScrollOffset > 0 /\ c_drawn /\ n > c_chatLineCount
                           THEN c_ChatScrollOffset + n - c_chatLineCount ELSE c_ChatScrollOffset,
                           C!Least(n, rows))
           /\ c_chatMaxScroll' = C!Least(n, rows) /\ c_chatPageRows' = rows /\ c_chatLineCount' = n
           /\ c_lastLines' = lines /\ c_drawn' /\ ~c_touched'
           /\ c_view' = Frame(lines, rows, off)
           /\ UNCHANGED <<c_Messages, c_ChatHeight, c_said>>
<1>1. /\ c_said \in Nat /\ IsChat(c_Messages, c_said) /\ c_ChatScrollOffset \in Nat /\ c_chatLineCount \in Nat
      /\ c_ChatHeight \in Nat \ {0}
  BY DEF PanelInv
<1>2. LinesFit(lines, c_Messages)
  BY <1>1, LinesOfAll
<1>3. n \in Nat
  BY <1>2 DEF LinesFit
<1>4. rows \in Nat \ {0}
  BY <1>1 DEF C!AvailRows
<1>5. /\ off = C!Min2(IF c_ChatScrollOffset > 0 /\ c_drawn /\ n > c_chatLineCount
                      THEN c_ChatScrollOffset + n - c_chatLineCount ELSE c_ChatScrollOffset,
                      C!Least(n, rows))
      /\ c_chatMaxScroll' = C!Least(n, rows) /\ c_chatPageRows' = rows /\ c_chatLineCount' = n
      /\ c_lastLines' = lines /\ c_drawn' /\ ~c_touched'
      /\ c_view' = C!Shown(off)
      /\ UNCHANGED <<c_Messages, c_ChatHeight, c_said>>
  BY DEF C!Draw
<1>6. c_view' = Frame(lines, rows, off)
  BY <1>5 DEF C!Shown, Frame
<1>7. c_ChatScrollOffset > 0 /\ c_drawn /\ n > c_chatLineCount =>
        c_ChatScrollOffset + n - c_chatLineCount \in Nat
  BY <1>1, <1>3
<1>8. off \in Nat /\ off <= C!Least(n, rows)
  <2>1. PICK moved \in Nat, most \in Nat : off = C!Min2(moved, most) /\ most = C!Least(n, rows)
    <3>1. C!Least(n, rows) \in Nat
      BY <1>3, <1>4 DEF C!Least
    <3> QED
      BY <1>1, <1>5, <1>7, <3>1
  <2> QED
    BY <2>1 DEF C!Min2
<1> QED
  BY <1>2, <1>3, <1>4, <1>5, <1>6, <1>8

LEMMA PanelInit == Init => PanelInv
<1> SUFFICES ASSUME C!Init PROVE PanelInv
  BY DEF Init
<1>1. IsChat(<<>>, 0)
  <2>1. <<>> \in Seq({})
    OBVIOUS
  <2> QED
    BY <2>1 DEF IsChat
<1>2. c_ChatHeight \in Nat \ {0}
  BY MCAppAssumption DEF C!ChatPanelAssumption, C!Init
<1> QED
  BY <1>1, <1>2 DEF C!Init, PanelInv

LEMMA PanelStep == PanelInv /\ [Next]_all => PanelInv'
<1> SUFFICES ASSUME PanelInv, [Next]_all PROVE PanelInv'
  OBVIOUS
<1>1. /\ c_said \in Nat /\ IsChat(c_Messages, c_said)
      /\ {c_ChatScrollOffset, c_chatMaxScroll, c_chatLineCount, c_chatPageRows} \subseteq Nat
      /\ c_ChatHeight \in Nat \ {0}
      /\ c_ChatScrollOffset > 0 /\ ~c_touched /\ c_view # <<>> => Seen
  BY DEF PanelInv
<1>2. C!ChatPanelAssumption
  BY MCAppAssumption DEF MCAppAssumption
<1> DEFINE Same == UNCHANGED <<c_ChatScrollOffset, c_chatMaxScroll, c_chatLineCount, c_chatPageRows,
                               c_ChatHeight, c_lastLines, c_view, c_drawn, c_touched>>
<1>3. ASSUME Same, c_said' \in {c_said, c_said + 1}, IsChat(c_Messages', c_said'),
             \A lines : Old(lines, c_said) /\ Held(c_Messages, lines) => Held(c_Messages', lines)
      PROVE  PanelInv'
  <2>1. Seen => Seen'
    <3> SUFFICES ASSUME Seen PROVE Seen'
      OBVIOUS
    <3>1. Old(c_lastLines, c_said) /\ Held(c_Messages, c_lastLines)
      BY DEF Seen
    <3>2. Old(c_lastLines, c_said') /\ Held(c_Messages', c_lastLines)
      BY <1>1, <1>3, <3>1, OldGrows
    <3>3. Old(c_lastLines', c_said') /\ Held(c_Messages', c_lastLines')
      BY <1>3, <3>2
    <3> QED
      BY <1>3, <3>3 DEF Seen
  <2> QED
    BY <1>1, <1>3, <2>1 DEF PanelInv
<1>4. ASSUME c_touched' \/ c_view' = <<>>, c_said' \in Nat, IsChat(c_Messages', c_said'),
             c_ChatScrollOffset' \in Nat,
             c_ChatHeight' \in Nat \ {0}, UNCHANGED <<c_chatMaxScroll, c_chatLineCount, c_chatPageRows>>
      PROVE  PanelInv'
  BY <1>1, <1>4 DEF PanelInv
<1>5. CASE UNCHANGED cVars
  BY <1>1, <1>5 DEF cVars, PanelInv, Seen
<1>6. CASE C!AddMessage
  <2>1. PICK rows \in C!Rows, at \in c_Times, picture \in BOOLEAN :
          /\ c_said' = c_said + 1
          /\ c_Messages' = C!Cut(Append(c_Messages, [id |-> c_said + 1, at |-> at, rows |-> rows, picture |-> picture]))
          /\ Same
    BY <1>6 DEF C!AddMessage, C!New
  <2> DEFINE m == [id |-> c_said + 1, at |-> at, rows |-> rows, picture |-> picture]
  <2>2. m.id = c_said + 1 /\ m.rows \in {1, 2} /\ c_Messages' = C!Cut(Append(c_Messages, m))
    BY <2>1 DEF C!Rows
  <2> HIDE DEF m
  <2> QED
    BY <1>1, <1>2, <1>3, <2>1, <2>2, AppendKeeps
<1>7. CASE C!SendCurrentChat
  <2>1. PICK at \in c_Times :
          /\ c_said' = c_said + 1
          /\ c_Messages' = C!Cut(Append(c_Messages, [id |-> c_said + 1, at |-> at, rows |-> 1, picture |-> FALSE]))
          /\ c_ChatScrollOffset' = 0 /\ c_touched'
          /\ UNCHANGED <<c_chatMaxScroll, c_chatLineCount, c_chatPageRows, c_ChatHeight>>
    BY <1>7 DEF C!SendCurrentChat, C!New
  <2> DEFINE m == [id |-> c_said + 1, at |-> at, rows |-> 1, picture |-> FALSE]
  <2>2. m.id = c_said + 1 /\ m.rows \in {1, 2} /\ c_Messages' = C!Cut(Append(c_Messages, m))
    BY <2>1
  <2> HIDE DEF m
  <2>3. IsChat(c_Messages', c_said')
    BY <1>1, <1>2, <2>1, <2>2, AppendKeeps
  <2> QED
    BY <1>1, <1>4, <2>1, <2>3
<1>8. CASE C!Command
  <2>1. /\ c_ChatScrollOffset' = 0 /\ c_touched'
        /\ UNCHANGED <<c_chatMaxScroll, c_chatLineCount, c_chatPageRows, c_ChatHeight>>
    BY <1>8 DEF C!Command
  <2>2. CASE c_Messages' = <<>> /\ UNCHANGED c_said
    <3>1. <<>> \in Seq({})
      OBVIOUS
    <3>2. IsChat(c_Messages', c_said')
      BY <2>2, <3>1 DEF IsChat
    <3> QED
      BY <1>1, <1>4, <2>1, <2>2, <3>2
  <2>3. CASE UNCHANGED <<c_Messages, c_said>>
    BY <1>1, <1>4, <2>1, <2>3
  <2>4. ASSUME NEW at, c_said' = c_said + 1,
               c_Messages' = Append(c_Messages, [id |-> c_said + 1, at |-> at, rows |-> 2, picture |-> FALSE])
        PROVE  PanelInv'
    <3> DEFINE m == [id |-> c_said + 1, at |-> at, rows |-> 2, picture |-> FALSE]
    <3>1. m.id = c_said + 1 /\ m.rows \in {1, 2} /\ c_Messages' = Append(c_Messages, m)
      BY <2>4
    <3> HIDE DEF m
    <3>2. IsChat(c_Messages', c_said')
      BY <1>1, <1>2, <2>4, <3>1, AppendKeeps
    <3> QED
      BY <1>1, <1>4, <2>1, <2>4, <3>2
  <2> QED
    BY <1>8, <2>2, <2>3, <2>4 DEF C!Command, C!New
<1>9. CASE C!SetMediaPreview
  <2>1. PICK i \in DOMAIN c_Messages : c_Messages' = Longer(c_Messages, i) /\ Same /\ UNCHANGED c_said
    BY <1>9 DEF C!SetMediaPreview, Longer
  <2> QED
    BY <1>1, <1>3, <2>1, PreviewKeeps
<1>10. CASE C!AddChatHistory
  <2>1. PICK at \in c_Times, rows \in C!Rows :
          /\ c_said' = c_said + 1
          /\ c_Messages' = C!Cut(C!InsertAt(c_Messages, C!FirstAfter(c_Messages, at) + 1,
                                   [id |-> c_said + 1, at |-> at, rows |-> rows, picture |-> FALSE]))
          /\ Same
    BY <1>10 DEF C!AddChatHistory, C!New
  <2> DEFINE m == [id |-> c_said + 1, at |-> at, rows |-> rows, picture |-> FALSE]
             x == C!FirstAfter(c_Messages, at)
  <2>2. m.id = c_said + 1 /\ m.rows \in {1, 2} /\ c_Messages' = C!Cut(C!InsertAt(c_Messages, x + 1, m))
    BY <2>1 DEF C!Rows
  <2>3. Len(c_Messages) \in Nat
    BY <1>1 DEF IsChat
  <2>4. x \in 0 .. Len(c_Messages)
    BY <2>3, FirstAfterIsAPlace
  <2> HIDE DEF m, x
  <2> QED
    BY <1>1, <1>2, <1>3, <2>1, <2>2, <2>4, InsertKeeps
<1>11. CASE C!ScrollChat
  <2> DEFINE page == C!Max2(1, C!Least(c_chatPageRows, 1))
             limit(n) == IF c_drawn THEN C!Min2(n, c_chatMaxScroll) ELSE n
  <2>1. page \in Nat
    BY <1>1 DEF C!Max2, C!Least
  <2>2. PICK step \in {1, page} :
          c_ChatScrollOffset' \in {limit(c_ChatScrollOffset + step), limit(C!Least(c_ChatScrollOffset, step))}
    BY <1>11 DEF C!ScrollChat
  <2> HIDE DEF page
  <2>3. c_ChatScrollOffset + step \in Nat /\ C!Least(c_ChatScrollOffset, step) \in Nat
    BY <1>1, <2>1 DEF C!Least
  <2>4. c_ChatScrollOffset' \in Nat
    BY <1>1, <2>2, <2>3 DEF C!Min2
  <2>5. c_touched' /\ UNCHANGED <<c_Messages, c_said, c_ChatHeight, c_chatMaxScroll, c_chatLineCount, c_chatPageRows>>
    BY <1>11 DEF C!ScrollChat, C!Acts
  <2> QED
    BY <1>1, <1>4, <2>4, <2>5
<1>12. CASE C!ResizeChat
  <2>1. /\ c_touched' /\ c_ChatHeight' \in c_MinRows .. c_MaxRows
        /\ UNCHANGED <<c_Messages, c_said, c_ChatScrollOffset, c_chatMaxScroll, c_chatLineCount, c_chatPageRows>>
    BY <1>12 DEF C!ResizeChat, C!Acts
  <2> QED
    BY <1>1, <1>2, <1>4, <2>1 DEF C!ChatPanelAssumption
<1>13. CASE C!Toast
  BY <1>1, <1>3, <1>13 DEF C!Toast
<1>14. CASE C!DrawCompact
  BY <1>1, <1>4, <1>14 DEF C!DrawCompact
<1>15. CASE C!Draw
  <2> DEFINE lines == C!Lines
             n == Len(lines)
             rows == C!AvailRows
             off == c_ChatScrollOffset'
  <2>1. /\ LinesFit(lines, c_Messages) /\ n \in Nat /\ rows \in Nat \ {0}
        /\ off \in Nat /\ off <= C!Least(n, rows)
        /\ c_chatMaxScroll' = C!Least(n, rows) /\ c_chatPageRows' = rows /\ c_chatLineCount' = n
        /\ c_lastLines' = lines /\ c_drawn' /\ ~c_touched'
        /\ c_view' = Frame(lines, rows, off)
        /\ UNCHANGED <<c_Messages, c_ChatHeight, c_said>>
    BY <1>15, DrawIs
  <2> HIDE DEF lines, n, rows
  <2>2. C!Least(n, rows) \in Nat /\ (off > 0 => n >= 1)
    BY <2>1 DEF C!Least
  <2>3. PICK set : lines \in Seq(set)
    BY <2>1 DEF LinesFit
  <2>4. n = Len(lines)
    BY DEF n
  <2>5. ASSUME off > 0 PROVE Seen'
    <3>1. off < n /\ c_view'[Len(c_view')] = lines[n - off]
      <4>1. PICK o \in Nat : o = off
        BY <2>1
      <4>2. Len(lines) >= 1 /\ o > 0 /\ o <= C!Least(Len(lines), rows) /\ rows \in Nat \ {0}
        BY <2>1, <2>2, <2>4, <2>5, <4>1
      <4>3. o < Len(lines) /\ Frame(lines, rows, o)[Len(Frame(lines, rows, o))] = lines[Len(lines) - o]
        BY <2>3, <4>2, ShownAre
      <4> QED
        BY <2>1, <2>4, <4>1, <4>3
    <3>2. Old(lines, c_said)
      <4>1. \A j \in DOMAIN lines : \E id \in 1 .. c_said : \E r \in {1, 2} : lines[j] = <<id, r>>
        <5> SUFFICES ASSUME NEW j \in DOMAIN lines
                     PROVE  \E id \in 1 .. c_said : \E r \in {1, 2} : lines[j] = <<id, r>>
          OBVIOUS
        <5>1. PICK i \in DOMAIN c_Messages : \E r \in 1 .. c_Messages[i].rows : lines[j] = <<c_Messages[i].id, r>>
          BY <2>1 DEF LinesFit
        <5>2. PICK r \in 1 .. c_Messages[i].rows : lines[j] = <<c_Messages[i].id, r>>
          BY <5>1
        <5>3. c_Messages[i].id \in 1 .. c_said /\ c_Messages[i].rows \in {1, 2}
          BY <1>1 DEF IsChat
        <5>4. r \in {1, 2}
          BY <5>3
        <5> QED
          BY <5>2, <5>3, <5>4
      <4>2. lines # <<>>
        BY <2>1, <2>2, <2>4, <2>5
      <4> QED
        BY <2>1, <4>1, <4>2 DEF Old, LinesFit
    <3>3. Held(c_Messages, lines)
      <4>1. lines # <<>> /\ lines[1] = <<c_Messages[1].id, 1>>
        BY <2>1, <3>2 DEF Old, LinesFit
      <4>2. lines[1][1] = c_Messages[1].id
        BY <4>1
      <4>3. PICK set2 : c_Messages \in Seq(set2)
        BY <1>1 DEF IsChat
      <4>4. \A j \in DOMAIN lines : \E q \in DOMAIN c_Messages :
              1 <= q /\ c_Messages[q].id = lines[j][1] /\ lines[j][2] <= c_Messages[q].rows
        <5> SUFFICES ASSUME NEW j \in DOMAIN lines
                     PROVE  \E q \in DOMAIN c_Messages :
                              1 <= q /\ c_Messages[q].id = lines[j][1] /\ lines[j][2] <= c_Messages[q].rows
          OBVIOUS
        <5>1. PICK q \in DOMAIN c_Messages : \E r \in 1 .. c_Messages[q].rows : lines[j] = <<c_Messages[q].id, r>>
          BY <2>1 DEF LinesFit
        <5>2. 1 <= q
          BY <4>3
        <5> QED
          BY <5>1, <5>2
      <4>5. 1 \in DOMAIN c_Messages
        <5>1. 1 \in DOMAIN lines
          BY <2>2, <2>3, <2>4, <2>5
        <5>2. DOMAIN c_Messages # {}
          BY <4>4, <5>1
        <5> QED
          BY <4>3, <5>2
      <4> QED
        BY <4>2, <4>4, <4>5 DEF Held
    <3> QED
      BY <2>1, <2>4, <3>1, <3>2, <3>3 DEF Seen
  <2> QED
    BY <1>1, <2>1, <2>2, <2>5 DEF PanelInv
<1>16. C!Next \/ UNCHANGED cVars
  BY DEF Next, Others, all
<1> QED
  BY <1>5, <1>6, <1>7, <1>8, <1>9, <1>10, <1>11, <1>12, <1>13, <1>14, <1>15, <1>16 DEF C!Next

\* What a prefix says of a sequence
LEMMA PrefixKeeps ==
    ASSUME NEW set1, NEW set2, NEW lines \in Seq(set1), NEW old \in Seq(set2), NEW at \in 1 .. Len(old),
           C!IsPrefix(SubSeq(old, 1, at), lines)
    PROVE  at <= Len(lines) /\ lines[1] = old[1] /\ lines[at] = old[at]
<1> DEFINE head == SubSeq(old, 1, at)
<1>1. head \in Seq(set2) /\ Len(head) = at /\ \A i \in 1 .. at : head[i] = old[i]
  <2>1. \A i \in 1 .. at : old[i] \in set2
    OBVIOUS
  <2>2. 1 \in Int /\ at \in Int /\ at >= 1
    OBVIOUS
  <2>3. /\ head \in Seq(set2) /\ Len(head) = IF 1 <= at THEN at - 1 + 1 ELSE 0
        /\ \A i \in 1 .. at - 1 + 1 : head[i] = old[1 + i - 1]
    BY <2>1, <2>2, SubSeqProperties
  <2>4. at - 1 + 1 = at /\ \A i \in 1 .. at : 1 + i - 1 = i
    BY <2>2
  <2> HIDE DEF head
  <2> QED
    BY <2>2, <2>3, <2>4
<1>2. Len(head) <= Len(lines) /\ SubSeq(head, 1, Len(head)) = SubSeq(lines, 1, Len(head))
  BY DEF C!IsPrefix
<1> HIDE DEF head
<1>3. at <= Len(lines) /\ SubSeq(head, 1, at) = SubSeq(lines, 1, at)
  BY <1>1, <1>2
<1>4. SubSeq(head, 1, at) = head
  BY <1>1, SubSeqFull
<1>5. at \in Nat /\ 1 \in 1 .. at /\ at \in 1 .. at
  OBVIOUS
<1>6. \A i \in 1 .. at : SubSeq(lines, 1, at)[i] = lines[i]
  BY <1>3, <1>5
<1> QED
  BY <1>1, <1>3, <1>4, <1>5, <1>6

\* Lines that all come back are not more than there are.
Among(old, m, lines, n) ==
    /\ \A i, j \in 1 .. m : old[i] = old[j] => i = j
    /\ \A j \in 1 .. m : \E k \in 1 .. n : lines[k] = old[j]

LEMMA NotFewer ==
    ASSUME NEW m \in Nat, NEW n \in Nat, NEW old, NEW lines, Among(old, m, lines, n)
    PROVE  n >= m
<1> SUFFICES ASSUME n < m PROVE FALSE
  OBVIOUS
<1> DEFINE f == [j \in 1 .. m |-> CHOOSE k \in 1 .. n : lines[k] = old[j]]
<1>1. \A j \in 1 .. m : f[j] \in 1 .. n /\ lines[f[j]] = old[j]
  BY DEF Among
<1>2. f \in [1 .. m -> 1 .. n]
  BY <1>1
<1>3. IsFiniteSet(1 .. m) /\ Cardinality(1 .. m) = m
  <2>1. 1 \in Int /\ m \in Int /\ ~(1 > m) /\ m - 1 + 1 = m
    OBVIOUS
  <2> QED
    BY <2>1, FS_Interval
<1>4. IsFiniteSet(1 .. n) /\ Cardinality(1 .. n) = n
  <2>1. 1 \in Int /\ n \in Int /\ (1 > n => n = 0) /\ n - 1 + 1 = n
    OBVIOUS
  <2> QED
    BY <2>1, FS_Interval
<1> HIDE DEF f
<1>5. PICK i, j \in 1 .. m : i # j /\ f[i] = f[j]
  <2>1. Cardinality(1 .. n) < Cardinality(1 .. m)
    BY <1>3, <1>4
  <2> QED
    BY <1>2, <1>3, <1>4, <2>1, FS_PigeonHole
<1> QED
  BY <1>1, <1>5 DEF Among

\* The next frame of a user who looks at older lines
LEMMA NextFrame ==
    ASSUME PanelInv, C!Draw, c_ChatScrollOffset > 0, ~c_touched, c_view # <<>>,
           NEW at, at = CHOOSE i \in DOMAIN c_lastLines : c_lastLines[i] = c_view[Len(c_view)],
           C!IsPrefix(SubSeq(c_lastLines, 1, at), C!Lines)
    PROVE  c_view'[Len(c_view')] = c_view[Len(c_view)] \/ c_view'[1] = C!Lines[1]
<1> DEFINE lines == C!Lines
           n == Len(lines)
           rows == C!AvailRows
           off == c_ChatScrollOffset'
           old == c_lastLines
           m == Len(old)
           o == c_ChatScrollOffset
<1>1. /\ LinesFit(lines, c_Messages) /\ n \in Nat /\ rows \in Nat \ {0}
      /\ off \in Nat /\ off <= C!Least(n, rows)
      /\ off = C!Min2(IF o > 0 /\ c_drawn /\ n > c_chatLineCount
                      THEN o + n - c_chatLineCount ELSE o, C!Least(n, rows))
      /\ c_view' = Frame(lines, rows, off)
  BY DrawIs
<1>2. /\ Seen /\ o \in Nat /\ o > 0
      /\ IsChat(c_Messages, c_said)
  BY DEF PanelInv
<1>3. /\ c_drawn /\ Old(old, c_said) /\ Held(c_Messages, old)
      /\ c_chatLineCount = m /\ o < m /\ c_view[Len(c_view)] = old[m - o]
  BY <1>2 DEF Seen
<1>4. PICK set1, set2 : lines \in Seq(set1) /\ old \in Seq(set2)
  BY <1>1, <1>3 DEF LinesFit, Old
<1>5. C!IsPrefix(SubSeq(old, 1, at), lines)
  OBVIOUS
<1>6. n = Len(lines) /\ m = Len(old) /\ m \in Nat
  BY <1>4
<1> HIDE DEF lines, n, rows
<1>7. DOMAIN old = 1 .. m /\ DOMAIN lines = 1 .. n
  BY <1>4, <1>6
<1> HIDE DEF m, old
<1>8. m - o \in 1 .. m
  BY <1>2, <1>3, <1>6
<1>9. at = m - o
  <2>1. \A i \in DOMAIN old : old[i] = old[m - o] => i = m - o
    BY <1>3, <1>7, <1>8 DEF Old
  <2>2. at = CHOOSE i \in DOMAIN old : old[i] = old[m - o]
    BY <1>3 DEF old
  <2> QED
    BY <1>7, <1>8, <2>1, <2>2
<1>10. at <= n /\ lines[1] = old[1] /\ lines[at] = old[at]
  <2>1. at \in 1 .. m
    BY <1>8, <1>9
  <2> QED
    BY <1>4, <1>5, <1>6, <2>1, PrefixKeeps
<1>11. \A j \in 1 .. m : \E k \in 1 .. n : lines[k] = old[j]
  <2>1. 1 \in 1 .. n
    <3>1. PICK k \in 1 .. m : k = at
      BY <1>8, <1>9
    <3>2. k <= n
      BY <1>10, <3>1
    <3> QED
      BY <1>1, <1>6, <3>2
  <2>2. PICK i \in DOMAIN c_Messages : \E r \in 1 .. c_Messages[i].rows : lines[1] = <<c_Messages[i].id, r>>
    BY <1>1, <1>7, <2>1 DEF LinesFit
  <2>3. c_Messages[i].id = old[1][1]
    BY <1>10, <2>2
  <2>4. \A j \in DOMAIN old : \E q \in DOMAIN c_Messages :
          c_Messages[q].id = old[j][1] /\ old[j][2] <= c_Messages[q].rows
    BY <1>3, <2>3 DEF Held
  <2> SUFFICES ASSUME NEW j \in 1 .. m PROVE \E k \in 1 .. n : lines[k] = old[j]
    OBVIOUS
  <2>5. PICK id \in 1 .. c_said : \E r \in {1, 2} : old[j] = <<id, r>>
    BY <1>3, <1>7 DEF Old
  <2>6. PICK r \in {1, 2} : old[j] = <<id, r>>
    BY <2>5
  <2>7. PICK q \in DOMAIN c_Messages : c_Messages[q].id = id /\ r <= c_Messages[q].rows
    BY <1>7, <2>4, <2>6
  <2>8. c_Messages[q].rows \in {1, 2}
    BY <1>2 DEF IsChat
  <2>9. r \in 1 .. c_Messages[q].rows
    BY <2>7, <2>8
  <2>10. \E k \in DOMAIN lines : lines[k] = <<c_Messages[q].id, r>>
    BY <1>1, <2>9 DEF LinesFit
  <2> QED
    BY <1>7, <2>6, <2>7, <2>10
<1>12. n \in Nat /\ m \in Nat /\ o \in Nat /\ o > 0
  BY <1>1, <1>2, <1>6
<1>13. n >= m
  <2>1. \A i, j \in 1 .. m : old[i] = old[j] => i = j
    BY <1>3, <1>7 DEF Old
  <2>2. n \in Nat /\ m \in Nat
    BY <1>12
  <2>3. Among(old, m, lines, n)
    BY <1>11, <2>1 DEF Among
  <2> QED
    BY <2>2, <2>3, NotFewer
<1>14. off = C!Min2(o + n - m, C!Least(n, rows))
  <2>1. (IF o > 0 /\ n > m THEN o + n - m ELSE o) = o + n - m
    BY <1>12, <1>13
  <2>2. o > 0 /\ c_drawn /\ n > c_chatLineCount <=> o > 0 /\ n > m
    BY <1>3
  <2>3. off = C!Min2(IF o > 0 /\ n > m THEN o + n - m ELSE o, C!Least(n, rows))
    BY <1>1, <1>3, <2>2
  <2> QED
    BY <2>1, <2>3
<1>15. n >= 1 /\ o + n - m > 0 /\ n - (o + n - m) = m - o
  BY <1>8, <1>12, <1>13
<1>16. PICK p \in Nat : p = off
  BY <1>1
<1>17. c_view' = Frame(lines, rows, p) /\ p <= C!Least(Len(lines), rows) /\ rows \in Nat \ {0} /\ Len(lines) >= 1
  BY <1>1, <1>6, <1>15, <1>16
<1>18. /\ p > 0 => Frame(lines, rows, p)[Len(Frame(lines, rows, p))] = lines[Len(lines) - p]
       /\ p = C!Least(Len(lines), rows) => Frame(lines, rows, p)[1] = lines[1]
  BY <1>4, <1>17, ShownAre
<1>19. CASE p = C!Least(n, rows)
  BY <1>6, <1>19, <1>17, <1>18 DEF lines
<1>20. CASE p = o + n - m
  <2>1. c_view'[Len(c_view')] = lines[n - p]
    BY <1>6, <1>15, <1>20, <1>17, <1>18
  <2>2. n - p = at
    BY <1>9, <1>15, <1>20
  <2> QED
    BY <1>3, <1>9, <1>10, <2>1, <2>2
<1> QED
  BY <1>14, <1>16, <1>19, <1>20 DEF C!Min2

\* However messages, pictures and history come while the user looks at older lines, and
\* however the chat is cut, a frame ends with the line the last one ended with, as long as
\* nothing above that line changed, or begins with the first line (renderFooter).  The debug
\* log stays as well while it grows, every setting can be scrolled to, and a click on a
\* setting changes what the line shows, one on a member that member's (DrawDebugModal,
\* DrawTestModal, ui_room_members.go), whatever has changed since they were drawn.
THEOREM ScrolledViewStaysPut == Spec => ScrolledViewStays
<1> DEFINE Stays ==
      (C!Draw /\ c_ChatScrollOffset > 0 /\ ~c_touched /\ c_view # <<>>) =>
        LET last == c_view[Len(c_view)]
            at == CHOOSE i \in DOMAIN c_lastLines : c_lastLines[i] = last
        IN  C!IsPrefix(SubSeq(c_lastLines, 1, at), C!Lines) =>
              c_view'[Len(c_view')] = last \/ c_view'[1] = C!Lines[1]
           Put == \A w \in d_Widths, p \in d_Pages :
              d_view.Scroll > 0 /\ ~d_cut /\ d_view.width = w /\ d_view.filter = d_view.Filter
                /\ D!DrawLog(w, p)
                  => D!LastShown' = D!Most(D!LastShown, D!Least(d_view'.rows, p))
           Reached == d_height > 1 /\ D!Draw =>
              D!SettingRow(D!Clamp(d_scroll, D!Count - 1) + 1) \in D!Visible'
           Meant == d_set' # d_set => \A y \in DOMAIN d_frame.rows :
              D!Click(y) => \A n \in D!Names : d_set'[n] # d_set[n] =>
                  n \in D!Shown(d_frame.rows[y]) \/ (n = "mode" /\ d_frame.rows[y] = 20)
           Aimed == <<G!levels, g_jobs>>' # <<G!levels, g_jobs>> =>
              \A a \in G!OnTop(g_seen), m \in G!Shown(g_seen) :
                 G!Click(a) /\ ~G!Apart(a.rect, G!PlaceOf(g_seen, m)) =>
                     \A k \in g_Peers \ {m} :
                        /\ g_volume'[k] = g_volume[k] /\ g_sound'[k] = g_sound[k]
                        /\ <<"watch", k>> \in g_jobs' => <<"watch", k>> \in g_jobs
<1>1. PanelInv => [Stays]_(C!vars)
  BY NextFrame
<1>2. C!ScrolledViewStays <=> [][Stays]_(C!vars)
  BY PTL DEF C!ScrolledViewStays
<1>3. DialogInv => [Put]_(D!vars)
  BY LogPut DEF DialogInv
<1>4. D!LogStaysPut <=> [][Put]_(D!vars)
  BY PTL DEF D!LogStaysPut
<1>5. DialogInv => [Reached]_(D!vars)
  BY ReachedNow DEF DialogInv
<1>6. D!ScrollReachesAll <=> [][Reached]_(D!vars)
  BY PTL DEF D!ScrollReachesAll
<1>7. DialogInv => [Meant]_(D!vars)
  BY ClickedNow DEF DialogInv
<1>8. D!ClickMeansTheRow <=> [][Meant]_(D!vars)
  BY PTL DEF D!ClickMeansTheRow
<1>9. StageInv => [Aimed]_(G!vars)
  BY ClickedMember
<1>10. G!ClickIsForTheMember <=> [][Aimed]_(G!vars)
  BY PTL DEF G!ClickIsForTheMember
<1> HIDE DEF Stays, Put, Reached, Meant, Aimed
<1>11. Spec => C!ScrolledViewStays
  BY <1>1, <1>2, PanelInit, PanelStep, PTL DEF Spec
<1>12. Spec => []DialogInv
  BY DialogInit, DialogStep, PTL DEF Spec
<1>13. Spec => D!LogStaysPut
  BY <1>3, <1>4, <1>12, PTL
<1>14. Spec => D!ScrollReachesAll
  BY <1>5, <1>6, <1>12, PTL
<1>15. Spec => D!ClickMeansTheRow
  BY <1>7, <1>8, <1>12, PTL
<1>16. Spec => G!ClickIsForTheMember
  BY <1>9, <1>10, StageInit, StageStep, PTL DEF Spec
<1> QED
  BY <1>11, <1>13, <1>14, <1>15, <1>16 DEF ScrolledViewStays

-----------------------------------------------------------------------------
(* The types of the chat                                                   *)

\* The messages of a chat, and the numbers given so far
Said == [id : 1 .. c_MaxMessages, at : c_Times, rows : C!Rows, picture : BOOLEAN]

ChatTypes == c_said \in 0 .. c_MaxMessages /\ c_Messages \in Seq(Said)

\* Before the first frame the chat scrolls a line per act of the user.
PanelBounds ==
    /\ {c_chatMaxScroll, c_chatLineCount} \subseteq 0 .. 2 * c_MaxMessages
    /\ c_acts \in 0 .. c_MaxActs
    /\ c_ChatScrollOffset \in 0 .. (IF c_drawn THEN 2 * c_MaxMessages ELSE c_acts)
    /\ c_chatPageRows \in 0 .. c_MaxRows /\ (~c_drawn => c_chatPageRows = 0)
    /\ c_ChatHeight \in c_MinRows .. c_MaxRows
    /\ {c_toast, c_IsCompactMode, c_drawn, c_touched} \subseteq BOOLEAN

LEMMA PanelTyped == ChatTypes /\ PanelBounds => C!TypeOK
<1> SUFFICES ASSUME ChatTypes, PanelBounds PROVE C!TypeOK
  OBVIOUS
<1>1. c_MaxActs \in Nat /\ c_MaxMessages \in Nat
  BY MCAppAssumption DEF MCAppAssumption, C!ChatPanelAssumption
<1>2. c_ChatScrollOffset \in 0 .. (IF c_drawn THEN 2 * c_MaxMessages ELSE c_MaxActs)
  BY <1>1 DEF PanelBounds
<1> QED
  BY <1>2 DEF ChatTypes, PanelBounds, Said, C!TypeOK

\* The messages with the newest cut off where the list is too long
LEMMA CutIsTyped ==
    ASSUME NEW set, NEW ms \in Seq(set), C!ChatPanelAssumption
    PROVE  C!Cut(ms) \in Seq(set)
<1>1. CASE Len(ms) > c_MaxShown
  <2> DEFINE from == Len(ms) - c_Kept + 1
  <2>1. /\ Len(ms) \in Nat /\ from \in Nat /\ from >= 1
    BY <1>1 DEF C!ChatPanelAssumption
  <2>2. \A i \in from .. Len(ms) : ms[i] \in set
    BY <2>1
  <2>3. SubSeq(ms, from, Len(ms)) \in Seq(set)
    BY <2>1, <2>2, SubSeqProperties
  <2> QED
    BY <1>1, <2>3 DEF C!Cut
<1>2. CASE ~(Len(ms) > c_MaxShown)
  BY <1>2 DEF C!Cut
<1> QED
  BY <1>1, <1>2

LEMMA AppendIsTyped ==
    ASSUME NEW set, NEW ms \in Seq(set), NEW m \in set
    PROVE  Append(ms, m) \in Seq(set)
OBVIOUS

LEMMA InsertIsTyped ==
    ASSUME NEW set, NEW ms \in Seq(set), NEW m \in set, NEW x \in 0 .. Len(ms)
    PROVE  C!InsertAt(ms, x + 1, m) \in Seq(set)
<1> DEFINE before == SubSeq(ms, 1, x)
           after == SubSeq(ms, x + 1, Len(ms))
           new == C!InsertAt(ms, x + 1, m)
<1>1. Len(ms) \in Nat /\ x \in Nat
  OBVIOUS
<1>2. before \in Seq(set)
  <2>1. \A i \in 1 .. x : ms[i] \in set
    BY <1>1
  <2> QED
    BY <1>1, <2>1, SubSeqProperties
<1>3. after \in Seq(set)
  <2>1. \A i \in x + 1 .. Len(ms) : ms[i] \in set
    BY <1>1
  <2>2. x + 1 \in Nat /\ x + 1 <= Len(ms) + 1
    BY <1>1
  <2> QED
    BY <1>1, <2>1, <2>2, SubSeqProperties
<1>4. new = before \o <<m>> \o after
  <2>1. (x + 1) - 1 = x
    BY <1>1
  <2> QED
    BY <2>1 DEF C!InsertAt
<1> HIDE DEF before, after, new
<1>5. <<m>> \in Seq(set)
  OBVIOUS
<1>6. before \o <<m>> \in Seq(set)
  BY <1>2, <1>5
<1>7. new \in Seq(set)
  <2> DEFINE head == before \o <<m>>
  <2>1. head \in Seq(set) /\ new = head \o after
    BY <1>4, <1>6
  <2> HIDE DEF head
  <2> QED
    BY <1>3, <2>1
<1> QED
  BY <1>7 DEF new

\* A chat has at most two lines for each number given.
LEMMA LinesAreBounded ==
    ASSUME NEW top \in Nat, NEW ms, IsChat(ms, top), NEW lines, LinesFit(lines, ms), NEW n, n = Len(lines)
    PROVE  n \in 0 .. 2 * top
<1>1. PICK set : lines \in Seq(set)
  BY DEF LinesFit
<1>2. n \in Nat /\ DOMAIN lines = 1 .. n
  BY <1>1
<1> DEFINE places == 1 .. n
           ids == 1 .. top
           rows == {1, 2}
           spots == ids \X rows
           place == [j \in places |-> lines[j]]
<1>3. \A j \in places : lines[j] \in spots
  <2> SUFFICES ASSUME NEW j \in places PROVE lines[j] \in spots
    OBVIOUS
  <2>1. PICK i \in DOMAIN ms : \E r \in 1 .. ms[i].rows : lines[j] = <<ms[i].id, r>>
    BY <1>2 DEF LinesFit
  <2>2. ms[i].id \in ids /\ ms[i].rows \in {1, 2}
    BY DEF IsChat
  <2>3. PICK r \in 1 .. ms[i].rows : lines[j] = <<ms[i].id, r>>
    BY <2>1
  <2>4. r \in rows
    BY <2>2, <2>3
  <2> QED
    BY <2>2, <2>3, <2>4
<1>4. \A i, j \in places : lines[i] = lines[j] => i = j
  BY <1>2 DEF LinesFit
<1> HIDE DEF spots
<1>5. place \in Injection(places, spots)
  BY <1>3, <1>4 DEF Injection, IsInjective
<1>6. \A k \in Nat : IsFiniteSet(1 .. k) /\ Cardinality(1 .. k) = k
  <2> TAKE k \in Nat
  <2>1. 1 \in Int /\ k \in Int
    OBVIOUS
  <2>2. IsFiniteSet(1 .. k) /\ Cardinality(1 .. k) = IF 1 > k THEN 0 ELSE k - 1 + 1
    BY <2>1, FS_Interval
  <2>3. (IF 1 > k THEN 0 ELSE k - 1 + 1) = k
    OBVIOUS
  <2> QED
    BY <2>2, <2>3
<1>7. rows = 1 .. 2
  OBVIOUS
<1>8. IsFiniteSet(spots) /\ Cardinality(spots) = top * 2
  <2>1. IsFiniteSet(ids) /\ Cardinality(ids) = top
    BY <1>6
  <2>2. IsFiniteSet(rows) /\ Cardinality(rows) = 2
    BY <1>6, <1>7
  <2> HIDE DEF ids, rows
  <2> QED
    BY <2>1, <2>2, FS_Product DEF spots
<1> HIDE DEF place
<1>9. Cardinality(places) <= Cardinality(spots)
  BY <1>5, <1>8, FS_Injection
<1>10. Cardinality(places) = n
  BY <1>2, <1>6
<1> QED
  BY <1>2, <1>8, <1>9, <1>10

LEMMA PanelTypesInit == Init => ChatTypes /\ PanelBounds
<1> SUFFICES ASSUME C!Init PROVE ChatTypes /\ PanelBounds
  BY DEF Init
<1>1. c_MaxActs \in Nat /\ c_MaxMessages \in Nat /\ c_MaxRows \in Nat
  BY MCAppAssumption DEF MCAppAssumption, C!ChatPanelAssumption
<1>2. <<>> \in Seq(Said)
  OBVIOUS
<1>3. /\ c_said = 0 /\ c_acts = 0 /\ c_Messages = <<>> /\ c_ChatScrollOffset = 0 /\ c_chatMaxScroll = 0
      /\ c_chatLineCount = 0 /\ c_chatPageRows = 0 /\ c_ChatHeight \in c_MinRows .. c_MaxRows
      /\ c_toast = FALSE /\ c_IsCompactMode = FALSE /\ c_drawn = FALSE /\ c_touched = FALSE
  BY DEF C!Init
<1>4. ChatTypes
  BY <1>1, <1>2, <1>3 DEF ChatTypes
<1>5. c_ChatScrollOffset \in 0 .. (IF c_drawn THEN 2 * c_MaxMessages ELSE c_acts)
  BY <1>3
<1>6. {c_toast, c_IsCompactMode, c_drawn, c_touched} \subseteq BOOLEAN
  BY <1>3, Zenon
<1>7. {c_chatMaxScroll, c_chatLineCount} \subseteq 0 .. 2 * c_MaxMessages /\ c_acts \in 0 .. c_MaxActs
  BY <1>1, <1>3
<1>8. c_chatPageRows \in 0 .. c_MaxRows
  BY <1>1, <1>3
<1> QED
  BY <1>3, <1>4, <1>5, <1>6, <1>7, <1>8, Zenon DEF PanelBounds

\* Every message that comes in has a number, a time and rows of its own.
LEMMA ChatTypesStep == ChatTypes /\ [Next]_all => ChatTypes'
<1> SUFFICES ASSUME ChatTypes, [Next]_all PROVE ChatTypes'
  OBVIOUS
<1>1. /\ c_said \in 0 .. c_MaxMessages /\ c_Messages \in Seq(Said)
      /\ C!ChatPanelAssumption /\ c_MaxMessages \in Nat
  BY MCAppAssumption DEF ChatTypes, MCAppAssumption, C!ChatPanelAssumption
<1>2. Len(c_Messages) \in Nat
  BY <1>1
<1>3. ASSUME NEW rows \in C!Rows, c_said < c_MaxMessages, NEW at \in c_Times, NEW picture \in BOOLEAN
      PROVE  /\ [id |-> c_said + 1, at |-> at, rows |-> rows, picture |-> picture] \in Said
             /\ c_said + 1 \in 0 .. c_MaxMessages
  BY <1>1, <1>3 DEF Said
<1>4. CASE UNCHANGED <<c_said, c_Messages>>
  BY <1>4 DEF ChatTypes
<1>5. CASE C!AddMessage
  <2>1. PICK rows \in C!Rows, at \in c_Times, picture \in BOOLEAN :
          /\ c_said < c_MaxMessages /\ c_said' = c_said + 1
          /\ c_Messages' = C!Cut(Append(c_Messages, [id |-> c_said + 1, at |-> at, rows |-> rows, picture |-> picture]))
    BY <1>5 DEF C!AddMessage, C!New
  <2> DEFINE m == [id |-> c_said + 1, at |-> at, rows |-> rows, picture |-> picture]
  <2>2. m \in Said /\ c_said' \in 0 .. c_MaxMessages /\ c_Messages' = C!Cut(Append(c_Messages, m))
    BY <1>3, <2>1
  <2> HIDE DEF m
  <2>3. Append(c_Messages, m) \in Seq(Said)
    BY <1>1, <2>2, AppendIsTyped
  <2>4. c_Messages' \in Seq(Said)
    BY <1>1, <2>2, <2>3, CutIsTyped
  <2> QED
    BY <2>2, <2>4 DEF ChatTypes
<1>6. CASE C!SendCurrentChat
  <2>1. PICK at \in c_Times :
          /\ c_said < c_MaxMessages /\ c_said' = c_said + 1
          /\ c_Messages' = C!Cut(Append(c_Messages, [id |-> c_said + 1, at |-> at, rows |-> 1, picture |-> FALSE]))
    BY <1>6 DEF C!SendCurrentChat, C!New
  <2> DEFINE m == [id |-> c_said + 1, at |-> at, rows |-> 1, picture |-> FALSE]
  <2>2. 1 \in C!Rows /\ FALSE \in BOOLEAN
    BY DEF C!Rows
  <2>3. m \in Said /\ c_said' \in 0 .. c_MaxMessages /\ c_Messages' = C!Cut(Append(c_Messages, m))
    BY <1>3, <2>1, <2>2
  <2> HIDE DEF m
  <2>4. Append(c_Messages, m) \in Seq(Said)
    BY <1>1, <2>3, AppendIsTyped
  <2>5. c_Messages' \in Seq(Said)
    BY <1>1, <2>3, <2>4, CutIsTyped
  <2> QED
    BY <2>3, <2>5 DEF ChatTypes
<1>7. CASE C!Command
  <2> DEFINE at == CHOOSE t \in c_Times : TRUE
             m == [id |-> c_said + 1, at |-> at, rows |-> 2, picture |-> FALSE]
  <2>1. \/ c_Messages' = <<>> /\ c_said' = c_said
        \/ c_said < c_MaxMessages /\ c_said' = c_said + 1 /\ c_Messages' = Append(c_Messages, m)
        \/ c_Messages' = c_Messages /\ c_said' = c_said
    BY <1>7 DEF C!Command, C!New
  <2>2. at \in c_Times
    <3>1. c_Times # {}
      BY <1>1 DEF C!ChatPanelAssumption
    <3> QED
      BY <3>1
  <2> HIDE DEF at
  <2>3. CASE c_Messages' = <<>> /\ c_said' = c_said
    <3>1. <<>> \in Seq(Said)
      OBVIOUS
    <3> QED
      BY <1>1, <2>3, <3>1 DEF ChatTypes
  <2>4. CASE c_said < c_MaxMessages /\ c_said' = c_said + 1 /\ c_Messages' = Append(c_Messages, m)
    <3>1. 2 \in C!Rows /\ FALSE \in BOOLEAN
      BY DEF C!Rows
    <3>2. m \in Said /\ c_said' \in 0 .. c_MaxMessages
      BY <1>3, <2>2, <2>4, <3>1
    <3> HIDE DEF m
    <3>3. c_Messages' \in Seq(Said)
      BY <1>1, <2>4, <3>2, AppendIsTyped
    <3> QED
      BY <3>2, <3>3 DEF ChatTypes
  <2>5. CASE c_Messages' = c_Messages /\ c_said' = c_said
    BY <1>1, <2>5 DEF ChatTypes
  <2> QED
    BY <2>1, <2>3, <2>4, <2>5
<1>8. CASE C!SetMediaPreview
  <2>1. PICK i \in DOMAIN c_Messages : c_Messages' = Longer(c_Messages, i) /\ c_said' = c_said
    BY <1>8 DEF C!SetMediaPreview, Longer
  <2>2. \A m \in Said : [m EXCEPT !.rows = 2, !.picture = FALSE] \in Said
    BY DEF Said, C!Rows
  <2>3. DOMAIN c_Messages = 1 .. Len(c_Messages) /\ \A j \in 1 .. Len(c_Messages) : c_Messages[j] \in Said
    BY <1>1
  <2> DEFINE new == [j \in 1 .. Len(c_Messages) |->
                       IF j = i THEN [c_Messages[j] EXCEPT !.rows = 2, !.picture = FALSE] ELSE c_Messages[j]]
  <2>4. c_Messages' = new
    BY <2>1, <2>3 DEF Longer
  <2>5. new \in [1 .. Len(c_Messages) -> Said]
    BY <2>2, <2>3
  <2>6. new \in Seq(Said)
    BY <1>2, <2>5, SameDomainIsSeq
  <2> QED
    BY <1>1, <2>1, <2>4, <2>6 DEF ChatTypes
<1>9. CASE C!AddChatHistory
  <2>1. PICK at \in c_Times, rows \in C!Rows :
          /\ c_said < c_MaxMessages /\ c_said' = c_said + 1
          /\ c_Messages' = C!Cut(C!InsertAt(c_Messages, C!FirstAfter(c_Messages, at) + 1,
                                   [id |-> c_said + 1, at |-> at, rows |-> rows, picture |-> FALSE]))
    BY <1>9 DEF C!AddChatHistory, C!New
  <2> DEFINE m == [id |-> c_said + 1, at |-> at, rows |-> rows, picture |-> FALSE]
             x == C!FirstAfter(c_Messages, at)
  <2>2. FALSE \in BOOLEAN
    OBVIOUS
  <2>3. m \in Said /\ c_said' \in 0 .. c_MaxMessages /\ c_Messages' = C!Cut(C!InsertAt(c_Messages, x + 1, m))
    BY <1>3, <2>1, <2>2
  <2>4. x \in 0 .. Len(c_Messages)
    BY <1>2, FirstAfterIsAPlace
  <2> HIDE DEF m, x
  <2>5. C!InsertAt(c_Messages, x + 1, m) \in Seq(Said)
    BY <1>1, <2>3, <2>4, InsertIsTyped
  <2>6. c_Messages' \in Seq(Said)
    BY <1>1, <2>3, <2>5, CutIsTyped
  <2> QED
    BY <2>3, <2>6 DEF ChatTypes
<1>10. C!ScrollChat \/ C!ResizeChat \/ C!Toast \/ C!DrawCompact \/ C!Draw => UNCHANGED <<c_said, c_Messages>>
  BY DEF C!ScrollChat, C!ResizeChat, C!Toast, C!DrawCompact, C!Draw
<1>11. C!Next \/ UNCHANGED cVars
  BY DEF Next, Others, all
<1>12. UNCHANGED cVars => UNCHANGED <<c_said, c_Messages>>
  BY DEF cVars
<1> QED
  BY <1>4, <1>5, <1>6, <1>7, <1>8, <1>9, <1>10, <1>11, <1>12 DEF C!Next

\* Before the first frame a page is one line.
LEMMA PanelBoundsStep == PanelInv /\ ChatTypes /\ PanelBounds /\ [Next]_all => PanelBounds'
<1> SUFFICES ASSUME PanelInv, ChatTypes, PanelBounds, [Next]_all PROVE PanelBounds'
  OBVIOUS
<1>1. /\ c_said \in 0 .. c_MaxMessages /\ c_MaxMessages \in Nat /\ c_MaxActs \in Nat
      /\ c_MinRows \in Nat \ {0} /\ c_MaxRows \in Nat
  BY MCAppAssumption DEF ChatTypes, MCAppAssumption, C!ChatPanelAssumption
<1>2. /\ c_chatMaxScroll \in 0 .. 2 * c_MaxMessages /\ c_chatLineCount \in 0 .. 2 * c_MaxMessages
      /\ c_acts \in 0 .. c_MaxActs
      /\ c_drawn => c_ChatScrollOffset \in 0 .. 2 * c_MaxMessages
      /\ ~c_drawn => c_ChatScrollOffset \in 0 .. c_acts
      /\ c_chatPageRows \in 0 .. c_MaxRows /\ (~c_drawn => c_chatPageRows = 0)
      /\ c_ChatHeight \in c_MinRows .. c_MaxRows
  BY DEF PanelBounds
<1>3. c_toast \in BOOLEAN /\ c_IsCompactMode \in BOOLEAN /\ c_drawn \in BOOLEAN /\ c_touched \in BOOLEAN
  BY DEF PanelBounds
<1> DEFINE frame == <<c_chatMaxScroll, c_chatLineCount, c_chatPageRows, c_drawn>>
\* What an act leaves of the last frame
<1>4. ASSUME UNCHANGED frame, c_acts' \in {c_acts, c_acts + 1}, c_acts' \in 0 .. c_MaxActs,
             c_ChatHeight' \in c_MinRows .. c_MaxRows,
             c_toast' \in BOOLEAN, c_IsCompactMode' \in BOOLEAN, c_touched' \in BOOLEAN,
             c_drawn => c_ChatScrollOffset' \in 0 .. 2 * c_MaxMessages,
             ~c_drawn => c_ChatScrollOffset' \in 0 .. c_acts'
      PROVE  PanelBounds'
  <2>1. c_ChatScrollOffset' \in 0 .. (IF c_drawn' THEN 2 * c_MaxMessages ELSE c_acts')
    BY <1>4
  <2>2. {c_toast', c_IsCompactMode', c_drawn', c_touched'} \subseteq BOOLEAN
    BY <1>3, <1>4, Zenon
  <2>3. c_chatMaxScroll' = c_chatMaxScroll /\ c_chatLineCount' = c_chatLineCount
        /\ c_chatPageRows' = c_chatPageRows /\ (c_drawn' <=> c_drawn)
    BY <1>4
  <2> QED
    BY <1>2, <1>4, <2>1, <2>2, <2>3 DEF PanelBounds
<1>5. ASSUME UNCHANGED frame, UNCHANGED <<c_ChatScrollOffset, c_acts, c_ChatHeight, c_toast, c_IsCompactMode>>,
             c_touched' \in BOOLEAN
      PROVE  PanelBounds'
  BY <1>2, <1>3, <1>4, <1>5
<1>6. TRUE \in BOOLEAN /\ FALSE \in BOOLEAN
  OBVIOUS
<1>7. CASE UNCHANGED cVars
  <2>1. UNCHANGED frame /\ UNCHANGED <<c_ChatScrollOffset, c_acts, c_ChatHeight, c_toast, c_IsCompactMode, c_touched>>
    BY <1>7 DEF cVars
  <2> QED
    BY <1>3, <1>5, <2>1
<1>8. CASE C!AddMessage \/ C!SetMediaPreview \/ C!AddChatHistory
  <2>1. UNCHANGED frame /\ UNCHANGED <<c_ChatScrollOffset, c_acts, c_ChatHeight, c_toast, c_IsCompactMode, c_touched>>
    BY <1>8 DEF C!AddMessage, C!SetMediaPreview, C!AddChatHistory
  <2> QED
    BY <1>3, <1>5, <2>1
<1>9. CASE C!SendCurrentChat
  <2>1. UNCHANGED frame /\ UNCHANGED <<c_acts, c_ChatHeight, c_toast, c_IsCompactMode>>
        /\ c_touched' = TRUE /\ c_ChatScrollOffset' = 0
    BY <1>9 DEF C!SendCurrentChat
  <2>2. 0 \in 0 .. 2 * c_MaxMessages /\ 0 \in 0 .. c_acts
    BY <1>1, <1>2
  <2> QED
    BY <1>2, <1>3, <1>4, <1>6, <2>1, <2>2
<1>10. CASE C!Command
  <2>1. UNCHANGED frame /\ UNCHANGED c_ChatHeight /\ c_acts' = c_acts + 1 /\ c_acts < c_MaxActs
        /\ c_touched' = TRUE /\ c_ChatScrollOffset' = 0
        /\ c_toast' \in {c_toast, TRUE} /\ c_IsCompactMode' \in {c_IsCompactMode, ~c_IsCompactMode}
    BY <1>10 DEF C!Command
  <2>2. 0 \in 0 .. 2 * c_MaxMessages /\ 0 \in 0 .. c_acts + 1 /\ c_acts + 1 \in 0 .. c_MaxActs
    BY <1>1, <1>2, <2>1
  <2>3. (~c_IsCompactMode) \in BOOLEAN
    OBVIOUS
  <2>4. c_toast' \in BOOLEAN /\ c_IsCompactMode' \in BOOLEAN /\ c_touched' \in BOOLEAN
    BY <1>3, <1>6, <2>1, <2>3, Zenon
  <2> QED
    BY <1>2, <1>4, <2>1, <2>2, <2>4
<1>11. CASE C!ScrollChat
  <2> DEFINE page == C!Max2(1, C!Least(c_chatPageRows, 1))
             limit(n) == IF c_drawn THEN C!Min2(n, c_chatMaxScroll) ELSE n
  <2>1. UNCHANGED frame /\ UNCHANGED <<c_ChatHeight, c_toast, c_IsCompactMode>> /\ c_acts' = c_acts + 1
        /\ c_acts < c_MaxActs /\ c_touched' = TRUE
    BY <1>11 DEF C!ScrollChat, C!Acts
  <2>2. page \in Nat /\ (~c_drawn => page = 1)
    BY <1>2 DEF C!Max2, C!Least
  <2>3. PICK step \in {1, page} :
          c_ChatScrollOffset' \in {limit(c_ChatScrollOffset + step), limit(C!Least(c_ChatScrollOffset, step))}
    BY <1>11 DEF C!ScrollChat
  <2> HIDE DEF page
  <2>4. step \in Nat /\ (~c_drawn => step = 1)
    BY <2>2, <2>3
  <2>5. c_drawn => c_ChatScrollOffset' \in 0 .. 2 * c_MaxMessages
    <3> SUFFICES ASSUME c_drawn PROVE c_ChatScrollOffset' \in 0 .. 2 * c_MaxMessages
      OBVIOUS
    <3>1. c_ChatScrollOffset \in Nat
      BY <1>1, <1>2
    <3>2. PICK to \in Nat : c_ChatScrollOffset' = C!Min2(to, c_chatMaxScroll)
      <4>1. c_ChatScrollOffset + step \in Nat /\ C!Least(c_ChatScrollOffset, step) \in Nat
        BY <2>4, <3>1 DEF C!Least
      <4> QED
        BY <2>3, <4>1
    <3> QED
      BY <1>1, <1>2, <3>2 DEF C!Min2
  <2>6. ~c_drawn => c_ChatScrollOffset' \in 0 .. c_acts + 1
    <3> SUFFICES ASSUME ~c_drawn PROVE c_ChatScrollOffset' \in 0 .. c_acts + 1
      OBVIOUS
    <3>1. c_ChatScrollOffset' \in {c_ChatScrollOffset + 1, C!Least(c_ChatScrollOffset, 1)}
      BY <2>3, <2>4
    <3> QED
      BY <1>1, <1>2, <3>1 DEF C!Least
  <2>7. c_acts + 1 \in 0 .. c_MaxActs
    BY <1>1, <1>2, <2>1
  <2> QED
    BY <1>2, <1>3, <1>4, <1>6, <2>1, <2>5, <2>6, <2>7
<1>12. CASE C!ResizeChat
  <2>1. UNCHANGED frame /\ UNCHANGED <<c_ChatScrollOffset, c_toast, c_IsCompactMode>> /\ c_acts' = c_acts + 1
        /\ c_acts < c_MaxActs /\ c_touched' = TRUE /\ c_ChatHeight' \in c_MinRows .. c_MaxRows
    BY <1>12 DEF C!ResizeChat, C!Acts
  <2>2. c_acts + 1 \in 0 .. c_MaxActs /\ (~c_drawn => c_ChatScrollOffset \in 0 .. c_acts + 1)
    BY <1>1, <1>2, <2>1
  <2> QED
    BY <1>2, <1>3, <1>4, <1>6, <2>1, <2>2
<1>13. CASE C!Toast
  <2>1. UNCHANGED frame /\ UNCHANGED <<c_ChatScrollOffset, c_ChatHeight, c_IsCompactMode, c_touched>>
        /\ c_acts' = c_acts + 1 /\ c_acts < c_MaxActs /\ c_toast' = ~c_toast
    BY <1>13 DEF C!Toast
  <2>2. c_acts + 1 \in 0 .. c_MaxActs /\ (~c_drawn => c_ChatScrollOffset \in 0 .. c_acts + 1)
    BY <1>1, <1>2, <2>1
  <2>3. (~c_toast) \in BOOLEAN
    OBVIOUS
  <2> QED
    BY <1>2, <1>3, <1>4, <2>1, <2>2, <2>3
<1>14. CASE C!DrawCompact
  <2>1. UNCHANGED frame /\ UNCHANGED <<c_ChatScrollOffset, c_acts, c_ChatHeight, c_toast, c_IsCompactMode>>
        /\ c_touched' = TRUE
    BY <1>14 DEF C!DrawCompact
  <2> QED
    BY <1>5, <1>6, <2>1
<1>15. CASE C!Draw
  <2> DEFINE lines == C!Lines
             n == Len(lines)
             rows == C!AvailRows
             off == c_ChatScrollOffset'
  <2>1. /\ LinesFit(lines, c_Messages) /\ n \in Nat /\ rows \in Nat \ {0}
        /\ off \in Nat /\ off <= C!Least(n, rows)
        /\ c_chatMaxScroll' = C!Least(n, rows) /\ c_chatPageRows' = rows /\ c_chatLineCount' = n
    BY <1>15, DrawIs
  <2>2. rows \in 0 .. c_MaxRows
    BY <1>1, <1>2 DEF C!AvailRows
  <2>3. /\ c_drawn' = TRUE /\ c_touched' = FALSE
        /\ UNCHANGED <<c_ChatHeight, c_toast, c_IsCompactMode, c_acts>>
    BY <1>15 DEF C!Draw
  <2>4. n \in 0 .. 2 * c_MaxMessages
    <3>1. IsChat(c_Messages, c_said) /\ c_said \in Nat
      BY DEF PanelInv
    <3>2. n \in 0 .. 2 * c_said
      BY <2>1, <3>1, LinesAreBounded
    <3> HIDE DEF n
    <3> QED
      BY <1>1, <3>2
  <2> HIDE DEF lines, n, rows
  <2>5. C!Least(n, rows) \in 0 .. 2 * c_MaxMessages
    BY <1>1, <2>1, <2>4 DEF C!Least
  <2>6. c_ChatScrollOffset' \in 0 .. 2 * c_MaxMessages
    BY <1>1, <2>1, <2>5
  <2>7. c_ChatScrollOffset' \in 0 .. (IF c_drawn' THEN 2 * c_MaxMessages ELSE c_acts')
    BY <2>3, <2>6
  <2>8. {c_toast', c_IsCompactMode', c_drawn', c_touched'} \subseteq BOOLEAN
    BY <1>3, <2>3, Zenon
  <2>9. /\ {c_chatMaxScroll', c_chatLineCount'} \subseteq 0 .. 2 * c_MaxMessages
        /\ c_acts' \in 0 .. c_MaxActs /\ c_chatPageRows' \in 0 .. c_MaxRows
        /\ c_ChatHeight' \in c_MinRows .. c_MaxRows
    BY <1>2, <2>1, <2>2, <2>3, <2>4, <2>5
  <2> QED
    BY <2>3, <2>7, <2>8, <2>9, Zenon DEF PanelBounds
<1>16. C!Next \/ UNCHANGED cVars
  BY DEF Next, Others, all
<1> QED
  BY <1>7, <1>8, <1>9, <1>10, <1>11, <1>12, <1>13, <1>14, <1>15, <1>16 DEF C!Next

-----------------------------------------------------------------------------
(* All components                                                          *)

\* Every component of the application keeps its state among the values its code knows: what
\* is drawn, scrolled, typed, saved, installed, passed on, mixed, streamed and copied, each
\* within the limits that its file states.
THEOREM AppStaysTyped == Spec => []TypeOK
<1>1. Spec => [](ScreenInv /\ RoomsAreCounted /\ GuestsAreCounted)
  BY ScreenInit, ScreenStep, ScreenCountsInit, RoomsStep, GuestsStep, PTL DEF Spec
<1>2. Spec => [](ChatTypes /\ PanelBounds)
  BY PanelInit, PanelStep, PanelTypesInit, ChatTypesStep, PanelBoundsStep, PTL DEF Spec
<1>3. Spec => [](AddressInv /\ AddressTypes)
  BY AddressInit, AddressStep, AddressTypesInit, AddressTypesStep, PTL DEF Spec
<1>4. Spec => [](LineInv /\ LineTypes)
  BY LineInit, LineStep, LineTypesInit, LineTypesStep, PTL DEF Spec
<1>5. Spec => [](SettingsInv /\ SettingsCounted)
  BY SettingsInit, SettingsStep, SettingsActs, PTL DEF Spec
<1>6. Spec => [](UpdateInv /\ LinksInv /\ LinkQueues)
  BY UpdateInit, UpdateStep, LinksInit, LinksStep, LinkQueuesInit, LinkQueuesStep, PTL DEF Spec
<1>7. Spec => [](MixerInv /\ MixerBounds)
  BY MixerInit, MixerStep, MixerBoundsInit, MixerBoundsStep, PTL DEF Spec
<1>8. Spec => [](DialogInv /\ StageInv)
  BY DialogInit, DialogStep, StageInit, StageStep, PTL DEF Spec
<1>9. Spec => [](ClipInv /\ TextsFit)
  <2>1. ClipInv /\ TextsFit /\ [Next]_all => TextsFit'
    BY CopiesStep, HeldStep DEF TextsFit
  <2> QED
    BY <2>1, ClipInit, ClipStep, TextsFitInit, PTL DEF Spec
<1>10. Spec => []StreamTypes
  BY StreamTypesInit, StreamTypesStep, PTL DEF Spec
<1>11. /\ ScreenInv /\ RoomsAreCounted /\ GuestsAreCounted => A!TypeOK
       /\ ChatTypes /\ PanelBounds => C!TypeOK
       /\ AddressInv /\ AddressTypes => R!TypeOK
       /\ LineInv /\ LineTypes => I!TypeOK
  BY ScreenTyped, PanelTyped, AddressTyped, LineTyped
<1>12. /\ SettingsInv /\ SettingsCounted => S!TypeOK
       /\ UpdateInv => U!TypeOK
       /\ LinksInv /\ LinkQueues => L!TypeOK
       /\ MixerInv /\ MixerBounds => X!TypeOK
  BY SettingsTyped, UpdateTyped, LinksTyped, MixerTyped
<1>13. /\ DialogInv => D!TypeOK
       /\ StageInv => G!TypeOK
       /\ StreamTypes => P!TypeOK
       /\ ClipInv /\ TextsFit => B!TypeOK
  BY DialogTypes, ClipTyped, Zenon DEF StageInv, StreamTypes
<1>14. (/\ A!TypeOK /\ C!TypeOK /\ R!TypeOK /\ I!TypeOK /\ S!TypeOK /\ U!TypeOK
        /\ L!TypeOK /\ X!TypeOK /\ D!TypeOK /\ G!TypeOK /\ P!TypeOK /\ B!TypeOK) => TypeOK
  BY DEF TypeOK
<1> QED
  BY <1>1, <1>2, <1>3, <1>4, <1>5, <1>6, <1>7, <1>8, <1>9, <1>10, <1>11, <1>12, <1>13, <1>14, PTL
=============================================================================
