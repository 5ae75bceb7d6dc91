---------------------------- MODULE ConsoleProofs ----------------------------
(***************************************************************************)
(* Theorems about the console.                                             *)
(*                                                                         *)
(* The invariant has two halves.  EditorInv says that the array holds a    *)
(* line with the cursor in it, which is all the step to LineEditor needs:  *)
(* there an edit of the array, which stops at a 0 it meets, is the edit of *)
(* a sequence.  DisplayInv says what is on the screen.  It relates every   *)
(* cell from the prompt on to the array, also the cells below the line,    *)
(* because a new line moves there and expects them blank; and it says what *)
(* is on the screen while a command runs, because the next prompt is       *)
(* written over that.                                                      *)
(*                                                                         *)
(* What a text does to the screen is a fold over its characters.  It is    *)
(* unfolded once, in Written, and what follows from it character by        *)
(* character goes by the smallest number of characters for which it fails. *)
(***************************************************************************)
EXTENDS Console, FiniteSetTheorems, WellFoundedInduction, SequenceTheorems, TLAPS

-----------------------------------------------------------------------------
(***************************************************************************)
(* Induction.  Where it is needed it is on the smallest number for which   *)
(* something fails.                                                        *)
(***************************************************************************)

LEMMA SmallestNumber ==
    ASSUME NEW T \in SUBSET Nat, T # {}
    PROVE  \E n \in T : \A m \in T : n <= m
  <1>1. PICK n \in T : \A m \in T : <<m, n>> \notin OpToRel(<, Nat)
    BY NatLessThanWellFounded, WFMin
  <1>2. ASSUME NEW m \in T
        PROVE  n <= m
    <2>1. <<m, n>> \in Nat \X Nat /\ <<m, n>>[1] = m /\ <<m, n>>[2] = n
      OBVIOUS
    <2>2. ~ (m < n)
      BY <1>1, <2>1 DEF OpToRel
    <2> QED
      BY <2>2
  <1> QED
    BY <1>2

-----------------------------------------------------------------------------
(***************************************************************************)
(* The screen.                                                             *)
(***************************************************************************)

Printable == Glyph \cup {NewLine}

\* Where a screen's next character goes.
start(row) == row * VGA_WIDTH
at(screen) == start(screen.row) + screen.col

LEMMA Starts ==
    /\ \A row \in Row : start(row) \in Nat /\ start(row) + VGA_WIDTH <= VGA_WIDTH * VGA_HEIGHT
    /\ \A row \in Int : start(row + 1) = start(row) + VGA_WIDTH
    /\ start(VGA_HEIGHT) = VGA_WIDTH * VGA_HEIGHT
    /\ VGA_WIDTH * VGA_HEIGHT \in Nat
    /\ start(0) = 0
  <1>1. VGA_WIDTH \in Nat \ {0} /\ VGA_HEIGHT \in Nat \ {0}
    BY TerminalAssumption
  <1>2. \A row \in Int : start(row + 1) = start(row) + VGA_WIDTH
    BY <1>1 DEF start
  <1>3. ASSUME NEW row \in Row
        PROVE  start(row) \in Nat /\ start(row) + VGA_WIDTH <= VGA_WIDTH * VGA_HEIGHT
    <2>1. row \in Nat /\ row + 1 <= VGA_HEIGHT
      BY <1>1 DEF Row
    <2>2. (row + 1) * VGA_WIDTH <= VGA_HEIGHT * VGA_WIDTH
      BY <1>1, <2>1
    <2>3. row * VGA_WIDTH \in Nat
      BY <1>1, <2>1
    <2> QED
      BY <1>1, <1>2, <2>1, <2>2, <2>3 DEF start
  <1> QED
    BY <1>1, <1>2, <1>3 DEF start

LEMMA Positions ==
    ASSUME NEW screen \in Screen
    PROVE  /\ screen.row \in Row /\ screen.col \in Col
           /\ screen.cells \in [Cell -> Glyph] /\ at(screen) \in Cell
  <1>1. screen.row \in Row /\ screen.col \in Col /\ screen.cells \in [Cell -> Glyph]
    BY DEF Screen
  <1>2. /\ start(screen.row) \in Nat
        /\ start(screen.row) + VGA_WIDTH <= VGA_WIDTH * VGA_HEIGHT
        /\ VGA_WIDTH * VGA_HEIGHT \in Nat
    BY <1>1, Starts
  <1>3. screen.col \in Nat /\ screen.col < VGA_WIDTH /\ VGA_WIDTH \in Nat
    BY <1>1, TerminalAssumption DEF Col
  <1>4. at(screen) \in Nat /\ at(screen) < VGA_WIDTH * VGA_HEIGHT
    BY <1>2, <1>3 DEF at
  <1> QED
    BY <1>1, <1>2, <1>4 DEF Cell

\* The next row is the one below, or a blank one.
LEMMA NextRow ==
    ASSUME NEW screen \in Screen
    PROVE  /\ next_row(screen) \in Screen
           /\ (\A c \in Cell : c >= start(screen.row) + VGA_WIDTH => screen.cells[c] = Blank) =>
                 \A c \in Cell :
                    c >= at(next_row(screen)) => next_row(screen).cells[c] = Blank
  <1> DEFINE down == [screen EXCEPT !.row = @ + 1, !.col = 0]
             t == next_row(screen)
  <1>1. /\ screen.row \in Row /\ screen.row \in Nat /\ screen.col \in Col
        /\ screen.cells \in [Cell -> Glyph]
        /\ VGA_HEIGHT \in Nat \ {0} /\ VGA_WIDTH \in Nat \ {0} /\ 0 \in Col
        /\ VGA_HEIGHT - 1 \in Row
    BY Positions, TerminalAssumption DEF Row, Col
  <1>2. /\ down.row = screen.row + 1 /\ down.col = 0 /\ down.cells = screen.cells
        /\ down = [cells |-> screen.cells, row |-> screen.row + 1, col |-> 0]
    <2>1. screen = [cells |-> screen.cells, row |-> screen.row, col |-> screen.col]
      BY DEF Screen
    <2>2. [screen EXCEPT !.row = @ + 1] =
             [cells |-> screen.cells, row |-> screen.row + 1, col |-> screen.col]
      BY <2>1
    <2>3. down = [[screen EXCEPT !.row = @ + 1] EXCEPT !.col = 0]
      BY <2>1, Zenon
    <2> HIDE DEF down
    <2>4. down = [cells |-> screen.cells, row |-> screen.row + 1, col |-> 0]
      BY <2>2, <2>3
    <2> QED
      BY <2>4
  <1>3. CASE down.row >= VGA_HEIGHT
    <2>1. t = scroll_up(down)
      BY <1>3 DEF next_row
    <2>2. t = [cells |-> [c \in Cell |-> IF c + VGA_WIDTH \in Cell
                                         THEN screen.cells[c + VGA_WIDTH] ELSE Blank],
               row |-> VGA_HEIGHT - 1, col |-> 0]
      BY <1>2, <2>1 DEF scroll_up
    <2> HIDE DEF t
    <2>3. t \in Screen
      <3>1. [c \in Cell |-> IF c + VGA_WIDTH \in Cell
                            THEN screen.cells[c + VGA_WIDTH] ELSE Blank] \in [Cell -> Glyph]
        BY <1>1, TerminalAssumption
      <3> QED
        BY <1>1, <2>2, <3>1 DEF Screen
    <2>4. at(t) = start(VGA_HEIGHT - 1) /\ start(VGA_HEIGHT - 1) \in Nat
      BY <1>1, <2>2, Starts DEF at
    <2>5. start(VGA_HEIGHT - 1) + VGA_WIDTH = VGA_WIDTH * VGA_HEIGHT
      <3>1. VGA_HEIGHT - 1 \in Int /\ (VGA_HEIGHT - 1) + 1 = VGA_HEIGHT
        BY <1>1
      <3> QED
        BY <3>1, Starts
    <2>6. ASSUME NEW c \in Cell, c >= at(t)
          PROVE  t.cells[c] = Blank
      <3>1. c + VGA_WIDTH \notin Cell
        BY <1>1, <2>4, <2>5, <2>6, Starts DEF Cell
      <3> QED
        BY <2>2, <3>1
    <2> QED
      BY <2>3, <2>6 DEF t
  <1>4. CASE ~ down.row >= VGA_HEIGHT
    <2>1. t = down
      BY <1>4 DEF next_row
    <2> HIDE DEF t, down
    <2>2. screen.row + 1 \in Row
      BY <1>1, <1>2, <1>4 DEF Row
    <2>3. t \in Screen
      BY <1>1, <1>2, <2>1, <2>2 DEF Screen
    <2>4. at(t) = start(screen.row) + VGA_WIDTH /\ t.cells = screen.cells
      <3>1. at(t) = start(screen.row + 1) + 0
        BY <1>2, <2>1 DEF at
      <3>2. start(screen.row + 1) = start(screen.row) + VGA_WIDTH /\ start(screen.row) \in Nat
        BY <1>1, Starts
      <3> QED
        BY <1>1, <1>2, <2>1, <3>1, <3>2
    <2> QED
      BY <2>3, <2>4 DEF t
  <1> QED
    BY <1>3, <1>4

\* A character that is not the last of its row.
LEMMA PutInRow ==
    ASSUME NEW screen \in Screen, NEW c \in Glyph, screen.col + 1 < VGA_WIDTH
    PROVE  putchar(screen, c) = [cells |-> [screen.cells EXCEPT ![at(screen)] = c],
                                 row |-> screen.row, col |-> screen.col + 1]
  <1>1. c # NewLine
    BY TerminalAssumption
  <1>2. screen = [cells |-> screen.cells, row |-> screen.row, col |-> screen.col]
    BY DEF Screen
  <1>3. screen.col \in Nat /\ VGA_WIDTH \in Nat
    BY Positions, TerminalAssumption DEF Col
  <1> DEFINE written == [screen EXCEPT !.cells[at(screen)] = c]
  <1>4. written = [cells |-> [screen.cells EXCEPT ![at(screen)] = c],
                   row |-> screen.row, col |-> screen.col]
    BY <1>2
  <1>5. putchar(screen, c) = advance_cursor(written)
    BY <1>1 DEF putchar, at, start
  <1> HIDE DEF written
  <1> QED
    BY <1>3, <1>4, <1>5 DEF advance_cursor

\* Any character: the screen stays one, and what is blank from the cursor on
\* stays blank from the cursor on.
LEMMA PutKeeps ==
    ASSUME NEW screen \in Screen, NEW c \in Printable
    PROVE  /\ putchar(screen, c) \in Screen
           /\ (\A n \in Cell : n >= at(screen) => screen.cells[n] = Blank) =>
                 \A n \in Cell :
                    n >= at(putchar(screen, c)) => putchar(screen, c).cells[n] = Blank
  <1> DEFINE blank(s) == \A n \in Cell : n >= at(s) => s.cells[n] = Blank
             t == putchar(screen, c)
  <1>1. /\ screen.row \in Row /\ screen.col \in Col /\ at(screen) \in Cell
        /\ screen.cells \in [Cell -> Glyph]
        /\ VGA_WIDTH \in Nat \ {0}
        /\ screen = [cells |-> screen.cells, row |-> screen.row, col |-> screen.col]
    BY Positions, TerminalAssumption DEF Screen
  <1>2. /\ at(screen) = start(screen.row) + screen.col /\ start(screen.row) \in Nat
        /\ screen.col \in Nat /\ screen.col < VGA_WIDTH /\ at(screen) \in Nat
    BY <1>1, Starts DEF at, Col
  <1>3. CASE c = NewLine
    <2>1. t = next_row(screen)
      BY <1>3 DEF putchar
    <2>2. blank(screen) => blank(t)
      <3> SUFFICES ASSUME blank(screen)
                   PROVE  blank(t)
        OBVIOUS
      <3>1. \A n \in Cell : n >= start(screen.row) + VGA_WIDTH => screen.cells[n] = Blank
        BY <1>1, <1>2 DEF Cell
      <3> QED
        BY <2>1, <3>1, NextRow
    <2> QED
      BY <2>1, <2>2, NextRow
  <1>4. CASE c # NewLine
    <2>0. c \in Glyph
      BY <1>4 DEF Printable
    <2> DEFINE w == [cells |-> [screen.cells EXCEPT ![at(screen)] = c],
                     row |-> screen.row, col |-> screen.col]
    <2>1. t = advance_cursor(w)
      <3>1. w = [screen EXCEPT !.cells[at(screen)] = c]
        BY <1>1
      <3> QED
        BY <1>4, <3>1 DEF putchar, at, start
    <2>2. [screen.cells EXCEPT ![at(screen)] = c] \in [Cell -> Glyph]
      BY <1>1, <2>0
    <2>3. /\ w \in Screen /\ w.row = screen.row /\ w.col = screen.col /\ at(w) = at(screen)
          /\ w = [cells |-> w.cells, row |-> w.row, col |-> w.col]
      BY <1>1, <2>2 DEF Screen, at
    <2>4. ASSUME blank(screen), NEW n \in Cell, n > at(screen)
          PROVE  w.cells[n] = Blank
      BY <1>1, <1>2, <2>4 DEF Cell
    <2> HIDE DEF w
    <2>5. CASE screen.col + 1 >= VGA_WIDTH
      <3>0. t = next_row(w)
        BY <2>1, <2>3, <2>5 DEF advance_cursor
      <3>1. t = next_row(w) /\ at(w) < start(w.row) + VGA_WIDTH
        BY <1>1, <1>2, <2>3, <3>0
      <3>2. blank(screen) => blank(t)
        <4> SUFFICES ASSUME blank(screen)
                     PROVE  blank(t)
          OBVIOUS
        <4>1. \A n \in Cell : n >= start(w.row) + VGA_WIDTH => w.cells[n] = Blank
          <5> TAKE n \in Cell
          <5>1. n >= start(w.row) + VGA_WIDTH => n > at(screen)
            BY <1>1, <1>2, <2>3, <3>1 DEF Cell
          <5> QED
            BY <2>4, <5>1
        <4> QED
          BY <2>3, <3>1, <4>1, NextRow
      <3> QED
        BY <2>3, <3>1, <3>2, NextRow
    <2>6. CASE ~ screen.col + 1 >= VGA_WIDTH
      <3>1. t = [cells |-> w.cells, row |-> w.row, col |-> w.col + 1]
        BY <2>1, <2>3, <2>6 DEF advance_cursor
      <3>2. t \in Screen
        BY <1>1, <1>2, <2>3, <2>6, <3>1 DEF Screen, Col
      <3>3. at(t) = at(screen) + 1 /\ t.cells = w.cells
        BY <1>2, <2>3, <3>1 DEF at
      <3> HIDE DEF t
      <3>4. blank(screen) => blank(t)
        BY <1>2, <2>4, <3>3 DEF Cell
      <3> QED
        BY <3>2, <3>4 DEF t
    <2> QED
      BY <2>5, <2>6
  <1> QED
    BY <1>3, <1>4

\* write puts one character after the other.  (This is what FoldLeft does;
\* the function it is defined by exists, for every length of text.)
LEMMA Written ==
    ASSUME NEW screen \in Screen, NEW text \in Seq(Printable)
    PROVE  \E h \in [0 .. Len(text) -> Screen] :
              /\ h[0] = screen /\ h[Len(text)] = write(screen, text)
              /\ \A n \in 1 .. Len(text) : h[n] = putchar(h[n - 1], text[n])
  <1> DEFINE L == Len(text)
             body(f, S) == IF S = {} THEN screen
                           ELSE putchar(f[S \ {Max(S)}], text[Max(S)])
             OK(n) == \E f \in [SUBSET (1 .. n) -> Screen] :
                         \A S \in SUBSET (1 .. n) : f[S] = body(f, S)
  <1>1. /\ L \in Nat /\ DOMAIN text = 1 .. L
        /\ \A n \in 1 .. L : text[n] \in Printable
    OBVIOUS
  <1>2. \A n \in 1 .. L : \A S \in SUBSET (1 .. n) : n \in S => Max(S) = n
    <2> TAKE n \in 1 .. L
    <2> TAKE S \in SUBSET (1 .. n)
    <2> HAVE n \in S
    <2>1. \A m \in S : n >= m
      BY <1>1
    <2>2. \A x \in S : (\A y \in S : x >= y) => x = n
      BY <1>1, <2>1
    <2> QED
      BY <2>1, <2>2 DEF Max
  <1>3. \A n \in 0 .. L : OK(n)
    <2> SUFFICES ASSUME ~ \A n \in 0 .. L : OK(n)
                 PROVE  FALSE
      OBVIOUS
    <2> DEFINE T == {n \in 0 .. L : ~ OK(n)}
    <2>1. PICK n \in T : \A m \in T : n <= m
      <3> HIDE DEF OK
      <3>1. T \in SUBSET Nat /\ T # {}
        BY <1>1
      <3> HIDE DEF T
      <3> QED
        BY <3>1, SmallestNumber
    <2>2. n \in 0 .. L /\ ~ OK(n)
      BY <2>1
    <2>3. CASE n = 0
      <3> DEFINE f == [S \in SUBSET (1 .. n) |-> screen]
      <3>1. \A S \in SUBSET (1 .. n) : S = {}
        BY <2>3
      <3>2. f \in [SUBSET (1 .. n) -> Screen]
        OBVIOUS
      <3>3. \A S \in SUBSET (1 .. n) : f[S] = body(f, S)
        BY <3>1
      <3> HIDE DEF f, body
      <3> QED
        BY <2>2, <3>2, <3>3
    <2>4. CASE n # 0
      <3>1. n - 1 \in 0 .. L /\ n \in 1 .. L /\ OK(n - 1)
        <4>1. n - 1 \in 0 .. L /\ ~ n <= n - 1 /\ n \in 1 .. L
          BY <1>1, <2>2, <2>4
        <4> HIDE DEF OK
        <4> QED
          BY <2>1, <4>1
      <3>2. PICK f \in [SUBSET (1 .. (n - 1)) -> Screen] :
               \A S \in SUBSET (1 .. (n - 1)) : f[S] = body(f, S)
        BY <3>1
      <3> DEFINE g == [S \in SUBSET (1 .. n) |->
                         IF n \in S THEN putchar(f[S \ {n}], text[n]) ELSE f[S]]
      <3>3. ASSUME NEW S \in SUBSET (1 .. n)
            PROVE  S \ {n} \in SUBSET (1 .. (n - 1)) /\ S \ {n} \in SUBSET (1 .. n)
        BY <3>1
      <3>4. g \in [SUBSET (1 .. n) -> Screen]
        <4>1. ASSUME NEW S \in SUBSET (1 .. n)
              PROVE  (IF n \in S THEN putchar(f[S \ {n}], text[n]) ELSE f[S]) \in Screen
          <5>1. CASE n \in S
            <6>1. f[S \ {n}] \in Screen
              BY <3>3
            <6> QED
              BY <1>1, <3>1, <5>1, <6>1, PutKeeps
          <5>2. CASE n \notin S
            <6>1. S = S \ {n}
              BY <5>2
            <6> QED
              BY <3>3, <5>2, <6>1
          <5> QED
            BY <5>1, <5>2
        <4> QED
          BY <4>1
      <3>5. ASSUME NEW S \in SUBSET (1 .. n)
            PROVE  g[S] = body(g, S)
        <4>1. CASE n \in S
          <5>1. S # {} /\ Max(S) = n
            BY <1>2, <3>1, <4>1
          <5>2. g[S] = putchar(f[S \ {n}], text[n])
            BY <4>1
          <5>3. g[S \ {n}] = f[S \ {n}]
            BY <3>3
          <5> HIDE DEF g
          <5> QED
            BY <5>1, <5>2, <5>3
        <4>2. CASE n \notin S
          <5>1. S \in SUBSET (1 .. (n - 1)) /\ g[S] = f[S]
            <6>1. S = S \ {n}
              BY <4>2
            <6> QED
              BY <3>3, <4>2, <6>1
          <5>2. g[S \ {Max(S)}] = f[S \ {Max(S)}]
            <6>1. n \notin S \ {Max(S)} /\ S \ {Max(S)} \in SUBSET (1 .. n)
              BY <4>2
            <6> QED
              BY <6>1
          <5> HIDE DEF g
          <5> QED
            BY <3>2, <5>1, <5>2
        <4> QED
          BY <4>1, <4>2
      <3> HIDE DEF g, body
      <3> QED
        BY <2>2, <3>4, <3>5
    <2> QED
      BY <2>3, <2>4
  <1> DEFINE w == CHOOSE f : f = [S \in SUBSET DOMAIN text |-> body(f, S)]
  <1>4. write(screen, text) = w[DOMAIN text]
    BY DEF write, FoldLeft, MapThenFoldSet
  <1>5. w = [S \in SUBSET (1 .. L) |-> body(w, S)]
    <2>1. PICK f \in [SUBSET (1 .. L) -> Screen] :
             \A S \in SUBSET (1 .. L) : f[S] = body(f, S)
      <3>1. OK(L)
        <4> HIDE DEF OK
        <4> QED
          BY <1>1, <1>3
      <3> QED
        BY <3>1
    <2> HIDE DEF body
    <2>2. f = [S \in SUBSET DOMAIN text |-> body(f, S)]
      BY <1>1, <2>1
    <2>3. w = [S \in SUBSET DOMAIN text |-> body(w, S)]
      BY <2>2
    <2> QED
      BY <1>1, <2>3
  <1> HIDE DEF w
  <1>6. w[1 .. 0] = screen
    BY <1>1, <1>5
  <1>7. \A n \in 1 .. L : w[1 .. n] = putchar(w[1 .. (n - 1)], text[n])
    <2> TAKE n \in 1 .. L
    <2>1. 1 .. n \in SUBSET (1 .. L) /\ n \in 1 .. n
      BY <1>1
    <2>2. (1 .. n) \ {n} = 1 .. (n - 1)
      BY <1>1
    <2>3. Max(1 .. n) = n
      BY <1>2, <2>1
    <2>4. w[1 .. n] = body(w, 1 .. n)
      <3> HIDE DEF body
      <3> QED
        BY <1>5, <2>1
    <2> QED
      BY <2>1, <2>2, <2>3, <2>4
  <1>8. \A n \in 0 .. L : w[1 .. n] \in Screen
    <2> SUFFICES ASSUME ~ \A n \in 0 .. L : w[1 .. n] \in Screen
                 PROVE  FALSE
      OBVIOUS
    <2> DEFINE T == {n \in 0 .. L : w[1 .. n] \notin Screen}
    <2>1. PICK n \in T : \A m \in T : n <= m
      <3>1. T \in SUBSET Nat /\ T # {}
        BY <1>1
      <3> HIDE DEF T
      <3> QED
        BY <3>1, SmallestNumber
    <2>2. n # 0
      BY <1>6, <2>1
    <2>3. n \in 1 .. L /\ n - 1 \in 0 .. L /\ ~ n <= n - 1
      BY <1>1, <2>1, <2>2
    <2>4. w[1 .. (n - 1)] \in Screen
      BY <2>1, <2>3
    <2>5. w[1 .. n] \in Screen
      BY <1>1, <1>7, <2>3, <2>4, PutKeeps
    <2> QED
      BY <2>1, <2>5
  <1> DEFINE h == [n \in 0 .. L |-> w[1 .. n]]
  <1>9. h \in [0 .. L -> Screen] /\ h[0] = screen /\ h[L] = write(screen, text)
    BY <1>1, <1>4, <1>6, <1>8
  <1>10. \A n \in 1 .. L : h[n] = putchar(h[n - 1], text[n])
    <2> TAKE n \in 1 .. L
    <2>1. n \in 0 .. L /\ n - 1 \in 0 .. L
      BY <1>1
    <2> QED
      BY <1>7, <2>1
  <1> HIDE DEF h
  <1> QED
    BY <1>9, <1>10

LEMMA WriteKeeps ==
    ASSUME NEW screen \in Screen, NEW text \in Seq(Printable)
    PROVE  /\ write(screen, text) \in Screen
           /\ (\A n \in Cell : n >= at(screen) => screen.cells[n] = Blank) =>
                 \A n \in Cell :
                    n >= at(write(screen, text)) => write(screen, text).cells[n] = Blank
  <1> DEFINE blank(s) == \A n \in Cell : n >= at(s) => s.cells[n] = Blank
             L == Len(text)
  <1>1. PICK h \in [0 .. L -> Screen] :
           /\ h[0] = screen /\ h[L] = write(screen, text)
           /\ \A n \in 1 .. L : h[n] = putchar(h[n - 1], text[n])
    BY Written
  <1>2. L \in Nat /\ \A n \in 1 .. L : text[n] \in Printable
    OBVIOUS
  <1>3. ASSUME blank(screen)
        PROVE  \A n \in 0 .. L : blank(h[n])
    <2> SUFFICES ASSUME ~ \A n \in 0 .. L : blank(h[n])
                 PROVE  FALSE
      OBVIOUS
    <2> DEFINE T == {n \in 0 .. L : ~ blank(h[n])}
    <2>1. PICK n \in T : \A m \in T : n <= m
      <3> HIDE DEF blank
      <3>1. T \in SUBSET Nat /\ T # {}
        BY <1>2
      <3> HIDE DEF T
      <3> QED
        BY <3>1, SmallestNumber
    <2> HIDE DEF blank
    <2>2. n # 0
      BY <1>1, <1>3, <2>1
    <2>3. n \in 1 .. L /\ n - 1 \in 0 .. L /\ ~ n <= n - 1
      BY <1>2, <2>1, <2>2
    <2>4. blank(h[n - 1]) /\ h[n - 1] \in Screen
      BY <2>1, <2>3
    <2>5. blank(h[n])
      <3> DEFINE s == h[n - 1]
                 c == text[n]
      <3>1. c \in Printable /\ h[n] = putchar(s, c)
        BY <1>1, <1>2, <2>3
      <3>2. blank(s) /\ s \in Screen
        BY <2>4
      <3> HIDE DEF s, c
      <3>3. blank(putchar(s, c))
        BY <3>1, <3>2, PutKeeps DEF blank
      <3> QED
        BY <3>1, <3>3
    <2> QED
      BY <2>1, <2>5
  <1>4. 0 \in 0 .. L /\ L \in 0 .. L
    BY <1>2
  <1>5. write(screen, text) \in Screen
    BY <1>1, <1>4
  <1>6. blank(screen) => blank(write(screen, text))
    <2> HIDE DEF blank
    <2> QED
      BY <1>1, <1>3, <1>4
  <1> QED
    BY <1>5, <1>6

\* A text that fits the rest of its row.
LEMMA WriteInRow ==
    ASSUME NEW screen \in Screen, NEW text \in Seq(Glyph),
           screen.col + Len(text) < VGA_WIDTH
    PROVE  LET t == write(screen, text)
           IN  /\ t \in Screen
               /\ t.row = screen.row /\ t.col = screen.col + Len(text)
               /\ \A c \in Cell :
                     t.cells[c] = IF at(screen) <= c /\ c < at(screen) + Len(text)
                                  THEN text[c - at(screen) + 1] ELSE screen.cells[c]
  <1> DEFINE L == Len(text)
             written(s, n) ==
                /\ s.row = screen.row /\ s.col = screen.col + n
                /\ \A c \in Cell :
                      s.cells[c] = IF at(screen) <= c /\ c < at(screen) + n
                                   THEN text[c - at(screen) + 1] ELSE screen.cells[c]
  <1>1. /\ L \in Nat /\ (\A n \in 1 .. L : text[n] \in Glyph)
        /\ text \in Seq(Printable) /\ VGA_WIDTH \in Nat
    BY TerminalAssumption DEF Printable
  <1>2. PICK h \in [0 .. L -> Screen] :
           /\ h[0] = screen /\ h[L] = write(screen, text)
           /\ \A n \in 1 .. L : h[n] = putchar(h[n - 1], text[n])
    BY <1>1, Written
  <1>3. /\ at(screen) \in Cell /\ at(screen) \in Nat /\ screen.col \in Nat
        /\ Cell \subseteq Nat
    BY Positions DEF Cell, Col
  <1>4. \A n \in 0 .. L : written(h[n], n)
    <2> SUFFICES ASSUME ~ \A n \in 0 .. L : written(h[n], n)
                 PROVE  FALSE
      OBVIOUS
    <2> DEFINE T == {n \in 0 .. L : ~ written(h[n], n)}
    <2>1. PICK n \in T : \A m \in T : n <= m
      <3> HIDE DEF written
      <3>1. T \in SUBSET Nat /\ T # {}
        BY <1>1
      <3> HIDE DEF T
      <3> QED
        BY <3>1, SmallestNumber
    <2>2. written(screen, 0)
      BY <1>3
    <2> HIDE DEF written
    <2>3. n # 0
      BY <1>2, <2>1, <2>2
    <2>4. n \in 1 .. L /\ n - 1 \in 0 .. L /\ ~ n <= n - 1
      BY <1>1, <2>1, <2>3
    <2> DEFINE s == h[n - 1]
    <2>5. written(s, n - 1) /\ s \in Screen
      BY <1>2, <2>1, <2>4
    <2>6. h[n] = putchar(s, text[n]) /\ text[n] \in Glyph
      BY <1>1, <1>2, <2>4
    <2> HIDE DEF s
    <2>7. /\ s.row = screen.row /\ s.col = screen.col + (n - 1)
          /\ s.col + 1 < VGA_WIDTH /\ n \in Nat
      BY <1>1, <1>3, <2>4, <2>5 DEF written
    <2>8. h[n] = [cells |-> [s.cells EXCEPT ![at(s)] = text[n]],
                  row |-> s.row, col |-> s.col + 1]
      BY <2>5, <2>6, <2>7, PutInRow
    <2>9. at(s) = at(screen) + (n - 1)
      <3>1. start(screen.row) \in Nat
        BY Positions, Starts
      <3> QED
        BY <1>3, <2>7, <3>1 DEF at
    <2>10. s.cells \in [Cell -> Glyph]
      BY <2>5, Positions
    <2>11. ASSUME NEW c \in Cell
           PROVE  h[n].cells[c] = IF at(screen) <= c /\ c < at(screen) + n
                                  THEN text[c - at(screen) + 1] ELSE screen.cells[c]
      <3>1. h[n].cells[c] = IF c = at(s) THEN text[n] ELSE s.cells[c]
        BY <2>8, <2>10
      <3>2. s.cells[c] = IF at(screen) <= c /\ c < at(screen) + (n - 1)
                         THEN text[c - at(screen) + 1] ELSE screen.cells[c]
        BY <2>5 DEF written
      <3>3. c \in Nat
        BY <1>3
      <3>4. CASE c = at(s)
        <4>1. c - at(screen) + 1 = n /\ at(screen) <= c /\ c < at(screen) + n
          BY <1>3, <2>4, <2>7, <2>9, <3>4
        <4> QED
          BY <3>1, <3>4, <4>1
      <3>5. CASE c # at(s)
        <4>1. c < at(screen) + n <=> c < at(screen) + (n - 1)
          BY <1>3, <2>7, <2>9, <3>3, <3>5
        <4> QED
          BY <3>1, <3>2, <3>5, <4>1
      <3> QED
        BY <3>4, <3>5
    <2>12. h[n].row = screen.row /\ h[n].col = screen.col + n
      BY <1>3, <2>7, <2>8
    <2>13. written(h[n], n)
      BY <2>11, <2>12 DEF written
    <2> QED
      BY <2>1, <2>13
  <1>5. L \in 0 .. L
    BY <1>1
  <1>6. write(screen, text) \in Screen /\ written(write(screen, text), L)
    <2> HIDE DEF written
    <2> QED
      BY <1>2, <1>4, <1>5
  <1> QED
    BY <1>6

-----------------------------------------------------------------------------
(***************************************************************************)
(* Sequences and C strings.                                                *)
(***************************************************************************)

LEMMA Bounds ==
    /\ COMMAND_BUFFER_SIZE \in Nat \ {0} /\ HISTORY_SIZE \in Nat \ {0}
    /\ 0 \in Index /\ Index \subseteq Nat
    /\ \A n \in Index : n <= COMMAND_BUFFER_SIZE - 1
    /\ \A n \in Nat : n <= COMMAND_BUFFER_SIZE - 1 => n \in Index
    /\ COMMAND_BUFFER_SIZE - 1 \in Nat
  BY ConsoleAssumption DEF Index

LEMMA Strings ==
    \A S : \A n \in Nat : BoundedSeq(S, n) = {s \in Seq(S) : Len(s) <= n}
  <1> TAKE S
  <1> TAKE n \in Nat
  <1>1. ASSUME NEW s \in BoundedSeq(S, n)
        PROVE  s \in Seq(S) /\ Len(s) <= n
    <2>1. PICK m \in 0 .. n : s \in [1 .. m -> S]
      BY DEF BoundedSeq, SeqOf
    <2>2. s \in Seq(S)
      BY <2>1, SeqDef
    <2>3. Len(s) = m
      BY <2>1, <2>2
    <2> QED
      BY <2>1, <2>2, <2>3
  <1>2. ASSUME NEW s \in Seq(S), Len(s) <= n
        PROVE  s \in BoundedSeq(S, n)
    <2>1. Len(s) \in 0 .. n /\ s \in [1 .. Len(s) -> S]
      BY <1>2, LenProperties
    <2> QED
      BY <2>1 DEF BoundedSeq, SeqOf
  <1> QED
    BY <1>1, <1>2

\* What it is to put an element into a sequence, and to take one out.
LEMMA Inserted ==
    ASSUME NEW S, NEW s \in Seq(S), NEW i \in 1 .. (Len(s) + 1), NEW e \in S,
           NEW t \in Seq(S), Len(t) = Len(s) + 1,
           \A k \in 1 .. (Len(s) + 1) :
              t[k] = IF k < i THEN s[k] ELSE IF k = i THEN e ELSE s[k - 1]
    PROVE  t = InsertAt(s, i, e)
  <1> DEFINE a == SubSeq(s, 1, i - 1)
             b == <<e>>
             c == SubSeq(s, i, Len(s))
  <1>1. Len(s) \in Nat /\ i \in Nat /\ i >= 1 /\ i <= Len(s) + 1
    OBVIOUS
  <1>2. a \in Seq(S) /\ Len(a) = i - 1 /\ \A k \in 1 .. (i - 1) : a[k] = s[k]
    <2>1. \A k \in 1 .. (i - 1) : s[k] \in S
      BY <1>1
    <2> QED
      BY <1>1, <2>1, SubSeqProperties
  <1>3. /\ c \in Seq(S) /\ Len(c) = Len(s) - i + 1
        /\ \A k \in 1 .. (Len(s) - i + 1) : c[k] = s[i + k - 1]
    <2>1. \A k \in i .. Len(s) : s[k] \in S
      BY <1>1
    <2> QED
      BY <1>1, <2>1, SubSeqProperties
  <1>4. b \in Seq(S) /\ Len(b) = 1 /\ b[1] = e
    OBVIOUS
  <1> HIDE DEF a, b, c
  <1>5. /\ a \o b \in Seq(S) /\ Len(a \o b) = i
        /\ \A k \in 1 .. i : (a \o b)[k] = IF k < i THEN s[k] ELSE e
    <2>1. /\ a \o b \in Seq(S) /\ Len(a \o b) = Len(a) + Len(b)
          /\ \A k \in 1 .. Len(a) + Len(b) :
                (a \o b)[k] = IF k <= Len(a) THEN a[k] ELSE b[k - Len(a)]
      BY <1>2, <1>4, ConcatProperties
    <2> QED
      BY <1>1, <1>2, <1>4, <2>1
  <1> DEFINE d == a \o b
             u == d \o c
  <1>6. /\ u \in Seq(S) /\ Len(u) = Len(s) + 1
        /\ \A k \in 1 .. (Len(s) + 1) :
              u[k] = IF k < i THEN s[k] ELSE IF k = i THEN e ELSE s[k - 1]
    <2> HIDE DEF d
    <2>1. /\ d \in Seq(S) /\ Len(d) = i
          /\ \A k \in 1 .. i : d[k] = IF k < i THEN s[k] ELSE e
      BY <1>5 DEF d
    <2>2. /\ u \in Seq(S) /\ Len(u) = Len(d) + Len(c)
          /\ \A k \in 1 .. Len(d) + Len(c) :
                u[k] = IF k <= Len(d) THEN d[k] ELSE c[k - Len(d)]
      BY <1>3, <2>1, ConcatProperties
    <2> HIDE DEF u
    <2>3. ASSUME NEW k \in 1 .. (Len(s) + 1)
          PROVE  u[k] = IF k < i THEN s[k] ELSE IF k = i THEN e ELSE s[k - 1]
      <3>1. CASE k <= i
        BY <1>1, <1>3, <2>1, <2>2, <3>1
      <3>2. CASE k > i
        <4>1. k - i \in 1 .. (Len(s) - i + 1) /\ i + (k - i) - 1 = k - 1
          BY <1>1, <3>2
        <4>2. u[k] = c[k - i]
          BY <1>1, <1>3, <2>1, <2>2, <3>2
        <4> QED
          BY <1>1, <1>3, <3>2, <4>1, <4>2
      <3> QED
        BY <1>1, <3>1, <3>2
    <2> QED
      BY <1>1, <1>3, <2>1, <2>2, <2>3
  <1> HIDE DEF d, u
  <1>7. t = u
    BY <1>6, SeqEqual
  <1> QED
    BY <1>7 DEF InsertAt, u, d, a, b, c

LEMMA Removed ==
    ASSUME NEW S, NEW s \in Seq(S), NEW i \in 1 .. Len(s),
           NEW t \in Seq(S), Len(t) = Len(s) - 1,
           \A k \in 1 .. (Len(s) - 1) : t[k] = IF k < i THEN s[k] ELSE s[k + 1]
    PROVE  t = RemoveAt(s, i)
  <1> DEFINE a == SubSeq(s, 1, i - 1)
             b == SubSeq(s, i + 1, Len(s))
  <1>1. Len(s) \in Nat /\ i \in Nat /\ i >= 1 /\ i <= Len(s)
    OBVIOUS
  <1>2. a \in Seq(S) /\ Len(a) = i - 1 /\ \A k \in 1 .. (i - 1) : a[k] = s[k]
    <2>1. \A k \in 1 .. (i - 1) : s[k] \in S
      BY <1>1
    <2> QED
      BY <1>1, <2>1, SubSeqProperties
  <1>3. /\ b \in Seq(S) /\ Len(b) = Len(s) - i
        /\ \A k \in 1 .. (Len(s) - i) : b[k] = s[i + k]
    <2>1. \A k \in (i + 1) .. Len(s) : s[k] \in S
      BY <1>1
    <2>2. /\ b \in Seq(S) /\ Len(b) = IF i + 1 <= Len(s) THEN Len(s) - (i + 1) + 1 ELSE 0
          /\ \A k \in 1 .. Len(s) - (i + 1) + 1 : b[k] = s[(i + 1) + k - 1]
      BY <1>1, <2>1, SubSeqProperties
    <2> HIDE DEF b
    <2>3. Len(b) = Len(s) - i
      BY <1>1, <2>2
    <2>4. ASSUME NEW k \in 1 .. (Len(s) - i)
          PROVE  b[k] = s[i + k]
      <3>1. k \in 1 .. Len(s) - (i + 1) + 1 /\ (i + 1) + k - 1 = i + k
        BY <1>1
      <3> QED
        BY <2>2, <3>1
    <2> QED
      BY <2>2, <2>3, <2>4
  <1> HIDE DEF a, b
  <1> DEFINE u == a \o b
  <1>4. /\ u \in Seq(S) /\ Len(u) = Len(a) + Len(b)
        /\ \A k \in 1 .. Len(a) + Len(b) :
              u[k] = IF k <= Len(a) THEN a[k] ELSE b[k - Len(a)]
    BY <1>2, <1>3, ConcatProperties
  <1> HIDE DEF u
  <1>5. Len(u) = Len(t)
    BY <1>1, <1>2, <1>3, <1>4
  <1>6. ASSUME NEW k \in 1 .. Len(t)
        PROVE  t[k] = u[k]
    <2>1. k \in 1 .. (Len(s) - 1) /\ k \in Nat /\ k >= 1 /\ k <= Len(s) - 1
      BY <1>1
    <2>2. u[k] = IF k <= Len(a) THEN a[k] ELSE b[k - Len(a)]
      <3>1. k \in 1 .. Len(a) + Len(b)
        BY <1>1, <1>2, <1>3, <2>1
      <3> QED
        BY <1>4, <3>1
    <2>3. CASE k < i
      <3>1. k \in 1 .. (i - 1) /\ k <= Len(a)
        BY <1>1, <1>2, <2>1, <2>3
      <3> QED
        BY <1>2, <2>1, <2>2, <2>3, <3>1
    <2>4. CASE ~ k < i
      <3>1. k - (i - 1) \in 1 .. (Len(s) - i) /\ i + (k - (i - 1)) = k + 1 /\ ~ k <= Len(a)
        BY <1>1, <1>2, <2>1, <2>4
      <3>2. u[k] = b[k - (i - 1)]
        BY <1>2, <2>2, <3>1
      <3> QED
        BY <1>3, <2>1, <2>4, <3>1, <3>2
    <2> QED
      BY <2>3, <2>4
  <1>7. t = u
    BY <1>4, <1>5, <1>6, SeqEqual
  <1> QED
    BY <1>7 DEF RemoveAt, u, a, b

Array == [Index -> Char \cup {Nul}]

\* Where there is a 0 there is a first one.
LEMMA FirstNul ==
    ASSUME NEW array \in Array, NEW from \in Index,
           NEW n \in Index, n >= from, array[n] = Nul
    PROVE  LET z == first_nul(array, from)
           IN  /\ z \in Index /\ z >= from /\ z <= n /\ array[z] = Nul
               /\ \A k \in from .. (z - 1) : array[k] # Nul
  <1> DEFINE T == {k \in Index : k >= from /\ array[k] = Nul}
  <1>1. PICK y \in T : \A m \in T : y <= m
    <2>1. T \in SUBSET Nat /\ T # {}
      BY Bounds
    <2> HIDE DEF T
    <2> QED
      BY <2>1, SmallestNumber
  <1>2. \A k \in from .. (y - 1) : array[k] # Nul
    <2> TAKE k \in from .. (y - 1)
    <2>1. k \in Index /\ ~ y <= k /\ k >= from
      BY <1>1, Bounds
    <2> QED
      BY <1>1, <2>1
  <1> DEFINE good(z) == /\ z >= from /\ array[z] = Nul
                        /\ \A k \in from .. (z - 1) : array[k] # Nul
             z == first_nul(array, from)
  <1>3. z \in Index /\ good(z)
    <2>1. \E x \in Index : good(x)
      BY <1>1, <1>2
    <2>2. z = CHOOSE x \in Index : good(x)
      BY DEF first_nul
    <2> HIDE DEF good, z
    <2> QED
      BY <2>1, <2>2
  <1> HIDE DEF z
  <1>4. z <= n
    BY <1>3, Bounds
  <1> QED
    BY <1>3, <1>4 DEF z

\* So the string of an array is made of what is before it.
LEMMA StringOf ==
    ASSUME NEW array \in Array, NEW n \in Index, array[n] = Nul
    PROVE  LET s == string_of(array)
           IN  /\ s \in String /\ s \in Seq(Char \ {Nul}) /\ Len(s) <= n
               /\ array[Len(s)] = Nul /\ Len(s) \in Index
               /\ \A k \in 1 .. Len(s) : s[k] = array[k - 1]
  <1> DEFINE z == first_nul(array, 0)
             s == string_of(array)
  <1>1. /\ z \in Index /\ z >= 0 /\ z <= n /\ array[z] = Nul
        /\ \A k \in 0 .. (z - 1) : array[k] # Nul
    <2>1. 0 \in Index /\ n >= 0
      BY Bounds
    <2> QED
      BY <2>1, FirstNul
  <1> HIDE DEF z
  <1>2. s = [k \in 1 .. z |-> array[k - 1]]
    BY DEF string_of, z
  <1> HIDE DEF s
  <1>3. z \in Nat
    BY <1>1, Bounds
  <1>4. \A k \in 1 .. z : array[k - 1] \in Char \ {Nul}
    <2> TAKE k \in 1 .. z
    <2>1. k - 1 \in Index /\ k - 1 \in 0 .. (z - 1)
      BY <1>1, <1>3, Bounds
    <2> QED
      BY <1>1, <2>1 DEF Array
  <1>5. s \in Seq(Char \ {Nul}) /\ Len(s) = z
    BY <1>2, <1>3, <1>4
  <1>6. s \in String
    BY <1>1, <1>5, Bounds, Strings DEF String
  <1> QED
    BY <1>1, <1>2, <1>5, <1>6 DEF s

\* A string without a 0 before n, and a 0 there.
LEMMA WholeString ==
    ASSUME NEW array \in Array, NEW n \in Index, array[n] = Nul,
           \A k \in 0 .. (n - 1) : array[k] # Nul
    PROVE  string_of(array) = [k \in 1 .. n |-> array[k - 1]]
  <1> DEFINE z == first_nul(array, 0)
  <1>1. z \in Index /\ z <= n /\ array[z] = Nul /\ n \in Nat /\ z \in Nat
    <2>1. 0 \in Index /\ n >= 0 /\ Index \subseteq Nat
      BY Bounds
    <2> QED
      BY <2>1, FirstNul
  <1> HIDE DEF z
  <1>2. z = n
    BY <1>1
  <1> QED
    BY <1>2 DEF string_of, z

LEMMA Copied ==
    ASSUME command_buffer \in Array, NEW s \in String
    PROVE  /\ copied(s) \in Array /\ Len(s) \in Index /\ copied(s)[Len(s)] = Nul
           /\ \A k \in 0 .. (Len(s) - 1) : copied(s)[k] \in Char \ {Nul}
           /\ string_of(copied(s)) = s
           /\ [k \in 1 .. Len(s) |-> copied(s)[k - 1]] = s
  <1> DEFINE c == copied(s)
  <1>1. s \in Seq(Char \ {Nul}) /\ Len(s) <= COMMAND_BUFFER_SIZE - 1 /\ Len(s) \in Nat
    BY Bounds, Strings DEF String
  <1>2. Len(s) \in Index
    BY <1>1, Bounds
  <1>3. c = [k \in Index |-> IF k < Len(s) THEN s[k + 1]
                             ELSE IF k = Len(s) THEN Nul ELSE command_buffer[k]]
    BY DEF copied
  <1> HIDE DEF c
  <1>4. \A k \in 0 .. (Len(s) - 1) : c[k] = s[k + 1] /\ s[k + 1] \in Char \ {Nul}
    <2> TAKE k \in 0 .. (Len(s) - 1)
    <2>1. k \in Index /\ k < Len(s) /\ k + 1 \in 1 .. Len(s)
      BY <1>1, <1>2, Bounds
    <2> QED
      BY <1>1, <1>3, <2>1
  <1>5. c \in Array
    <2>1. \A k \in Index : (IF k < Len(s) THEN s[k + 1]
                            ELSE IF k = Len(s) THEN Nul ELSE command_buffer[k])
                              \in Char \cup {Nul}
      <3> TAKE k \in Index
      <3>1. k < Len(s) => k + 1 \in 1 .. Len(s)
        BY <1>1, Bounds
      <3> QED
        BY <1>1, <3>1 DEF Array
    <2> QED
      BY <1>3, <2>1 DEF Array
  <1>6. c[Len(s)] = Nul
    BY <1>1, <1>2, <1>3
  <1>7. [k \in 1 .. Len(s) |-> c[k - 1]] = s
    <2>1. \A k \in 1 .. Len(s) : c[k - 1] = s[k]
      <3> TAKE k \in 1 .. Len(s)
      <3>1. k - 1 \in 0 .. (Len(s) - 1) /\ (k - 1) + 1 = k
        BY <1>1
      <3> QED
        BY <1>4, <3>1
    <2>2. s = [k \in 1 .. Len(s) |-> s[k]]
      BY <1>1, LenProperties
    <2> QED
      BY <2>1, <2>2
  <1>8. string_of(c) = s
    BY <1>2, <1>4, <1>5, <1>6, <1>7, WholeString
  <1> QED
    BY <1>2, <1>4, <1>5, <1>6, <1>7, <1>8 DEF c

-----------------------------------------------------------------------------
(***************************************************************************)
(* The line.                                                               *)
(***************************************************************************)

\* A buffer with a line of length n in it, and the cursor in the line.
Holds(b, n, c) ==
    /\ b \in Array /\ n \in Index /\ c \in 0 .. n
    /\ b[n] = Nul
    /\ \A k \in 0 .. (n - 1) : b[k] \in Char

text(b, n) == [k \in 1 .. n |-> b[k - 1]]

LEMMA Text ==
    ASSUME NEW b, NEW n, NEW c, Holds(b, n, c)
    PROVE  /\ n \in Nat /\ n <= COMMAND_BUFFER_SIZE - 1 /\ c \in Nat
           /\ text(b, n) \in Seq(Char) /\ Len(text(b, n)) = n
           /\ \A k \in 1 .. n : text(b, n)[k] = b[k - 1] /\ b[k - 1] \in Char
  <1>1. n \in Nat /\ n <= COMMAND_BUFFER_SIZE - 1 /\ c \in Nat
    BY Bounds DEF Holds
  <1>2. \A k \in 1 .. n : b[k - 1] \in Char
    <2> TAKE k \in 1 .. n
    <2>1. k - 1 \in 0 .. (n - 1)
      BY <1>1
    <2> QED
      BY <2>1 DEF Holds
  <1>3. text(b, n) \in Seq(Char) /\ Len(text(b, n)) = n
    BY <1>1, <1>2 DEF text
  <1> QED
    BY <1>1, <1>2, <1>3 DEF text

\* A 0 in the line is one before its end.
LEMMA Intact ==
    ASSUME NEW b, NEW n, NEW c, Holds(b, n, c)
    PROVE  Nul \notin Range(text(b, n)) <=> \A k \in 0 .. (n - 1) : b[k] # Nul
  <1>1. n \in Nat /\ DOMAIN text(b, n) = 1 .. n
    BY Text DEF text
  <1>2. ASSUME NEW k \in 0 .. (n - 1), b[k] = Nul
        PROVE  Nul \in Range(text(b, n))
    <2>1. k + 1 \in 1 .. n /\ (k + 1) - 1 = k
      BY <1>1
    <2>2. text(b, n)[k + 1] = Nul
      BY <1>2, <2>1 DEF text
    <2> QED
      BY <1>1, <2>1, <2>2 DEF Range
  <1>3. ASSUME Nul \in Range(text(b, n))
        PROVE  \E k \in 0 .. (n - 1) : b[k] = Nul
    <2>1. PICK k \in 1 .. n : text(b, n)[k] = Nul
      BY <1>1, <1>3 DEF Range
    <2>2. k - 1 \in 0 .. (n - 1) /\ b[k - 1] = Nul
      BY <1>1, <2>1 DEF text
    <2> QED
      BY <2>2
  <1> QED
    BY <1>2, <1>3

\* A character put in at the cursor.
LEMMA Typed ==
    ASSUME NEW b, NEW n, NEW c, Holds(b, n, c), n < COMMAND_BUFFER_SIZE - 1,
           NEW x \in Char, NEW d,
           d = terminated([k \in Index |->
                             IF k = c THEN x
                             ELSE IF c < k /\ k <= n THEN b[k - 1] ELSE b[k]], n + 1)
    PROVE  /\ Holds(d, n + 1, c + 1)
           /\ text(d, n + 1) = InsertAt(text(b, n), c + 1, x)
  <1>1. /\ b \in Array /\ n \in Nat /\ c \in Nat /\ c <= n /\ n \in Index
        /\ n + 1 \in Index /\ n + 1 \in Nat
    <2>1. b \in Array /\ n \in Index /\ c \in 0 .. n
      BY DEF Holds
    <2> QED
      BY <2>1, Bounds
  <1> DEFINE moved == [k \in Index |->
                         IF k = c THEN x ELSE IF c < k /\ k <= n THEN b[k - 1] ELSE b[k]]
  <1>2. moved \in Array
    <2>1. ASSUME NEW k \in Index
          PROVE  (IF k = c THEN x ELSE IF c < k /\ k <= n THEN b[k - 1] ELSE b[k])
                    \in Char \cup {Nul}
      <3>1. k \in Nat /\ (c < k /\ k <= n => k - 1 \in Index)
        BY <1>1, Bounds
      <3> QED
        BY <1>1, <3>1 DEF Array
    <2> QED
      BY <2>1 DEF Array
  <1>3. /\ d \in Array /\ d[n + 1] = Nul
        /\ \A k \in Index : k # n + 1 => d[k] = moved[k]
    <2> HIDE DEF moved
    <2>1. d = [moved EXCEPT ![n + 1] = Nul]
      BY DEF terminated, moved
    <2> QED
      BY <1>1, <1>2, <2>1 DEF Array
  <1>4. ASSUME NEW k \in 0 .. n
        PROVE  d[k] = IF k = c THEN x ELSE IF c < k THEN b[k - 1] ELSE b[k]
    <2>1. k \in Index /\ k # n + 1 /\ k <= n
      BY <1>1, Bounds
    <2> QED
      BY <1>3, <2>1
  <1>5. ASSUME NEW k \in 0 .. n
        PROVE  d[k] \in Char
    <2>1. CASE k = c
      BY <1>4, <2>1
    <2>2. CASE c < k
      <3>1. k - 1 \in 0 .. (n - 1) /\ k # c
        BY <1>1, <2>2
      <3> QED
        BY <1>4, <2>2, <3>1 DEF Holds
    <2>3. CASE k < c
      <3>1. k \in 0 .. (n - 1) /\ k # c /\ ~ c < k
        BY <1>1, <2>3
      <3> QED
        BY <1>4, <3>1 DEF Holds
    <2> QED
      BY <1>1, <2>1, <2>2, <2>3
  <1>6. Holds(d, n + 1, c + 1)
    BY <1>1, <1>3, <1>5 DEF Holds
  <1> HIDE DEF moved
  <1> DEFINE s == text(b, n)
             t == text(d, n + 1)
  <1>7. /\ s \in Seq(Char) /\ Len(s) = n
        /\ \A k \in 1 .. n : s[k] = b[k - 1]
    BY Text
  <1>8. /\ t \in Seq(Char) /\ Len(t) = n + 1
        /\ \A k \in 1 .. (n + 1) : t[k] = d[k - 1]
    BY <1>6, Text
  <1> HIDE DEF s, t
  <1>9. ASSUME NEW k \in 1 .. (n + 1)
        PROVE  t[k] = IF k < c + 1 THEN s[k] ELSE IF k = c + 1 THEN x ELSE s[k - 1]
    <2>1. k - 1 \in 0 .. n /\ k \in Nat
      BY <1>1
    <2>2. t[k] = IF k - 1 = c THEN x ELSE IF c < k - 1 THEN b[k - 1 - 1] ELSE b[k - 1]
      BY <1>4, <1>8, <2>1
    <2>3. CASE k < c + 1
      <3>1. k \in 1 .. n /\ k - 1 # c /\ ~ c < k - 1
        BY <1>1, <2>1, <2>3
      <3> QED
        BY <1>7, <2>2, <2>3, <3>1
    <2>4. CASE k = c + 1
      BY <1>1, <2>1, <2>2, <2>4
    <2>5. CASE k > c + 1
      <3>1. k - 1 \in 1 .. n /\ k - 1 # c /\ c < k - 1
        BY <1>1, <2>1, <2>5
      <3> QED
        BY <1>1, <1>7, <2>1, <2>2, <2>5, <3>1
    <2> QED
      BY <1>1, <2>1, <2>3, <2>4, <2>5
  <1>10. c + 1 \in 1 .. (Len(s) + 1)
    BY <1>1, <1>7
  <1>11. t = InsertAt(s, c + 1, x)
    BY <1>7, <1>8, <1>9, <1>10, Inserted
  <1> QED
    BY <1>6, <1>11 DEF s, t

\* A character taken out; the loop that does it stops at y.
LEMMA Taken ==
    ASSUME NEW b, NEW n, NEW c, Holds(b, n, c), NEW j \in 0 .. (n - 1),
           NEW y \in Nat, y <= n, NEW d,
           d = terminated([k \in Index |-> IF j <= k /\ k < y THEN b[k + 1] ELSE b[k]], n - 1)
    PROVE  /\ Holds(d, n - 1, 0)
           /\ y >= n - 1 => text(d, n - 1) = RemoveAt(text(b, n), j + 1)
  <1>1. /\ b \in Array /\ n \in Nat \ {0} /\ n \in Index /\ j \in Nat /\ j <= n - 1
        /\ n - 1 \in Index /\ n - 1 \in Nat
    <2>1. b \in Array /\ n \in Index
      BY DEF Holds
    <2> QED
      BY <2>1, Bounds
  <1> DEFINE moved == [k \in Index |-> IF j <= k /\ k < y THEN b[k + 1] ELSE b[k]]
  <1>2. moved \in Array
    <2>1. ASSUME NEW k \in Index
          PROVE  (IF j <= k /\ k < y THEN b[k + 1] ELSE b[k]) \in Char \cup {Nul}
      <3>1. k \in Nat /\ (k < y => k + 1 \in Index)
        BY <1>1, Bounds
      <3> QED
        BY <1>1, <3>1 DEF Array
    <2> QED
      BY <2>1 DEF Array
  <1>3. /\ d \in Array /\ d[n - 1] = Nul
        /\ \A k \in Index : k # n - 1 => d[k] = moved[k]
    <2> HIDE DEF moved
    <2>1. d = [moved EXCEPT ![n - 1] = Nul]
      BY DEF terminated, moved
    <2> QED
      BY <1>1, <1>2, <2>1 DEF Array
  <1>4. ASSUME NEW k \in 0 .. (n - 1 - 1)
        PROVE  d[k] = IF j <= k /\ k < y THEN b[k + 1] ELSE b[k]
    <2>1. k \in Index /\ k # n - 1
      BY <1>1, Bounds
    <2> QED
      BY <1>3, <2>1
  <1>5. ASSUME NEW k \in 0 .. (n - 1 - 1)
        PROVE  d[k] \in Char
    <2>1. k \in 0 .. (n - 1) /\ k + 1 \in 0 .. (n - 1)
      BY <1>1
    <2> QED
      BY <1>4, <2>1 DEF Holds
  <1>6. Holds(d, n - 1, 0)
    BY <1>1, <1>3, <1>5 DEF Holds
  <1> HIDE DEF moved
  <1> DEFINE s == text(b, n)
             t == text(d, n - 1)
  <1>7. /\ s \in Seq(Char) /\ Len(s) = n
        /\ \A k \in 1 .. n : s[k] = b[k - 1]
    BY Text
  <1>8. /\ t \in Seq(Char) /\ Len(t) = n - 1
        /\ \A k \in 1 .. (n - 1) : t[k] = d[k - 1]
    BY <1>6, Text
  <1> HIDE DEF s, t
  <1>9. ASSUME y >= n - 1, NEW k \in 1 .. (n - 1)
        PROVE  t[k] = IF k < j + 1 THEN s[k] ELSE s[k + 1]
    <2>1. k - 1 \in 0 .. (n - 1 - 1) /\ k \in Nat /\ k - 1 < y /\ (k - 1) + 1 = k
      BY <1>1, <1>9
    <2>2. t[k] = IF j <= k - 1 THEN b[k] ELSE b[k - 1]
      BY <1>4, <1>8, <2>1
    <2>3. k \in 1 .. n /\ k + 1 \in 1 .. n /\ (k + 1) - 1 = k
      BY <1>1, <2>1
    <2>4. s[k] = b[k - 1] /\ s[k + 1] = b[k]
      BY <1>7, <2>3
    <2> QED
      BY <1>1, <2>1, <2>2, <2>4
  <1>10. j + 1 \in 1 .. Len(s)
    BY <1>1, <1>7
  <1>11. y >= n - 1 => t = RemoveAt(s, j + 1)
    BY <1>7, <1>8, <1>9, <1>10, Removed
  <1> QED
    BY <1>6, <1>11 DEF s, t

-----------------------------------------------------------------------------
(***************************************************************************)
(* The line editor: the invariant, and what every step does to the line,   *)
(* the history and the line entered.                                       *)
(***************************************************************************)

EditorInv ==
    /\ Holds(command_buffer, command_length, cursor_index)
    /\ completed_line \in String /\ current_line \in String
    /\ line_ready \in BOOLEAN /\ browsing_history \in BOOLEAN
    /\ history \in Seq(String) /\ Len(history) <= HISTORY_SIZE
    /\ history_view_index \in Nat
    /\ BrowsingShowsHistory
    /\ loop \in {"drain", "execute"}

draft == IF browsing_history THEN current_line ELSE NoLine
entered == IF line_ready THEN completed_line ELSE NoLine

LEMMA LineIsText ==
    /\ line = text(command_buffer, command_length)
    /\ line' = text(command_buffer', command_length')
  BY DEF line, text

LEMMA EmptyString == <<>> \in String /\ String \subseteq Seq(Char \ {Nul})
  <1> DEFINE S == Char \ {Nul}
             n == COMMAND_BUFFER_SIZE - 1
  <1>1. n \in Nat /\ String = BoundedSeq(S, n)
    BY Bounds DEF String
  <1>2. <<>> \in Seq(S) /\ Len(<<>>) <= n
    BY <1>1
  <1> HIDE DEF S, n
  <1>3. String = {s \in Seq(S) : Len(s) <= n}
    BY <1>1, Strings
  <1>4. <<>> \in String /\ String \subseteq Seq(S)
    BY <1>2, <1>3
  <1> QED
    BY <1>4 DEF S

LEMMA NoLineIsNone == NoLine \notin String /\ NoLine \notin BoundedSeq(Char, COMMAND_BUFFER_SIZE - 1)
                      /\ String \subseteq BoundedSeq(Char, COMMAND_BUFFER_SIZE - 1)
  <1>1. ASSUME NEW s \in String
        PROVE  s \in BoundedSeq(Char, COMMAND_BUFFER_SIZE - 1)
    <2>1. s \in Seq(Char \ {Nul}) /\ Len(s) <= COMMAND_BUFFER_SIZE - 1
      BY Bounds, Strings DEF String
    <2>2. s \in Seq(Char)
      BY <2>1, SeqMonotonic
    <2> QED
      BY <2>1, <2>2, Bounds, Strings
  <1> QED
    BY <1>1, ConsoleAssumption

\* What LineEditor has of the community modules is what is here.
LEMMA SameOperators ==
    /\ \A s, i, e : Editor!InsertAt(s, i, e) = InsertAt(s, i, e)
    /\ \A s, i : Editor!RemoveAt(s, i) = RemoveAt(s, i)
    /\ \A f : Editor!Range(f) = Range(f)
    /\ \A S, n : Editor!BoundedSeq(S, n) = BoundedSeq(S, n)
  BY DEF Editor!InsertAt, InsertAt, Editor!RemoveAt, RemoveAt, Editor!Range, Range,
         Editor!BoundedSeq, BoundedSeq, Editor!SeqOf, SeqOf

LEMMA IntactLine == Editor!intact <=> Nul \notin Range(line)
  BY SameOperators DEF Editor!intact

\* An edit leaves the history alone, and ends the walk through it.
LEMMA AfterEdit ==
    ASSUME EditorInv, Holds(command_buffer', command_length', cursor_index'),
           exit_history_browsing, UNCHANGED <<completed, history, loop>>
    PROVE  /\ EditorInv'
           /\ draft' = NoLine /\ entered' = entered /\ history' = history
  <1>1. browsing_history' = FALSE /\ history_view_index' = 0 /\ current_line' \in String
    BY EmptyString DEF exit_history_browsing, EditorInv, BrowsingShowsHistory, browsing
  <1>2. BrowsingShowsHistory'
    <2>1. Len(history) \in Nat /\ history' = history
      BY DEF EditorInv
    <2> QED
      BY <1>1, <2>1 DEF BrowsingShowsHistory
  <1>3. Holds(command_buffer, command_length, cursor_index)'
    BY DEF Holds
  <1>4. EditorInv'
    BY <1>1, <1>2, <1>3 DEF EditorInv, completed
  <1> QED
    BY <1>1, <1>4 DEF draft, entered, completed

\* A key that finds nothing to do.
LEMMA NothingToEdit ==
    ASSUME EditorInv, exit_history_browsing, UNCHANGED <<line_state, completed, history, loop>>
    PROVE  EditorInv' /\ (Editor!intact => Editor!NoEdit)
  <1>1. /\ command_buffer' = command_buffer /\ command_length' = command_length
        /\ cursor_index' = cursor_index
    BY DEF line_state
  <1>2. Holds(command_buffer', command_length', cursor_index')
    BY <1>1 DEF EditorInv
  <1>3. /\ EditorInv'
        /\ draft' = NoLine /\ entered' = entered /\ history' = history
    BY <1>2, AfterEdit
  <1>4. line' = line
    BY <1>1, LineIsText
  <1> QED
    BY <1>1, <1>3, <1>4 DEF Editor!NoEdit, Editor!Edit, draft, entered

LEMMA CharacterStep ==
    ASSUME EditorInv, NEW x \in Char, Character(x)
    PROVE  EditorInv' /\ (Editor!intact => Editor!Insert(x) \/ Editor!NoEdit)
  <1> DEFINE b == command_buffer
             n == command_length
             c == cursor_index
             d == terminated([k \in Index |->
                                IF k = c THEN x
                                ELSE IF c < k /\ k <= n THEN b[k - 1] ELSE b[k]], n + 1)
  <1>1. /\ exit_history_browsing /\ UNCHANGED <<completed, history, loop>>
        /\ IF n < COMMAND_BUFFER_SIZE - 1
           THEN b' = d /\ n' = n + 1 /\ c' = c + 1
           ELSE UNCHANGED line_state
    BY DEF Character, EditKey, display
  <1>2. Holds(b, n, c)
    BY DEF EditorInv
  <1>3. CASE n < COMMAND_BUFFER_SIZE - 1
    <2> HIDE DEF b, n, c, d
    <2>1. b' = d /\ n' = n + 1 /\ c' = c + 1
      BY <1>1, <1>3
    <2>2. Holds(d, n + 1, c + 1) /\ text(d, n + 1) = InsertAt(text(b, n), c + 1, x)
      BY <1>2, <1>3, Typed DEF d
    <2>3. Holds(b', n', c')
      BY <2>1, <2>2
    <2>4. EditorInv' /\ draft' = NoLine /\ entered' = entered /\ history' = history
      BY <1>1, <2>3, AfterEdit DEF b, n, c
    <2>5. line' = InsertAt(line, c + 1, x)
      <3>1. line = text(b, n) /\ line' = text(b', n')
        BY LineIsText DEF b, n
      <3> QED
        BY <2>1, <2>2, <3>1
    <2>6. Len(line) < COMMAND_BUFFER_SIZE - 1
      BY <1>2, <1>3, Text, LineIsText DEF b, n
    <2>7. cursor_index' = cursor_index + 1 /\ line' = InsertAt(line, cursor_index + 1, x)
      BY <2>1, <2>5 DEF c
    <2> QED
      BY <2>4, <2>6, <2>7, SameOperators DEF Editor!Insert, Editor!Edit, draft, entered
  <1>4. CASE ~ n < COMMAND_BUFFER_SIZE - 1
    BY <1>1, <1>4, NothingToEdit
  <1> QED
    BY <1>3, <1>4

LEMMA BackspaceStep ==
    ASSUME EditorInv, Backspace
    PROVE  EditorInv' /\ (Editor!intact => Editor!EraseBefore \/ Editor!NoEdit)
  <1> DEFINE b == command_buffer
             n == command_length
             c == cursor_index
             z == first_nul(b, c)
             d == terminated([k \in Index |-> IF c - 1 <= k /\ k < z - 1
                                              THEN b[k + 1] ELSE b[k]], n - 1)
  <1>1. /\ exit_history_browsing /\ UNCHANGED <<completed, history, loop>>
        /\ IF c > 0 THEN b' = d /\ n' = n - 1 /\ c' = c - 1
                    ELSE UNCHANGED line_state
    BY DEF Backspace, EditKey, display
  <1>2. Holds(b, n, c)
    BY DEF EditorInv
  <1>3. CASE c > 0
    <2> HIDE DEF b, n, c
    <2>1. b' = d /\ n' = n - 1 /\ c' = c - 1
      BY <1>1, <1>3
    <2>2. n \in Nat /\ c \in Nat /\ c <= n /\ c \in Index /\ n \in Index /\ b \in Array /\ b[n] = Nul
      BY <1>2, Text, Bounds DEF Holds
    <2>3. z \in Index /\ z \in Nat /\ z >= c /\ z <= n /\ b[z] = Nul
      BY <2>2, FirstNul, Bounds
    <2> HIDE DEF z
    <2>4. /\ Holds(d, n - 1, 0)
          /\ z - 1 >= n - 1 => text(d, n - 1) = RemoveAt(text(b, n), (c - 1) + 1)
      <3>1. c - 1 \in 0 .. (n - 1) /\ z - 1 \in Nat /\ z - 1 <= n
        BY <1>3, <2>2, <2>3
      <3> QED
        BY <1>2, <3>1, Taken
    <2> HIDE DEF d
    <2>5. Holds(b', n', c')
      BY <1>3, <2>1, <2>2, <2>4 DEF Holds
    <2>6. EditorInv' /\ draft' = NoLine /\ entered' = entered /\ history' = history
      BY <1>1, <2>5, AfterEdit DEF b, n, c
    <2>7. line = text(b, n) /\ line' = text(b', n')
      BY LineIsText DEF b, n
    <2>8. ASSUME Editor!intact
          PROVE  line' = RemoveAt(line, c)
      <3>1. \A k \in 0 .. (n - 1) : b[k] # Nul
        BY <1>2, <2>7, <2>8, Intact, IntactLine
      <3>2. z - 1 >= n - 1 /\ (c - 1) + 1 = c
        BY <2>2, <2>3, <3>1
      <3> QED
        BY <2>1, <2>4, <2>7, <3>2
    <2> QED
      BY <1>3, <2>1, <2>6, <2>8, SameOperators DEF Editor!EraseBefore, Editor!Edit, draft, entered, c
  <1>4. CASE ~ c > 0
    BY <1>1, <1>4, NothingToEdit
  <1> QED
    BY <1>3, <1>4

LEMMA DeleteStep ==
    ASSUME EditorInv, Delete
    PROVE  EditorInv' /\ (Editor!intact => Editor!EraseAt \/ Editor!NoEdit)
  <1> DEFINE b == command_buffer
             n == command_length
             c == cursor_index
             z == first_nul(b, c)
             d == terminated([k \in Index |-> IF c <= k /\ k < z
                                              THEN b[k + 1] ELSE b[k]], n - 1)
  <1>1. /\ exit_history_browsing /\ UNCHANGED <<completed, history, loop>>
        /\ IF c < n THEN b' = d /\ n' = n - 1 /\ c' = c
                    ELSE UNCHANGED line_state
    BY DEF Delete, EditKey, display
  <1>2. Holds(b, n, c)
    BY DEF EditorInv
  <1>3. CASE c < n
    <2> HIDE DEF b, n, c
    <2>1. b' = d /\ n' = n - 1 /\ c' = c
      BY <1>1, <1>3
    <2>2. n \in Nat /\ c \in Nat /\ c <= n /\ c \in Index /\ n \in Index /\ b \in Array /\ b[n] = Nul
      BY <1>2, Text, Bounds DEF Holds
    <2>3. z \in Index /\ z \in Nat /\ z >= c /\ z <= n /\ b[z] = Nul
      BY <2>2, FirstNul, Bounds
    <2> HIDE DEF z
    <2>4. /\ Holds(d, n - 1, 0)
          /\ z >= n - 1 => text(d, n - 1) = RemoveAt(text(b, n), c + 1)
      <3>1. c \in 0 .. (n - 1)
        BY <1>3, <2>2
      <3> QED
        BY <1>2, <2>3, <3>1, Taken
    <2> HIDE DEF d
    <2>5. Holds(b', n', c')
      BY <1>3, <2>1, <2>2, <2>4 DEF Holds
    <2>6. EditorInv' /\ draft' = NoLine /\ entered' = entered /\ history' = history
      BY <1>1, <2>5, AfterEdit DEF b, n, c
    <2>7. line = text(b, n) /\ line' = text(b', n') /\ Len(line) = n
      BY <1>2, Text, LineIsText DEF b, n
    <2>8. ASSUME Editor!intact
          PROVE  line' = RemoveAt(line, c + 1)
      <3>1. \A k \in 0 .. (n - 1) : b[k] # Nul
        BY <1>2, <2>7, <2>8, Intact, IntactLine
      <3>2. z >= n - 1
        BY <2>2, <2>3, <3>1
      <3> QED
        BY <2>1, <2>4, <2>7, <3>2
    <2> QED
      BY <1>3, <2>1, <2>6, <2>7, <2>8, SameOperators DEF Editor!EraseAt, Editor!Edit, draft, entered, c
  <1>4. CASE ~ c < n
    BY <1>1, <1>4, NothingToEdit
  <1> QED
    BY <1>3, <1>4

LEMMA CursorStep ==
    ASSUME EditorInv, NEW possible \in BOOLEAN, NEW p, CursorKey(possible, p),
           possible => p \in 0 .. command_length
    PROVE  EditorInv' /\ Editor!Move(p) /\ p \in 0 .. (COMMAND_BUFFER_SIZE - 1)
  <1>1. /\ p \in 0 .. command_length /\ cursor_index' = p
        /\ command_buffer' = command_buffer /\ command_length' = command_length
        /\ UNCHANGED <<completed, history, browsing, loop>>
    BY DEF CursorKey
  <1>2. Holds(command_buffer, command_length, cursor_index)
    BY DEF EditorInv
  <1>3. Len(line) = command_length /\ line' = line
    BY <1>1, <1>2, Text, LineIsText
  <1>4. Holds(command_buffer, command_length, cursor_index)'
    BY <1>1, <1>2 DEF Holds
  <1>5. BrowsingShowsHistory'
    BY <1>1 DEF EditorInv, BrowsingShowsHistory, browsing
  <1>6. EditorInv'
    BY <1>1, <1>4, <1>5 DEF EditorInv, completed, browsing
  <1>7. Editor!Move(p)
    BY <1>1, <1>3 DEF Editor!Move, completed, browsing
  <1>8. p \in 0 .. (COMMAND_BUFFER_SIZE - 1)
    <2>1. command_length \in Nat /\ command_length <= COMMAND_BUFFER_SIZE - 1
      BY <1>2, Text
    <2> QED
      BY <1>1, <2>1, Bounds
  <1> QED
    BY <1>6, <1>7, <1>8

\* Another line in the place of the one edited.
LEMMA Loaded ==
    ASSUME EditorInv, NEW s \in String, load(s)
    PROVE  /\ Holds(command_buffer, command_length, cursor_index)'
           /\ string_of(command_buffer)' = s /\ line' = s /\ cursor_index' = Len(s)
  <1>1. /\ command_buffer' = copied(s) /\ command_length' = Len(s)
        /\ cursor_index' = Len(s)
    BY DEF load
  <1>2. command_buffer \in Array
    BY DEF EditorInv, Holds
  <1>3. /\ copied(s) \in Array /\ Len(s) \in Index /\ copied(s)[Len(s)] = Nul
        /\ \A k \in 0 .. (Len(s) - 1) : copied(s)[k] \in Char \ {Nul}
        /\ string_of(copied(s)) = s
        /\ [k \in 1 .. Len(s) |-> copied(s)[k - 1]] = s
    BY <1>2, Copied
  <1>4. Len(s) \in 0 .. Len(s)
    BY <1>3, Bounds
  <1>5. Holds(copied(s), Len(s), Len(s))
    BY <1>3, <1>4 DEF Holds
  <1>6. Holds(command_buffer', command_length', cursor_index')
    BY <1>1, <1>5
  <1>7. Holds(command_buffer, command_length, cursor_index)'
    BY <1>6 DEF Holds
  <1>8. string_of(command_buffer') = s
    BY <1>1, <1>3
  <1>9. string_of(command_buffer)' = s
    BY <1>8 DEF string_of, first_nul
  <1>10. line' = s
    BY <1>1, <1>3 DEF line
  <1> QED
    BY <1>1, <1>7, <1>9, <1>10

\* A line without a 0 in it is its string.
LEMMA LineIsString ==
    ASSUME EditorInv
    PROVE  /\ string_of(command_buffer) \in String
           /\ Editor!intact => string_of(command_buffer) = line
  <1> DEFINE b == command_buffer
             n == command_length
             c == cursor_index
  <1>1. Holds(b, n, c)
    BY DEF EditorInv
  <1> HIDE DEF b, n, c
  <1>2. b \in Array /\ n \in Index /\ b[n] = Nul
    BY <1>1 DEF Holds
  <1>3. string_of(b) \in String
    BY <1>2, StringOf
  <1>4. ASSUME Editor!intact
        PROVE  string_of(b) = line
    <2>1. line = text(b, n)
      BY LineIsText DEF b, n
    <2>2. \A k \in 0 .. (n - 1) : b[k] # Nul
      BY <1>1, <1>4, <2>1, Intact, IntactLine
    <2> QED
      BY <1>2, <2>1, <2>2, WholeString DEF text
  <1> QED
    BY <1>3, <1>4 DEF b

LEMMA UpArrowStep ==
    ASSUME EditorInv, UpArrow
    PROVE  EditorInv' /\ (Editor!intact => \E k \in DOMAIN history : Editor!Recall(k))
  <1> DEFINE k == Len(history) - history_view_index
  <1>1. /\ history_view_index < Len(history)
        /\ current_line' = IF browsing_history THEN current_line
                                               ELSE string_of(command_buffer)
        /\ browsing_history' = TRUE
        /\ history_view_index' = history_view_index + 1
        /\ load(history[k])
        /\ UNCHANGED <<completed, history, loop>>
    BY DEF UpArrow
  <1>2. history \in Seq(String) /\ Len(history) \in Nat /\ history_view_index \in Nat
    BY DEF EditorInv
  <1>3. k \in 1 .. Len(history)
    BY <1>1, <1>2
  <1> DEFINE s == history[k]
  <1>4. s \in String
    BY <1>2, <1>3
  <1>5. /\ Holds(command_buffer, command_length, cursor_index)'
        /\ string_of(command_buffer)' = s /\ line' = s /\ cursor_index' = Len(s)
    <2>1. load(s)
      BY <1>1
    <2> HIDE DEF s
    <2> QED
      BY <1>4, <2>1, Loaded
  <1>6. BrowsingShowsHistory'
    <2>1. Len(history') - history_view_index' + 1 = k
      BY <1>1, <1>2
    <2>2. /\ browsing_history' <=> history_view_index' > 0
          /\ history_view_index' <= Len(history')
      BY <1>1, <1>2
    <2>3. string_of(command_buffer)' = history'[Len(history') - history_view_index' + 1]
      BY <1>1, <1>5, <2>1
    <2> QED
      BY <2>2, <2>3 DEF BrowsingShowsHistory
  <1>7. current_line' \in String
    BY <1>1, LineIsString DEF EditorInv
  <1>8. history_view_index' \in Nat
    BY <1>1, <1>2
  <1>9. EditorInv'
    BY <1>1, <1>5, <1>6, <1>7, <1>8 DEF EditorInv, completed
  <1>10. ASSUME Editor!intact
         PROVE  Editor!Recall(k)
    <2>1. draft' = IF draft = NoLine THEN line ELSE draft
      <3>1. browsing_history => draft # NoLine
        BY NoLineIsNone DEF draft, EditorInv
      <3> QED
        BY <1>1, <1>10, <3>1, LineIsString DEF draft
    <2>2. /\ line' = history[k] /\ cursor_index' = Len(history[k])
          /\ history' = history /\ entered' = entered
      BY <1>1, <1>5 DEF entered, completed
    <2> HIDE DEF k
    <2> QED
      BY <1>10, <2>1, <2>2 DEF Editor!Recall, draft, entered
  <1>11. k \in DOMAIN history
    BY <1>2, <1>3
  <1> QED
    BY <1>9, <1>10, <1>11

LEMMA DownArrowStep ==
    ASSUME EditorInv, DownArrow
    PROVE  /\ EditorInv'
           /\ Editor!intact => (\E k \in DOMAIN history : Editor!Recall(k))
                                  \/ Editor!BackToDraft
  <1>1. browsing_history /\ UNCHANGED <<completed, history, loop>>
    BY DEF DownArrow
  <1>2. /\ history \in Seq(String) /\ Len(history) \in Nat
        /\ history_view_index \in Nat /\ history_view_index > 0
        /\ history_view_index <= Len(history)
        /\ current_line \in String
    BY <1>1 DEF EditorInv, BrowsingShowsHistory
  <1>3. draft = current_line /\ draft # NoLine
    BY <1>1, <1>2, NoLineIsNone DEF draft
  <1>4. entered' = entered /\ history' = history
    BY <1>1 DEF entered, completed
  <1>5. CASE history_view_index > 1
    <2> DEFINE k == Len(history) - history_view_index + 2
               s == history[k]
    <2>1. /\ history_view_index' = history_view_index - 1
          /\ load(s) /\ UNCHANGED <<current_line, browsing_history>>
      BY <1>5 DEF DownArrow
    <2>2. k \in 1 .. Len(history)
      BY <1>2, <1>5
    <2>3. s \in String
      BY <1>2, <2>2
    <2>4. /\ Holds(command_buffer, command_length, cursor_index)'
          /\ string_of(command_buffer)' = s /\ line' = s /\ cursor_index' = Len(s)
      <3> HIDE DEF s
      <3> QED
        BY <2>1, <2>3, Loaded
    <2>5. BrowsingShowsHistory'
      <3>1. Len(history') - history_view_index' + 1 = k
        BY <1>2, <1>4, <2>1
      <3>2. /\ browsing_history' <=> history_view_index' > 0
            /\ history_view_index' <= Len(history')
        BY <1>1, <1>2, <1>4, <1>5, <2>1
      <3>3. string_of(command_buffer)' = history'[Len(history') - history_view_index' + 1]
        BY <1>4, <2>4, <3>1
      <3> QED
        BY <3>2, <3>3 DEF BrowsingShowsHistory
    <2>6. history_view_index' \in Nat
      BY <1>2, <1>5, <2>1
    <2>7. EditorInv'
      BY <1>1, <2>1, <2>4, <2>5, <2>6 DEF EditorInv, completed
    <2>8. line' = history[k] /\ cursor_index' = Len(history[k]) /\ draft' = draft
      BY <2>1, <2>4 DEF draft
    <2>9. k \in DOMAIN history
      BY <1>2, <2>2
    <2> HIDE DEF k
    <2>10. Editor!intact => Editor!Recall(k)
      BY <1>3, <1>4, <2>8 DEF Editor!Recall, draft, entered
    <2> QED
      BY <2>7, <2>9, <2>10
  <1>6. CASE ~ history_view_index > 1
    <2>1. /\ history_view_index' = 0 /\ load(current_line)
          /\ current_line' = <<>> /\ browsing_history' = FALSE
      BY <1>6 DEF DownArrow
    <2>2. /\ Holds(command_buffer, command_length, cursor_index)'
          /\ line' = current_line /\ cursor_index' = Len(current_line)
      BY <1>2, <2>1, Loaded
    <2>3. BrowsingShowsHistory'
      BY <1>2, <1>4, <2>1 DEF BrowsingShowsHistory
    <2>4. EditorInv'
      BY <1>1, <2>1, <2>2, <2>3, EmptyString DEF EditorInv, completed
    <2>5. line' = draft /\ cursor_index' = Len(draft) /\ draft' = NoLine
      BY <1>3, <2>1, <2>2 DEF draft
    <2>6. Editor!intact => Editor!BackToDraft
      BY <1>3, <1>4, <2>5 DEF Editor!BackToDraft, draft, entered
    <2> QED
      BY <2>4, <2>6
  <1> QED
    BY <1>5, <1>6

\* The history table, one line longer.
LEMMA Saved ==
    ASSUME EditorInv, save_history_command
    PROVE  /\ history' \in Seq(String) /\ Len(history') <= HISTORY_SIZE
           /\ LET s == string_of(command_buffer)
              IN  history' = IF s = <<>> THEN history
                             ELSE IF Len(history) < HISTORY_SIZE
                                  THEN Append(history, s) ELSE Append(Tail(history), s)
  <1> DEFINE s == string_of(command_buffer)
  <1>1. /\ history \in Seq(String) /\ Len(history) <= HISTORY_SIZE /\ Len(history) \in Nat
        /\ HISTORY_SIZE \in Nat \ {0}
    BY Bounds DEF EditorInv
  <1>2. s \in String
    BY LineIsString
  <1>3. history' = IF s = <<>> THEN history
                   ELSE IF Len(history) < HISTORY_SIZE
                        THEN Append(history, s) ELSE Append(Tail(history), s)
    BY DEF save_history_command
  <1> HIDE DEF s
  <1> DEFINE kept == history' \in Seq(String) /\ Len(history') <= HISTORY_SIZE
  <1>4. ASSUME s = <<>>
        PROVE  kept
    BY <1>1, <1>3, <1>4
  <1>5. ASSUME s # <<>>, Len(history) < HISTORY_SIZE
        PROVE  kept
    <2>1. Append(history, s) \in Seq(String) /\ Len(Append(history, s)) = Len(history) + 1
      BY <1>1, <1>2, AppendProperties
    <2> QED
      BY <1>1, <1>3, <1>5, <2>1
  <1>6. ASSUME s # <<>>, ~ Len(history) < HISTORY_SIZE
        PROVE  kept
    <2>1. history # <<>>
      BY <1>1, <1>6
    <2>2. Tail(history) \in Seq(String) /\ Len(Tail(history)) = Len(history) - 1
      BY <1>1, <2>1, HeadTailProperties
    <2>3. /\ Append(Tail(history), s) \in Seq(String)
          /\ Len(Append(Tail(history), s)) = Len(Tail(history)) + 1
      BY <1>2, <2>2, AppendProperties
    <2> QED
      BY <1>1, <1>3, <1>6, <2>2, <2>3
  <1>7. kept
    BY <1>4, <1>5, <1>6
  <1> QED
    BY <1>3, <1>7 DEF s

LEMMA EnterStep ==
    ASSUME EditorInv, Enter
    PROVE  EditorInv' /\ (Editor!intact => Editor!Enter) /\ loop' = "drain"
  <1> DEFINE b == command_buffer
             n == command_length
             b0 == [b EXCEPT ![0] = Nul]
  <1>1. b \in Array /\ n \in Index /\ b[n] = Nul
    BY DEF EditorInv, Holds
  <1>2. terminated(b, n) = b
    BY <1>1 DEF terminated, Array
  <1>3. /\ completed_line' = string_of(b) /\ line_ready' = TRUE
        /\ b' = b0 /\ n' = 0 /\ cursor_index' = 0
        /\ browsing_history' = FALSE /\ history_view_index' = 0 /\ current_line' = <<>>
        /\ save_history_command /\ loop = "drain" /\ loop' = loop
    BY <1>2 DEF Enter
  <1>4. b0 \in Array /\ b0[0] = Nul
    BY <1>1, Bounds DEF Array
  <1>5. Holds(command_buffer, command_length, cursor_index)'
    <2>1. 0 \in Index /\ 0 \in 0 .. 0 /\ 0 .. (0 - 1) = {}
      BY Bounds
    <2> HIDE DEF b0
    <2> QED
      BY <1>3, <1>4, <2>1 DEF Holds
  <1>6. line' = <<>>
    BY <1>3 DEF line
  <1>7. /\ history' \in Seq(String) /\ Len(history') <= HISTORY_SIZE
        /\ LET s == string_of(b)
           IN  history' = IF s = <<>> THEN history
                          ELSE IF Len(history) < HISTORY_SIZE
                               THEN Append(history, s) ELSE Append(Tail(history), s)
    BY <1>3, Saved
  <1>8. BrowsingShowsHistory'
    <2>1. Len(history') \in Nat
      BY <1>7
    <2> QED
      BY <1>3, <2>1 DEF BrowsingShowsHistory
  <1>9. EditorInv'
    BY <1>3, <1>5, <1>7, <1>8, EmptyString, LineIsString DEF EditorInv
  <1>10. ASSUME Editor!intact
         PROVE  Editor!Enter
    <2>1. string_of(b) = line
      BY <1>10, LineIsString
    <2>2. entered' = line /\ draft' = NoLine
      BY <1>3, <2>1 DEF entered, draft
    <2>3. history' = IF line = <<>> THEN history
                     ELSE IF Len(history) < HISTORY_SIZE
                          THEN Append(history, line) ELSE Append(Tail(history), line)
      BY <1>7, <2>1
    <2> QED
      BY <1>3, <1>6, <1>10, <2>2, <2>3 DEF Editor!Enter, entered, draft
  <1> QED
    BY <1>3, <1>9, <1>10

LEMMA ReadLineStep ==
    ASSUME EditorInv, read_line
    PROVE  EditorInv' /\ Editor!Take
  <1>1. /\ line_ready /\ completed_line' = <<>> /\ line_ready' = FALSE /\ loop' = "execute"
        /\ UNCHANGED <<line_state, history, browsing>>
    BY DEF read_line
  <1>2. Holds(command_buffer, command_length, cursor_index)'
    BY <1>1 DEF EditorInv, line_state, Holds
  <1>3. BrowsingShowsHistory'
    BY <1>1 DEF EditorInv, BrowsingShowsHistory, line_state, browsing
  <1>4. EditorInv'
    BY <1>1, <1>2, <1>3, EmptyString DEF EditorInv, browsing
  <1>5. entered # NoLine /\ entered' = NoLine /\ draft' = draft
    BY <1>1, NoLineIsNone DEF entered, draft, browsing, EditorInv
  <1>6. line' = line
    BY <1>1 DEF line, line_state
  <1> QED
    BY <1>1, <1>4, <1>5, <1>6 DEF Editor!Take, entered, draft, line_state

LEMMA ExecuteCommandStep ==
    ASSUME EditorInv, ExecuteCommand
    PROVE  EditorInv' /\ Editor!Move(0)
  <1>1. /\ cursor_index' = 0 /\ loop' = "drain"
        /\ UNCHANGED <<command_buffer, command_length, completed, history, browsing>>
    BY DEF ExecuteCommand, print_prompt
  <1>2. Holds(command_buffer, command_length, cursor_index) /\ command_length \in Nat
    BY Bounds DEF EditorInv, Holds
  <1>3. Holds(command_buffer, command_length, cursor_index)'
    BY <1>1, <1>2 DEF Holds
  <1>4. BrowsingShowsHistory'
    BY <1>1 DEF EditorInv, BrowsingShowsHistory, browsing
  <1>5. EditorInv'
    BY <1>1, <1>3, <1>4 DEF EditorInv, browsing, completed
  <1>6. line' = line /\ Len(line) \in Nat
    BY <1>1, <1>2, Text, LineIsText
  <1>7. Editor!Move(0)
    BY <1>1, <1>6 DEF Editor!Move, browsing, completed
  <1> QED
    BY <1>5, <1>7

\* While there is a 0 in the line nothing is promised but what the invariant says.
LEMMA GarbledStep ==
    ASSUME EditorInv, EditorInv', ~ Editor!intact
    PROVE  Editor!Garbled
  <1> DEFINE n == COMMAND_BUFFER_SIZE - 1
  <1>0. n \in Nat
    BY Bounds
  <1>1. Holds(command_buffer', command_length', cursor_index')
    BY DEF EditorInv, Holds
  <1>2. /\ line' \in Seq(Char) /\ Len(line') <= n /\ cursor_index' \in 0 .. Len(line')
    BY <1>1, Text, LineIsText DEF Holds
  <1>3. line' \in BoundedSeq(Char, n)
    BY <1>0, <1>2, Strings
  <1>4. history' \in Seq(BoundedSeq(Char, n)) /\ Len(history') <= HISTORY_SIZE
    <2>1. history' \in Seq(String) /\ Len(history') <= HISTORY_SIZE
      BY DEF EditorInv
    <2> QED
      BY <2>1, NoLineIsNone, SeqMonotonic
  <1>5. history' \in BoundedSeq(BoundedSeq(Char, n), HISTORY_SIZE)
    <2> DEFINE S == BoundedSeq(Char, n)
    <2> HIDE DEF S
    <2>1. history' \in Seq(S) /\ HISTORY_SIZE \in Nat
      BY <1>4, Bounds DEF S
    <2>2. history' \in BoundedSeq(S, HISTORY_SIZE)
      BY <1>4, <2>1, Strings
    <2> QED
      BY <2>2 DEF S
  <1>6. {draft', entered'} \subseteq BoundedSeq(Char, n) \cup {NoLine}
    BY NoLineIsNone DEF draft, entered, EditorInv
  <1>7. Editor!Line = BoundedSeq(Char, n)
    BY SameOperators DEF Editor!Line
  <1> HIDE DEF n
  <1> QED
    BY <1>2, <1>3, <1>5, <1>6, <1>7, SameOperators DEF Editor!Garbled, draft, entered

LEMMA EditorInitially == ConsoleInit => EditorInv /\ Editor!EditorInit
  <1> SUFFICES ASSUME ConsoleInit
               PROVE  EditorInv /\ Editor!EditorInit
    OBVIOUS
  <1>1. /\ command_buffer = [k \in Index |-> Nul]
        /\ command_length = 0 /\ cursor_index = 0
        /\ completed_line = <<>> /\ line_ready = FALSE /\ history = <<>>
        /\ current_line = <<>> /\ history_view_index = 0 /\ browsing_history = FALSE
        /\ loop = "execute"
    BY DEF ConsoleInit
  <1>2. Holds(command_buffer, command_length, cursor_index)
    BY <1>1, Bounds DEF Holds, Array
  <1>3. BrowsingShowsHistory
    BY <1>1 DEF BrowsingShowsHistory
  <1>4. history \in Seq(String) /\ Len(history) <= HISTORY_SIZE
    BY <1>1, Bounds
  <1>5. EditorInv
    BY <1>1, <1>2, <1>3, <1>4, EmptyString DEF EditorInv
  <1>6. line = <<>>
    BY <1>1 DEF line
  <1>7. Editor!EditorInit
    BY <1>1, <1>6 DEF Editor!EditorInit
  <1> QED
    BY <1>5, <1>7

LEMMA EditorStep ==
    ASSUME EditorInv, [ConsoleNext]_consoleVars
    PROVE  EditorInv' /\ [Editor!EditorNext]_Editor!editorVars
  <1>1. ASSUME UNCHANGED consoleVars
        PROVE  EditorInv' /\ UNCHANGED Editor!editorVars
    <2>1. /\ UNCHANGED <<command_buffer, command_length, cursor_index, completed_line,
                         line_ready, history, current_line, history_view_index,
                         browsing_history, loop>>
      BY <1>1 DEF consoleVars, line_state, completed, browsing
    <2>2. Holds(command_buffer, command_length, cursor_index)' /\ BrowsingShowsHistory'
      BY <2>1 DEF EditorInv, Holds, BrowsingShowsHistory
    <2>3. EditorInv'
      BY <2>1, <2>2 DEF EditorInv
    <2>4. line' = line
      BY <2>1 DEF line
    <2> QED
      BY <2>1, <2>3, <2>4 DEF Editor!editorVars
  <1>2. ASSUME NEW c \in Char, Character(c)
        PROVE  EditorInv' /\ Editor!EditorNext
    BY <1>2, CharacterStep, GarbledStep DEF Editor!EditorNext
  <1>3. ASSUME Backspace
        PROVE  EditorInv' /\ Editor!EditorNext
    BY <1>3, BackspaceStep, GarbledStep DEF Editor!EditorNext
  <1>4. ASSUME Delete
        PROVE  EditorInv' /\ Editor!EditorNext
    BY <1>4, DeleteStep, GarbledStep DEF Editor!EditorNext
  <1>5. ASSUME LeftArrow \/ RightArrow \/ Home \/ End
        PROVE  EditorInv' /\ Editor!EditorNext
    <2>1. /\ command_length \in Nat /\ cursor_index \in 0 .. command_length
      BY Bounds DEF EditorInv, Holds
    <2>2. CASE LeftArrow
      <3>1. CursorKey(cursor_index > 0, cursor_index - 1) /\ (cursor_index > 0) \in BOOLEAN
        BY <2>2 DEF LeftArrow
      <3>2. (cursor_index > 0) => cursor_index - 1 \in 0 .. command_length
        BY <2>1
      <3>3. EditorInv' /\ Editor!Move(cursor_index - 1) /\ cursor_index - 1 \in 0 .. (COMMAND_BUFFER_SIZE - 1)
        BY <3>1, <3>2, CursorStep
      <3> QED
        BY <3>3 DEF Editor!EditorNext
    <2>3. CASE RightArrow
      <3>1. CursorKey(cursor_index < command_length, cursor_index + 1) /\ (cursor_index < command_length) \in BOOLEAN
        BY <2>3 DEF RightArrow
      <3>2. (cursor_index < command_length) => cursor_index + 1 \in 0 .. command_length
        BY <2>1
      <3>3. EditorInv' /\ Editor!Move(cursor_index + 1) /\ cursor_index + 1 \in 0 .. (COMMAND_BUFFER_SIZE - 1)
        BY <3>1, <3>2, CursorStep
      <3> QED
        BY <3>3 DEF Editor!EditorNext
    <2>4. CASE Home
      <3>1. CursorKey(TRUE, 0) /\ (TRUE) \in BOOLEAN
        BY <2>4 DEF Home
      <3>2. (TRUE) => 0 \in 0 .. command_length
        BY <2>1
      <3>3. EditorInv' /\ Editor!Move(0) /\ 0 \in 0 .. (COMMAND_BUFFER_SIZE - 1)
        BY <3>1, <3>2, CursorStep
      <3> QED
        BY <3>3 DEF Editor!EditorNext
    <2>5. CASE End
      <3>1. CursorKey(TRUE, command_length) /\ (TRUE) \in BOOLEAN
        BY <2>5 DEF End
      <3>2. (TRUE) => command_length \in 0 .. command_length
        BY <2>1
      <3>3. EditorInv' /\ Editor!Move(command_length) /\ command_length \in 0 .. (COMMAND_BUFFER_SIZE - 1)
        BY <3>1, <3>2, CursorStep
      <3> QED
        BY <3>3 DEF Editor!EditorNext
    <2> QED
      BY <1>5, <2>2, <2>3, <2>4, <2>5
  <1>6. ASSUME UpArrow
        PROVE  EditorInv' /\ Editor!EditorNext
    BY <1>6, UpArrowStep, GarbledStep DEF Editor!EditorNext
  <1>7. ASSUME DownArrow
        PROVE  EditorInv' /\ Editor!EditorNext
    BY <1>7, DownArrowStep, GarbledStep DEF Editor!EditorNext
  <1>8. ASSUME Enter
        PROVE  EditorInv' /\ Editor!EditorNext
    BY <1>8, EnterStep, GarbledStep DEF Editor!EditorNext
  <1>9. ASSUME read_line
        PROVE  EditorInv' /\ Editor!EditorNext
    BY <1>9, ReadLineStep DEF Editor!EditorNext
  <1>10. ASSUME ExecuteCommand
         PROVE  EditorInv' /\ Editor!EditorNext
    <2>1. 0 \in 0 .. (COMMAND_BUFFER_SIZE - 1)
      BY Bounds
    <2> QED
      BY <1>10, <2>1, ExecuteCommandStep DEF Editor!EditorNext
  <1> QED
    BY <1>1, <1>2, <1>3, <1>4, <1>5, <1>6, <1>7, <1>8, <1>9, <1>10
       DEF ConsoleNext, handle_key_event

-----------------------------------------------------------------------------
(***************************************************************************)
(* What of the line is on the screen.                                      *)
(***************************************************************************)

LEMMA SetCursor ==
    ASSUME NEW screen \in Screen, NEW row \in Int, NEW col \in Int
    PROVE  /\ set_cursor(screen, row, col) \in Screen
           /\ set_cursor(screen, row, col).cells = screen.cells
           /\ row \in Row => set_cursor(screen, row, col).row = row
           /\ col \in Col => set_cursor(screen, row, col).col = col
  <1>1. VGA_WIDTH \in Nat \ {0} /\ VGA_HEIGHT \in Nat \ {0}
    BY TerminalAssumption
  <1> DEFINE r == clamped(row, VGA_HEIGHT)
             k == clamped(col, VGA_WIDTH)
  <1>2. r \in Row /\ (row \in Row => r = row)
    BY <1>1 DEF clamped, Row
  <1>3. k \in Col /\ (col \in Col => k = col)
    BY <1>1 DEF clamped, Col
  <1>4. screen = [cells |-> screen.cells, row |-> screen.row, col |-> screen.col]
    BY DEF Screen
  <1>5. set_cursor(screen, row, col) = [screen EXCEPT !.row = r, !.col = k]
    BY DEF set_cursor
  <1> HIDE DEF r, k
  <1>6. set_cursor(screen, row, col) = [cells |-> screen.cells, row |-> r, col |-> k]
    <2>1. [screen EXCEPT !.row = r] = [cells |-> screen.cells, row |-> r, col |-> screen.col]
      BY <1>4
    <2>2. [screen EXCEPT !.row = r, !.col = k] = [[screen EXCEPT !.row = r] EXCEPT !.col = k]
      BY Zenon
    <2> QED
      BY <1>5, <2>1, <2>2
  <1>7. screen.cells \in [Cell -> Glyph]
    BY Positions
  <1> QED
    BY <1>2, <1>3, <1>6, <1>7 DEF Screen

\* A text and some blanks, both in one row, and the cursor in that row.
LEMMA Redrawn ==
    ASSUME NEW screen \in Screen, NEW row \in Row, NEW col \in Col,
           NEW s \in Seq(Glyph), NEW e \in Seq(Glyph), NEW p \in Nat,
           \A k \in 1 .. Len(e) : e[k] = Blank,
           col + Len(s) + Len(e) < VGA_WIDTH, col + p < VGA_WIDTH,
           NEW t,
           t = set_cursor(write(write(set_cursor(screen, row, col), s), e), row, col + p)
    PROVE  /\ t.row = row /\ t.col = col + p
           /\ \A c \in Cell :
                 t.cells[c] = IF start(row) + col <= c /\ c < start(row) + col + Len(s)
                              THEN s[c - (start(row) + col) + 1]
                              ELSE IF /\ start(row) + col + Len(s) <= c
                                      /\ c < start(row) + col + Len(s) + Len(e)
                                   THEN Blank ELSE screen.cells[c]
  <1> DEFINE home == start(row) + col
             s0 == set_cursor(screen, row, col)
             s1 == write(s0, s)
             s2 == write(s1, e)
  <1>1. /\ VGA_WIDTH \in Nat /\ row \in Int /\ col \in Nat /\ start(row) \in Nat
        /\ Len(s) \in Nat /\ Len(e) \in Nat /\ Cell \subseteq Nat
    <2>1. start(row) \in Nat
      BY Starts
    <2>2. row \in Int /\ col \in Nat /\ Cell \subseteq Nat /\ VGA_WIDTH \in Nat
      BY TerminalAssumption DEF Row, Col, Cell
    <2> QED
      BY <2>1, <2>2
  <1>2. s0 \in Screen /\ s0.row = row /\ s0.col = col /\ s0.cells = screen.cells
    BY <1>1, SetCursor
  <1> HIDE DEF s0
  <1>3. /\ s1 \in Screen /\ s1.row = row /\ s1.col = col + Len(s)
        /\ \A c \in Cell : s1.cells[c] = IF home <= c /\ c < home + Len(s)
                                         THEN s[c - home + 1] ELSE screen.cells[c]
    <2>1. at(s0) = home /\ s0.col + Len(s) < VGA_WIDTH
      BY <1>1, <1>2 DEF at
    <2> HIDE DEF home
    <2> QED
      BY <1>2, <2>1, WriteInRow
  <1> HIDE DEF s1
  <1>4. /\ s2 \in Screen
        /\ \A c \in Cell : s2.cells[c] = IF /\ home + Len(s) <= c
                                            /\ c < home + Len(s) + Len(e)
                                         THEN Blank ELSE s1.cells[c]
    <2>1. at(s1) = home + Len(s) /\ s1.col + Len(e) < VGA_WIDTH
      BY <1>1, <1>3 DEF at
    <2>2. /\ s2 \in Screen
          /\ \A c \in Cell : s2.cells[c] = IF at(s1) <= c /\ c < at(s1) + Len(e)
                                           THEN e[c - at(s1) + 1] ELSE s1.cells[c]
      BY <1>3, <2>1, WriteInRow
    <2>3. ASSUME NEW c \in Cell, at(s1) <= c, c < at(s1) + Len(e)
          PROVE  e[c - at(s1) + 1] = Blank
      <3>1. c - at(s1) + 1 \in 1 .. Len(e)
        BY <1>1, <2>1, <2>3
      <3> QED
        BY <3>1
    <2> HIDE DEF s2, home
    <2> QED
      BY <2>1, <2>2, <2>3
  <1> HIDE DEF s2
  <1>5. t.cells = s2.cells /\ t.row = row /\ t.col = col + p
    <2>1. col + p \in Col /\ col + p \in Int
      BY <1>1 DEF Col
    <2>2. t = set_cursor(s2, row, col + p)
      BY DEF s2, s1, s0
    <2> QED
      BY <1>1, <1>4, <2>1, <2>2, SetCursor
  <1>6. ASSUME NEW c \in Cell
        PROVE  t.cells[c] = IF home <= c /\ c < home + Len(s)
                            THEN s[c - home + 1]
                            ELSE IF home + Len(s) <= c /\ c < home + Len(s) + Len(e)
                                 THEN Blank ELSE screen.cells[c]
    <2>1. t.cells[c] = IF home + Len(s) <= c /\ c < home + Len(s) + Len(e)
                       THEN Blank ELSE s1.cells[c]
      BY <1>4, <1>5
    <2>2. s1.cells[c] = IF home <= c /\ c < home + Len(s)
                        THEN s[c - home + 1] ELSE screen.cells[c]
      BY <1>3
    <2>3. ~ (home + Len(s) <= c /\ c < home + Len(s))
      BY <1>1
    <2> HIDE DEF home
    <2> QED
      BY <2>1, <2>2, <2>3
  <1> QED
    BY <1>5, <1>6

home == start(prompt_start_row) + prompt_start_col

\* The line behind the prompt, and nothing behind and below it.
Shown ==
    /\ terminal.row = prompt_start_row
    /\ terminal.col = prompt_start_col + cursor_index
    /\ prompt_start_col + command_length < VGA_WIDTH
    /\ last_rendered_length = command_length
    /\ \A c \in Cell :
          c >= start(prompt_start_row) + VGA_WIDTH => terminal.cells[c] = Blank
    /\ ~ zero_typed =>
         /\ Nul \notin Range(line)
         /\ \A c \in Cell :
               c >= home => terminal.cells[c] = IF c < home + command_length
                                                THEN command_buffer[c - home] ELSE Blank

\* Between a line and the next prompt.
Clean ==
    /\ command_length = 0 /\ ~ zero_typed
    /\ \A c \in Cell : c >= at(terminal) => terminal.cells[c] = Blank

DisplayInv ==
    /\ terminal \in Screen
    /\ prompt_start_row \in Row /\ prompt_start_col \in Col
    /\ last_rendered_length \in Index
    /\ undisturbed \in BOOLEAN /\ zero_typed \in BOOLEAN
    /\ (undisturbed /\ loop = "drain" /\ ~ line_ready) => Shown
    /\ (undisturbed /\ (loop = "execute" \/ line_ready)) => Clean

\* What is written is made of glyphs.
LEMMA Glyphs ==
    /\ String \subseteq Seq(Glyph) /\ Seq(Glyph) \subseteq Seq(Printable)
    /\ Prompt \in Seq(Printable) /\ Outputs \subseteq Seq(Printable)
    /\ \A m \in Int : LET e == [k \in 1 .. m |-> Blank]
                      IN  /\ e \in Seq(Glyph) /\ Len(e) \in Nat
                          /\ Len(e) = IF m < 0 THEN 0 ELSE m
                          /\ \A k \in 1 .. Len(e) : e[k] = Blank
  <1>1. String \subseteq Seq(Glyph)
    <2>1. Char \ {Nul} \subseteq Glyph
      BY ConsoleAssumption
    <2>2. Seq(Char \ {Nul}) \subseteq Seq(Glyph)
      BY <2>1, SeqMonotonic
    <2> QED
      BY <2>2, EmptyString
  <1>2. Seq(Glyph) \subseteq Seq(Printable)
    BY SeqMonotonic DEF Printable
  <1>3. Outputs \subseteq Seq(Printable) /\ Prompt \in Seq(Glyph)
    BY ConsoleAssumption DEF Printable
  <1>4. ASSUME NEW m \in Int
        PROVE  LET e == [k \in 1 .. m |-> Blank]
               IN  /\ e \in Seq(Glyph) /\ Len(e) \in Nat
                   /\ Len(e) = IF m < 0 THEN 0 ELSE m
                   /\ \A k \in 1 .. Len(e) : e[k] = Blank
    <2> DEFINE n == IF m < 0 THEN 0 ELSE m
    <2>1. n \in Nat /\ 1 .. m = 1 .. n
      OBVIOUS
    <2> HIDE DEF n
    <2>2. [k \in 1 .. n |-> Blank] \in Seq(Glyph) /\ Len([k \in 1 .. n |-> Blank]) = n
      BY <2>1, TerminalAssumption
    <2>3. [k \in 1 .. m |-> Blank] = [k \in 1 .. n |-> Blank]
      BY <2>1
    <2>4. \A k \in 1 .. n : [i \in 1 .. n |-> Blank][k] = Blank
      OBVIOUS
    <2>5. n = IF m < 0 THEN 0 ELSE m
      BY DEF n
    <2> QED
      BY <2>1, <2>2, <2>3, <2>4, <2>5
  <1> QED
    BY <1>1, <1>2, <1>3, <1>4

LEMMA RedrawStep ==
    ASSUME EditorInv, EditorInv', DisplayInv, redraw_current_line,
           loop = "drain", UNCHANGED <<completed, loop>>
    PROVE  DisplayInv'
  <1> DEFINE n == command_length
             m == command_length'
             b == command_buffer'
             s == string_of(b)
             e == [k \in 1 .. (last_rendered_length - m) |-> Blank]
             t == terminal'
             row == prompt_start_row
             col == prompt_start_col
  <1>1. /\ t = set_cursor(write(write(set_cursor(terminal, row, col), s), e),
                          row, col + cursor_index')
        /\ last_rendered_length' = m
        /\ undisturbed' = (undisturbed /\ ~ line_ready /\ col + m < VGA_WIDTH)
        /\ zero_typed' = (zero_typed \/ Nul \in Range(line'))
        /\ prompt_start_row' = row /\ prompt_start_col' = col
    BY DEF redraw_current_line, stays_undisturbed, erase_rest, prompt
  <1>2. /\ line_ready' = line_ready /\ loop' = "drain"
    BY DEF completed
  <1>3. /\ Holds(command_buffer, n, cursor_index) /\ Holds(b, m, cursor_index')
    BY DEF EditorInv, Holds
  <1>4. /\ n \in Nat /\ m \in Nat /\ m \in Index /\ b \in Array /\ b[m] = Nul
        /\ cursor_index' \in Nat /\ cursor_index' <= m
    BY <1>3, Bounds DEF Holds
  <1>5. /\ s \in Seq(Char \ {Nul}) /\ s \in Seq(Glyph) /\ Len(s) <= m /\ Len(s) \in Nat
        /\ \A k \in 1 .. Len(s) : s[k] = b[k - 1]
    <2> HIDE DEF s, b, m
    <2>1. s \in String /\ s \in Seq(Char \ {Nul}) /\ Len(s) <= m
          /\ \A k \in 1 .. Len(s) : s[k] = b[k - 1]
      BY <1>4, StringOf DEF s
    <2>2. s \in Seq(Glyph)
      BY <2>1, Glyphs
    <2> QED
      BY <2>1, <2>2
  <1>6. terminal \in Screen /\ row \in Row /\ col \in Col /\ last_rendered_length \in Nat
    BY Bounds DEF DisplayInv
  <1>7. /\ e \in Seq(Glyph) /\ Len(e) \in Nat
        /\ Len(e) = IF last_rendered_length - m < 0 THEN 0 ELSE last_rendered_length - m
        /\ \A k \in 1 .. Len(e) : e[k] = Blank
    <2> DEFINE j == last_rendered_length - m
    <2>1. j \in Int
      BY <1>4, <1>6
    <2> HIDE DEF j
    <2> QED
      BY <2>1, Glyphs DEF j
  <1>8. row \in Int /\ col \in Nat /\ col < VGA_WIDTH /\ VGA_WIDTH \in Nat /\ start(row) \in Nat
    <2>1. start(row) \in Nat
      BY <1>6, Starts
    <2> QED
      BY <1>6, <2>1, TerminalAssumption DEF Row, Col
  <1> HIDE DEF s, e
  <1>9. t \in Screen
    <2> DEFINE s0 == set_cursor(terminal, row, col)
               s1 == write(s0, s)
               s2 == write(s1, e)
    <2>1. s0 \in Screen
      BY <1>6, <1>8, SetCursor
    <2> HIDE DEF s0
    <2>2. s \in Seq(Printable) /\ e \in Seq(Printable)
      BY <1>5, <1>7, Glyphs
    <2>3. s1 \in Screen
      BY <2>1, <2>2, WriteKeeps
    <2> HIDE DEF s1
    <2>4. s2 \in Screen
      BY <2>2, <2>3, WriteKeeps
    <2>5. t = set_cursor(s2, row, col + cursor_index')
      BY <1>1 DEF s0, s1, s2
    <2> HIDE DEF s2, t
    <2> QED
      BY <1>4, <1>8, <2>4, <2>5, SetCursor
  <1>10. ASSUME undisturbed'
         PROVE  Shown'
    <2>1. undisturbed /\ ~ line_ready /\ col + m < VGA_WIDTH
      BY <1>1, <1>10
    <2>2. /\ col + n < VGA_WIDTH /\ last_rendered_length = n
          /\ \A c \in Cell : c >= start(row) + VGA_WIDTH => terminal.cells[c] = Blank
          /\ ~ zero_typed =>
               \A c \in Cell :
                  c >= start(row) + col =>
                     terminal.cells[c] = IF c < start(row) + col + n
                                         THEN command_buffer[c - (start(row) + col)] ELSE Blank
      BY <2>1 DEF DisplayInv, Shown, home
    <2>3. Len(e) = IF n < m THEN 0 ELSE n - m
      BY <1>4, <1>7, <2>2
    <2>4. /\ col + Len(s) + Len(e) < VGA_WIDTH /\ col + cursor_index' < VGA_WIDTH
      BY <1>4, <1>5, <1>8, <2>1, <2>2, <2>3
    <2>5. /\ t.row = row /\ t.col = col + cursor_index'
          /\ \A c \in Cell :
                t.cells[c] = IF start(row) + col <= c /\ c < start(row) + col + Len(s)
                             THEN s[c - (start(row) + col) + 1]
                             ELSE IF /\ start(row) + col + Len(s) <= c
                                     /\ c < start(row) + col + Len(s) + Len(e)
                                  THEN Blank ELSE terminal.cells[c]
      <3> DEFINE q == cursor_index'
                 u == terminal
      <3>1. /\ u \in Screen /\ row \in Row /\ col \in Col /\ q \in Nat
            /\ s \in Seq(Glyph) /\ e \in Seq(Glyph)
        BY <1>4, <1>5, <1>6, <1>7
      <3>2. \A k \in 1 .. Len(e) : e[k] = Blank
        BY <1>7
      <3>3. t = set_cursor(write(write(set_cursor(u, row, col), s), e), row, col + q)
        BY <1>1
      <3>4. col + Len(s) + Len(e) < VGA_WIDTH /\ col + q < VGA_WIDTH
        BY <2>4
      <3> HIDE DEF t, q, u, row, col
      <3>5. /\ t.row = row /\ t.col = col + q
            /\ \A c \in Cell :
                  t.cells[c] = IF start(row) + col <= c /\ c < start(row) + col + Len(s)
                               THEN s[c - (start(row) + col) + 1]
                               ELSE IF /\ start(row) + col + Len(s) <= c
                                       /\ c < start(row) + col + Len(s) + Len(e)
                                    THEN Blank ELSE u.cells[c]
        BY <3>1, <3>2, <3>3, <3>4, Redrawn
      <3> QED
        BY <3>5 DEF q, u
    <2> DEFINE h == start(row) + col
    <2>6. h \in Nat /\ Cell \subseteq Nat
      BY <1>8 DEF Cell
    <2>7. ASSUME NEW c \in Cell, c >= start(row) + VGA_WIDTH
          PROVE  t.cells[c] = Blank
      <3>1. ~ c < h + Len(s) /\ ~ c < h + Len(s) + Len(e)
        BY <1>5, <1>7, <1>8, <2>4, <2>6, <2>7
      <3> QED
        BY <2>2, <2>5, <2>7, <3>1
    <2>8. ASSUME ~ zero_typed'
          PROVE  /\ Nul \notin Range(line')
                 /\ \A c \in Cell : c >= h => t.cells[c] = IF c < h + m THEN b[c - h] ELSE Blank
      <3>1. Nul \notin Range(line') /\ ~ zero_typed
        BY <1>1, <2>8
      <3>2. Len(s) = m
        <4> HIDE DEF b, m
        <4>1. line' = text(b, m)
          BY LineIsText DEF b, m
        <4>2. \A k \in 0 .. (m - 1) : b[k] # Nul
          BY <1>3, <3>1, <4>1, Intact
        <4>3. s = [k \in 1 .. m |-> b[k - 1]]
          BY <1>4, <4>2, WholeString DEF s
        <4> QED
          BY <1>4, <4>3
      <3>3. ASSUME NEW c \in Cell, c >= h
            PROVE  t.cells[c] = IF c < h + m THEN b[c - h] ELSE Blank
        <4>0. c \in Nat
          BY <2>6
        <4>1. CASE c < h + m
          <5>1. c - h + 1 \in 1 .. Len(s) /\ (c - h + 1) - 1 = c - h
            BY <1>4, <2>6, <3>2, <3>3, <4>0, <4>1
          <5>2. t.cells[c] = s[c - h + 1]
            BY <2>5, <3>2, <3>3, <4>1
          <5> QED
            BY <1>5, <4>1, <5>1, <5>2
        <4>2. CASE ~ c < h + m
          <5>1. CASE c < h + Len(s) + Len(e)
            BY <1>4, <2>5, <2>6, <3>2, <4>0, <4>2, <5>1
          <5>2. CASE ~ c < h + Len(s) + Len(e)
            <6>1. t.cells[c] = terminal.cells[c]
              BY <2>5, <3>2, <4>2, <5>2
            <6>2. ~ c < h + n
              BY <1>4, <2>3, <2>6, <3>2, <4>0, <4>2, <5>2
            <6> QED
              BY <2>2, <3>1, <3>3, <4>2, <6>1, <6>2
          <5> QED
            BY <5>1, <5>2
        <4> QED
          BY <4>1, <4>2
      <3> QED
        BY <3>1, <3>3
    <2>9. home' = h
      BY <1>1 DEF home, start
    <2>10. start(prompt_start_row)' = start(row)
      BY <1>1 DEF start
    <2> HIDE DEF h
    <2> QED
      BY <1>1, <2>1, <2>5, <2>7, <2>8, <2>9, <2>10 DEF Shown
  <1>11. undisturbed' => ~ line_ready'
    BY <1>1, <1>2
  <1>12. /\ undisturbed' \in BOOLEAN /\ zero_typed' \in BOOLEAN
    BY <1>1
  <1> QED
    BY <1>1, <1>2, <1>4, <1>6, <1>9, <1>10, <1>11, <1>12 DEF DisplayInv

\* A key that changes neither the line nor the screen.
LEMMA StillStep ==
    ASSUME DisplayInv, UNCHANGED <<line_state, display, completed, loop>>
    PROVE  DisplayInv'
  <1>1. UNCHANGED <<command_buffer, command_length, cursor_index, line_ready,
                    prompt_start_row, prompt_start_col, last_rendered_length,
                    terminal, undisturbed, zero_typed, loop>>
    BY DEF line_state, display, prompt, completed
  <1>2. Shown' <=> Shown
    BY <1>1 DEF Shown, line, home, start
  <1>3. Clean' <=> Clean
    BY <1>1 DEF Clean, at, start
  <1> QED
    BY <1>1, <1>2, <1>3 DEF DisplayInv

LEMMA EditKeyStep ==
    ASSUME EditorInv, EditorInv', DisplayInv, NEW possible, NEW change,
           EditKey(possible, change)
    PROVE  DisplayInv'
  <1>1. loop = "drain" /\ UNCHANGED <<completed, loop>>
    BY DEF EditKey
  <1>2. redraw_current_line \/ UNCHANGED <<line_state, display>>
    BY DEF EditKey
  <1> QED
    BY <1>1, <1>2, RedrawStep, StillStep

LEMMA CursorKeyStep ==
    ASSUME EditorInv, EditorInv', DisplayInv, NEW possible, NEW p,
           CursorKey(possible, p)
    PROVE  DisplayInv'
  <1> DEFINE t == terminal'
             row == prompt_start_row
             col == prompt_start_col
             c == cursor_index'
  <1>1. /\ loop = "drain" /\ loop' = loop /\ line_ready' = line_ready
        /\ t = set_cursor(terminal, row, col + c)
        /\ undisturbed' = (undisturbed /\ ~ line_ready /\ col + command_length < VGA_WIDTH)
        /\ UNCHANGED <<command_buffer, command_length, prompt_start_row, prompt_start_col,
                       last_rendered_length, zero_typed>>
    BY DEF CursorKey, place_cursor, stays_undisturbed, prompt, completed
  <1>2. terminal \in Screen /\ row \in Row /\ col \in Col
    BY DEF DisplayInv
  <1>3. command_length \in Nat /\ c \in Nat /\ c <= command_length
    <2>1. command_length' \in Index /\ c \in 0 .. command_length'
      BY DEF EditorInv, Holds
    <2> QED
      BY <1>1, <2>1, Bounds
  <1>4. row \in Int /\ col \in Nat /\ VGA_WIDTH \in Nat
    BY <1>2, TerminalAssumption DEF Row, Col
  <1>5. /\ t \in Screen /\ t.cells = terminal.cells /\ t.row = row
        /\ col + c \in Col => t.col = col + c
    <2> DEFINE q == col + c
    <2>1. q \in Int
      BY <1>3, <1>4
    <2> HIDE DEF q, t
    <2>2. t = set_cursor(terminal, row, q)
      BY <1>1 DEF q
    <2>3. t \in Screen /\ t.cells = terminal.cells /\ t.row = row /\ (q \in Col => t.col = q)
      BY <1>2, <1>4, <2>1, <2>2, SetCursor
    <2> QED
      BY <2>3 DEF q
  <1>6. ASSUME undisturbed'
        PROVE  Shown'
    <2>1. Shown
      BY <1>1, <1>6 DEF DisplayInv
    <2>2. col + c \in Col
      <3> DEFINE n == command_length
      <3>1. /\ col + n < VGA_WIDTH /\ c <= n
            /\ col \in Nat /\ c \in Nat /\ n \in Nat /\ VGA_WIDTH \in Nat
        BY <1>1, <1>3, <1>4, <1>6
      <3> HIDE DEF col, c, n
      <3> QED
        BY <3>1 DEF Col
    <2>3. line' = line /\ home' = home /\ start(prompt_start_row)' = start(row)
      BY <1>1 DEF line, home, start
    <2> QED
      BY <1>1, <1>5, <1>6, <2>1, <2>2, <2>3 DEF Shown
  <1>7. undisturbed' => ~ line_ready'
    BY <1>1
  <1> QED
    BY <1>1, <1>2, <1>5, <1>6, <1>7 DEF DisplayInv

LEMMA EnterDisplay ==
    ASSUME EditorInv, DisplayInv, Enter
    PROVE  DisplayInv'
  <1>1. /\ loop = "drain" /\ loop' = loop /\ line_ready' = TRUE
        /\ terminal' = putchar(terminal, NewLine)
        /\ command_length' = 0 /\ zero_typed' = FALSE
        /\ undisturbed' \in BOOLEAN /\ (undisturbed' => undisturbed /\ ~ line_ready)
        /\ UNCHANGED <<prompt_start_row, prompt_start_col, last_rendered_length>>
    BY DEF Enter, stays_undisturbed, prompt, DisplayInv
  <1>2. terminal \in Screen /\ terminal' = next_row(terminal)
    BY <1>1 DEF DisplayInv, putchar
  <1>3. /\ next_row(terminal) \in Screen
        /\ (\A c \in Cell : c >= start(terminal.row) + VGA_WIDTH
                               => terminal.cells[c] = Blank) =>
              \A c \in Cell :
                 c >= at(next_row(terminal)) => next_row(terminal).cells[c] = Blank
    BY <1>2, NextRow
  <1>4. ASSUME undisturbed'
        PROVE  Clean'
    <2>1. \A c \in Cell : c >= start(terminal.row) + VGA_WIDTH => terminal.cells[c] = Blank
      BY <1>1, <1>4 DEF DisplayInv, Shown
    <2>2. \A c \in Cell : c >= at(terminal') => terminal'.cells[c] = Blank
      BY <1>2, <1>3, <2>1
    <2>3. at(terminal') = at(terminal)'
      BY DEF at, start
    <2> QED
      BY <1>1, <2>2, <2>3 DEF Clean
  <1> QED
    BY <1>1, <1>2, <1>3, <1>4 DEF DisplayInv

LEMMA ReadLineDisplay ==
    ASSUME DisplayInv, read_line
    PROVE  DisplayInv'
  <1>1. /\ line_ready /\ loop' = "execute"
        /\ UNCHANGED <<command_buffer, command_length, cursor_index, prompt_start_row,
                       prompt_start_col, last_rendered_length, terminal, undisturbed,
                       zero_typed>>
    BY DEF read_line, line_state, display, prompt
  <1>2. Clean' <=> Clean
    BY <1>1 DEF Clean, at, start
  <1> QED
    BY <1>1, <1>2 DEF DisplayInv

\* A text on a screen that is blank from the cursor on, and the prompt.
LEMMA Prompted ==
    ASSUME NEW screen \in Screen
    PROVE  /\ write(screen, Prompt) \in Screen
           /\ (\A c \in Cell : c >= at(screen) => screen.cells[c] = Blank) =>
                 \A c \in Cell :
                    c >= at(write(screen, Prompt)) => write(screen, Prompt).cells[c] = Blank
  <1>1. Prompt \in Seq(Printable)
    BY Glyphs
  <1> QED
    BY <1>1, WriteKeeps

LEMMA Cleared ==
    /\ cleared \in Screen
    /\ \A c \in Cell : cleared.cells[c] = Blank
  <1>1. 0 \in Row /\ 0 \in Col /\ [c \in Cell |-> Blank] \in [Cell -> Glyph]
    BY TerminalAssumption DEF Row, Col
  <1> QED
    BY <1>1 DEF cleared, Screen

LEMMA ExecuteCommandDisplay ==
    ASSUME EditorInv, DisplayInv, ExecuteCommand
    PROVE  DisplayInv'
  <1>1. PICK s \in {write(terminal, x) : x \in Outputs} \cup {cleared} : print_prompt(s)
    BY DEF ExecuteCommand
  <1>2. /\ loop = "execute" /\ loop' = "drain"
        /\ terminal' = write(s, Prompt)
        /\ prompt_start_row' = terminal'.row /\ prompt_start_col' = terminal'.col
        /\ cursor_index' = 0 /\ last_rendered_length' = 0
        /\ undisturbed' = (undisturbed /\ prompt_start_col' + command_length < VGA_WIDTH)
        /\ UNCHANGED <<command_buffer, command_length, line_ready, zero_typed>>
    BY <1>1 DEF ExecuteCommand, print_prompt, completed
  <1>3. terminal \in Screen
    BY DEF DisplayInv
  <1> DEFINE kept == /\ s \in Screen
                     /\ (\A c \in Cell : c >= at(terminal) => terminal.cells[c] = Blank) =>
                           \A c \in Cell : c >= at(s) => s.cells[c] = Blank
  <1>4. kept
    <2>1. CASE s = cleared
      BY <2>1, Cleared
    <2>2. ASSUME NEW x \in Outputs, s = write(terminal, x)
          PROVE  kept
      <3>1. x \in Seq(Printable)
        BY Glyphs
      <3> QED
        BY <1>3, <2>2, <3>1, WriteKeeps
    <2> QED
      BY <2>1, <2>2
  <1>5. terminal' \in Screen /\ prompt_start_row' \in Row /\ prompt_start_col' \in Col
    <2>1. write(s, Prompt) \in Screen
      BY <1>4, Prompted
    <2> QED
      BY <1>2, <2>1, Positions
  <1>6. ASSUME undisturbed'
        PROVE  Shown'
    <2>1. Clean
      BY <1>2, <1>6 DEF DisplayInv
    <2>2. \A c \in Cell : c >= at(write(s, Prompt)) => write(s, Prompt).cells[c] = Blank
      BY <1>4, <2>1, Prompted DEF Clean
    <2>3. at(write(s, Prompt)) = home'
      BY <1>2 DEF at, home, start
    <2>4. \A c \in Cell : c >= home' => terminal'.cells[c] = Blank
      BY <1>2, <2>2, <2>3
    <2>5. /\ command_length' = 0 /\ ~ zero_typed'
      BY <1>2, <2>1 DEF Clean
    <2>6. Nul \notin Range(line')
      BY <2>5 DEF line, Range
    <2>7. /\ start(prompt_start_row') \in Nat /\ prompt_start_col' \in Nat
          /\ prompt_start_col' < VGA_WIDTH /\ VGA_WIDTH \in Nat /\ Cell \subseteq Nat
          /\ home' = start(prompt_start_row') + prompt_start_col'
      <3>1. start(prompt_start_row') \in Nat
        BY <1>5, Starts
      <3>2. home' = start(prompt_start_row') + prompt_start_col'
        BY DEF home, start
      <3> QED
        BY <1>5, <3>1, <3>2, TerminalAssumption DEF Col, Cell
    <2>8. \A c \in Cell : c >= start(prompt_start_row)' + VGA_WIDTH => terminal'.cells[c] = Blank
      <3>1. start(prompt_start_row)' = start(prompt_start_row')
        BY DEF start
      <3>2. \A c \in Cell : c >= start(prompt_start_row') + VGA_WIDTH => c >= home'
        BY <2>7
      <3> QED
        BY <2>4, <3>1, <3>2
    <2>9. \A c \in Cell : c >= home' => ~ c < home' + command_length'
      BY <2>5, <2>7
    <2>10. /\ terminal'.row = prompt_start_row' /\ last_rendered_length' = command_length'
           /\ terminal'.col = prompt_start_col' + cursor_index'
           /\ prompt_start_col' + command_length' < VGA_WIDTH
      BY <1>2, <2>5, <2>7
    <2> QED
      BY <2>4, <2>6, <2>8, <2>9, <2>10 DEF Shown
  <1>7. undisturbed' => ~ line_ready' \/ Clean'
    <2>1. ASSUME undisturbed', line_ready'
          PROVE  Clean'
      <3>1. Shown' /\ Clean
        BY <1>2, <1>6, <2>1 DEF DisplayInv
      <3>2. at(terminal') = at(terminal)' /\ at(terminal') = home'
        BY <1>2 DEF at, start, home
      <3>3. command_length' = 0 /\ ~ zero_typed'
        BY <1>2, <3>1 DEF Clean
      <3>4. \A c \in Cell : c >= at(terminal)' => terminal'.cells[c] = Blank
        <4>1. \A c \in Cell : c >= at(write(s, Prompt)) => write(s, Prompt).cells[c] = Blank
          BY <1>4, <3>1, Prompted DEF Clean
        <4> QED
          BY <1>2, <3>2, <4>1
      <3> QED
        BY <3>3, <3>4 DEF Clean
    <2> QED
      BY <2>1
  <1>8. undisturbed' \in BOOLEAN /\ zero_typed' \in BOOLEAN /\ last_rendered_length' \in Index
    BY <1>2, Bounds DEF DisplayInv
  <1> QED
    BY <1>2, <1>5, <1>6, <1>7, <1>8 DEF DisplayInv

LEMMA DisplayInitially == ConsoleInit => DisplayInv
  <1> SUFFICES ASSUME ConsoleInit
               PROVE  DisplayInv
    OBVIOUS
  <1>1. PICK x \in Outputs : terminal = write(write(cleared, x), Prompt)
    BY DEF ConsoleInit
  <1>2. /\ command_length = 0 /\ zero_typed = FALSE /\ undisturbed = TRUE
        /\ prompt_start_row = terminal.row /\ prompt_start_col = terminal.col
        /\ last_rendered_length = 0 /\ loop = "execute"
    BY DEF ConsoleInit
  <1> DEFINE s == write(cleared, x)
  <1>3. s \in Screen /\ \A c \in Cell : c >= at(s) => s.cells[c] = Blank
    <2>1. x \in Seq(Printable)
      BY Glyphs
    <2> QED
      BY <2>1, Cleared, WriteKeeps
  <1> HIDE DEF s
  <1>4. terminal \in Screen /\ \A c \in Cell : c >= at(terminal) => terminal.cells[c] = Blank
    BY <1>1, <1>3, Prompted DEF s
  <1> QED
    BY <1>2, <1>4, Bounds, Positions DEF DisplayInv, Clean

LEMMA DisplayStep ==
    ASSUME EditorInv, EditorInv', DisplayInv, [ConsoleNext]_consoleVars
    PROVE  DisplayInv'
  <1>1. CASE UNCHANGED consoleVars
    BY <1>1, StillStep DEF consoleVars
  <1>2. ASSUME NEW c \in Char, Character(c)
        PROVE  DisplayInv'
    BY <1>2, EditKeyStep DEF Character
  <1>3. CASE Backspace
    BY <1>3, EditKeyStep DEF Backspace
  <1>4. CASE Delete
    BY <1>4, EditKeyStep DEF Delete
  <1>5. CASE LeftArrow \/ RightArrow \/ Home \/ End
    BY <1>5, CursorKeyStep DEF LeftArrow, RightArrow, Home, End
  <1>6. CASE UpArrow
    BY <1>6, RedrawStep DEF UpArrow, load
  <1>7. CASE DownArrow
    BY <1>7, RedrawStep DEF DownArrow, load
  <1>8. CASE Enter
    BY <1>8, EnterDisplay
  <1>9. CASE read_line
    BY <1>9, ReadLineDisplay
  <1>10. CASE ExecuteCommand
    BY <1>10, ExecuteCommandDisplay
  <1> QED
    BY <1>1, <1>2, <1>3, <1>4, <1>5, <1>6, <1>7, <1>8, <1>9, <1>10
       DEF ConsoleNext, handle_key_event

-----------------------------------------------------------------------------
(***************************************************************************)
(* The theorems.                                                           *)
(***************************************************************************)

ConsoleInv == EditorInv /\ DisplayInv

LEMMA ConsoleStep == ConsoleInv /\ [ConsoleNext]_consoleVars => ConsoleInv'
  <1> SUFFICES ASSUME ConsoleInv, [ConsoleNext]_consoleVars
               PROVE  ConsoleInv'
    OBVIOUS
  <1>1. EditorInv' /\ EditorInv
    BY EditorStep DEF ConsoleInv
  <1>2. DisplayInv'
    BY <1>1, DisplayStep DEF ConsoleInv
  <1> QED
    BY <1>1, <1>2 DEF ConsoleInv

\* In every reachable state the buffer holds a line with the cursor in it,
\* the walk through the history is where its index says, and the screen shows
\* the line, or is blank from the cursor on between one line and the next
\* prompt.
THEOREM ConsoleInvariant == ConsoleSpec => []ConsoleInv
  <1>1. ConsoleInit => ConsoleInv
    BY EditorInitially, DisplayInitially DEF ConsoleInv
  <1> QED
    BY <1>1, ConsoleStep, PTL DEF ConsoleSpec

\* The console's buffers, indices and screen stay within their types: no key
\* moves an index out of the buffer, the history table or the screen.
THEOREM ConsoleTypeCorrect == ConsoleSpec => []ConsoleTypeOK
  <1>1. ConsoleInv => ConsoleTypeOK
    <2> SUFFICES ASSUME ConsoleInv
                 PROVE  ConsoleTypeOK
      OBVIOUS
    <2>1. EditorInv /\ DisplayInv
      BY DEF ConsoleInv
    <2>2. command_buffer \in [Index -> Char \cup {Nul}] /\ command_length \in Index
      BY <2>1 DEF EditorInv, Holds, Array
    <2>3. cursor_index \in Index
      BY <2>1, Bounds DEF EditorInv, Holds
    <2>4. history_view_index \in 0 .. HISTORY_SIZE
      BY <2>1, Bounds DEF EditorInv, BrowsingShowsHistory
    <2>5. Range(history) \subseteq String /\ Len(history) <= HISTORY_SIZE
      BY <2>1 DEF EditorInv, Range
    <2> QED
      BY <2>1, <2>2, <2>3, <2>4, <2>5 DEF ConsoleTypeOK, EditorInv, DisplayInv
  <1> QED
    BY <1>1, ConsoleInvariant, PTL

\* The line always ends inside the buffer with a 0 where command_length says,
\* and the cursor is in it, so that no loop that moves characters up to a 0
\* leaves the buffer.
THEOREM LineIsTerminated == ConsoleSpec => []LineTerminated
  <1>1. ConsoleInv => LineTerminated
    BY DEF ConsoleInv, EditorInv, Holds, LineTerminated
  <1> QED
    BY <1>1, ConsoleInvariant, PTL

\* While the history is walked, the line is the entry its index says.
THEOREM HistoryIsShown == ConsoleSpec => []BrowsingShowsHistory
  <1>1. ConsoleInv => BrowsingShowsHistory
    BY DEF ConsoleInv, EditorInv
  <1> QED
    BY <1>1, ConsoleInvariant, PTL

\* As long as the lines fit their row and nothing is typed ahead of a prompt
\* the screen shows the line being edited, nothing behind it, and the cursor
\* where the next character goes, unless a 0 has been in the line.
THEOREM LineIsOnScreen == ConsoleSpec => []ScreenShowsLine
  <1>1. ConsoleInv => ScreenShowsLine
    <2> SUFFICES ASSUME ConsoleInv, undisturbed, ~ zero_typed, loop = "drain", ~ line_ready
                 PROVE  /\ \A k \in 0 .. (VGA_WIDTH - 1 - prompt_start_col) :
                              shown(k) = IF k < command_length THEN command_buffer[k] ELSE Blank
                        /\ terminal.row = prompt_start_row
                        /\ terminal.col = prompt_start_col + cursor_index
      BY DEF ScreenShowsLine
    <2>1. /\ DisplayInv /\ EditorInv
          /\ prompt_start_row \in Row /\ prompt_start_col \in Col
      BY DEF ConsoleInv, DisplayInv
    <2>2. Shown
      BY <2>1 DEF DisplayInv
    <2>3. /\ start(prompt_start_row) \in Nat
          /\ start(prompt_start_row) + VGA_WIDTH <= VGA_WIDTH * VGA_HEIGHT
          /\ VGA_WIDTH * VGA_HEIGHT \in Nat
      BY <2>1, Starts
    <2>4. VGA_WIDTH \in Nat /\ prompt_start_col \in Nat /\ command_length \in Nat
      BY <2>1, TerminalAssumption, Bounds DEF Col, EditorInv, Holds
    <2>5. ASSUME NEW k \in 0 .. (VGA_WIDTH - 1 - prompt_start_col)
          PROVE  shown(k) = IF k < command_length THEN command_buffer[k] ELSE Blank
      <3> DEFINE c == home + k
      <3>1. /\ c \in Cell /\ c >= home /\ c - home = k /\ (c < home + command_length <=> k < command_length)
        BY <2>3, <2>4 DEF home, Cell
      <3>2. terminal.cells[c] = IF c < home + command_length
                                THEN command_buffer[c - home] ELSE Blank
        BY <2>2, <3>1 DEF Shown
      <3>3. shown(k) = terminal.cells[c]
        BY DEF shown, home, start
      <3> HIDE DEF c
      <3> QED
        BY <3>1, <3>2, <3>3
    <2> QED
      BY <2>2, <2>5 DEF Shown
  <1> QED
    BY <1>1, ConsoleInvariant, PTL

\* The array, the cursor and the history together are a line editor: for
\* every size of the buffer and the history each key, and each step of the
\* main loop, is the edit LineEditor allows or leaves all it speaks of alone.
THEOREM ConsoleIsLineEditor == ConsoleSpec => ImplementsLineEditor
  <1>1. ConsoleInit => Editor!EditorInit
    BY EditorInitially
  <1>2. ConsoleInv /\ [ConsoleNext]_consoleVars => [Editor!EditorNext]_Editor!editorVars
    BY EditorStep DEF ConsoleInv
  <1> QED
    BY <1>1, <1>2, ConsoleInvariant, PTL
       DEF ConsoleSpec, ImplementsLineEditor, Editor!EditorSpec

=============================================================================
