----------------------- MODULE ExampleInventoryProofs -----------------------
(***************************************************************************)
(* Proofs about ExampleInventory, for any pages, commands and number of    *)
(* changes.  Two facts carry them: a block is determined by its identity,  *)
(* and what an entry says of its block is decided by the block alone.      *)
(***************************************************************************)
EXTENDS ExampleInventory, SequenceTheorems, FiniteSetTheorems, WellFoundedInduction, TLAPS

----------------------------------------------------------------------------
(* Induction on the naturals without an operator parameter, the least of   *)
(* some numbers, and a function that is computed one number at a time.     *)
LEMMA LeastNatural ==
    ASSUME NEW S, S \subseteq Nat, S # {}
    PROVE  \E x \in S : \A y \in S : x <= y
<1>1. \A x, y \in Nat : y < x => <<y, x>> \in OpToRel(<, Nat)
  BY DEF OpToRel
<1>2. \E R : IsWellFoundedOn(R, Nat) /\ \A x, y \in Nat : y < x => <<y, x>> \in R
  BY <1>1, NatLessThanWellFounded, Zenon
<1>3. PICK R : IsWellFoundedOn(R, Nat) /\ \A x, y \in Nat : y < x => <<y, x>> \in R
  BY <1>2
<1>4. PICK x \in S : \A y \in S : ~(<<y, x>> \in R)
  BY <1>3, WFMin
<1>5. ASSUME NEW y \in S PROVE x <= y
  <2>1. x \in Nat /\ y \in Nat /\ ~(y < x)
    BY <1>3, <1>4
  <2> QED
    BY <2>1
<1> QED
  BY <1>5

LEMMA AllNaturals ==
    ASSUME NEW T, 0 \in T, \A k \in Nat : k \in T => k + 1 \in T
    PROVE  \A k \in Nat : k \in T
<1> DEFINE S == Nat \ T
<1> SUFFICES ASSUME S # {} PROVE FALSE
  OBVIOUS
<1>1. PICK x \in S : \A y \in S : x <= y
  <2> HIDE DEF S
  <2>1. S \subseteq Nat
    BY DEF S
  <2> QED
    BY <2>1, LeastNatural
<1>2. x \in Nat /\ x # 0 /\ x - 1 \in Nat /\ x - 1 \notin S
  BY <1>1
<1> QED
  BY <1>1, <1>2

LEMMA OneByOne ==
    ASSUME NEW n \in Nat, NEW base \in BOOLEAN, NEW G \in [1..n -> [BOOLEAN -> BOOLEAN]]
    PROVE  \E f \in [0..n -> BOOLEAN] : f[0] = base /\ \A i \in 1..n : f[i] = G[i][f[i - 1]]
<1> DEFINE Computed(m, f) == f[0] = base /\ \A i \in 1..m : f[i] = G[i][f[i - 1]]
<1> DEFINE T == {m \in Nat : m <= n => \E f \in [0..m -> BOOLEAN] : Computed(m, f)}
<1>1. 0 \in T
  <2>1. [i \in 0..0 |-> base] \in [0..0 -> BOOLEAN] /\ Computed(0, [i \in 0..0 |-> base])
    OBVIOUS
  <2>2. \E f \in [0..0 -> BOOLEAN] : Computed(0, f)
    BY <2>1, Zenon
  <2> QED
    BY <2>2
<1>2. ASSUME NEW m \in Nat, m \in T PROVE m + 1 \in T
  <2> SUFFICES ASSUME m + 1 <= n PROVE \E f \in [0..m + 1 -> BOOLEAN] : Computed(m + 1, f)
    OBVIOUS
  <2>1. PICK f \in [0..m -> BOOLEAN] : Computed(m, f)
    BY <1>2
  <2> DEFINE g == [i \in 0..m + 1 |-> IF i <= m THEN f[i] ELSE G[m + 1][f[m]]]
  <2>2. m + 1 \in 1..n /\ f[m] \in BOOLEAN /\ G[m + 1][f[m]] \in BOOLEAN
    OBVIOUS
  <2>3. g \in [0..m + 1 -> BOOLEAN]
    BY <2>2
  <2>4. \A i \in 0..m : g[i] = f[i]
    OBVIOUS
  <2>5. g[m + 1] = G[m + 1][f[m]]
    OBVIOUS
  <2> HIDE DEF g
  <2>6. Computed(m + 1, g)
    <3>1. g[0] = base
      BY <2>1, <2>4
    <3>2. ASSUME NEW i \in 1..m PROVE g[i] = G[i][g[i - 1]]
      <4>1. i \in 0..m /\ i - 1 \in 0..m /\ f[i] = G[i][f[i - 1]]
        BY <2>1
      <4> QED
        BY <2>4, <4>1
    <3>3. g[m + 1] = G[m + 1][g[(m + 1) - 1]]
      BY <2>4, <2>5
    <3> QED
      BY <3>1, <3>2, <3>3
  <2> HIDE DEF Computed
  <2> QED
    BY <2>3, <2>6
<1>3. n \in T
  <2> HIDE DEF T
  <2> QED
    BY <1>1, <1>2, AllNaturals
<1> QED
  BY <1>3

----------------------------------------------------------------------------
(* Fences.  What the loop of markdown_blocks remembers from line to line   *)
(* is whether it is inside a block.                                        *)
LEMMA InsideBlocks ==
    ASSUME NEW page, Len(page) \in Nat, NEW openings
    PROVE  \E in \in [0..Len(page) -> BOOLEAN] :
              /\ ~in[0]
              /\ \A i \in 1..Len(page) :
                    in[i] <=> IF in[i - 1] THEN page[i] # Closing ELSE page[i] \in openings
              /\ OpeningLines(page, openings) = {i \in 1..Len(page) : ~in[i - 1] /\ in[i]}
<1> DEFINE G == [i \in 1..Len(page) |->
                   [v \in BOOLEAN |-> IF v THEN page[i] # Closing ELSE page[i] \in openings]]
           Def(f, i) == IF i = 0 THEN FALSE
                        ELSE IF f[i - 1] THEN page[i] # Closing ELSE page[i] \in openings
           in == CHOOSE f : f = [i \in 0..Len(page) |-> Def(f, i)]
<1>0. \A i : (page[i] # Closing) \in BOOLEAN /\ (page[i] \in openings) \in BOOLEAN
  <2>1. ASSUME NEW i PROVE (page[i] # Closing) \in BOOLEAN
    OBVIOUS
  <2>2. ASSUME NEW i PROVE (page[i] \in openings) \in BOOLEAN
    OBVIOUS
  <2> QED
    BY <2>1, <2>2, Zenon
<1>1. G \in [1..Len(page) -> [BOOLEAN -> BOOLEAN]]
  <2>1. ASSUME NEW i \in 1..Len(page)
        PROVE  [v \in BOOLEAN |-> IF v THEN page[i] # Closing ELSE page[i] \in openings]
                  \in [BOOLEAN -> BOOLEAN]
    <3>1. \A v \in BOOLEAN : (IF v THEN page[i] # Closing ELSE page[i] \in openings) \in BOOLEAN
      BY <1>0
    <3> QED
      BY <3>1, Zenon
  <2> QED
    BY <2>1, Zenon
<1>2. PICK f \in [0..Len(page) -> BOOLEAN] :
          f[0] = FALSE /\ \A i \in 1..Len(page) : f[i] = G[i][f[i - 1]]
  <2> HIDE DEF G
  <2> QED
    BY <1>1, OneByOne
<1>3. f = [i \in 0..Len(page) |-> Def(f, i)]
  <2>1. ASSUME NEW i \in 1..Len(page) PROVE f[i] = Def(f, i)
    <3>1. f[i] = G[i][f[i - 1]] /\ f[i - 1] \in BOOLEAN /\ i # 0
      <4> HIDE DEF G
      <4> QED
        BY <1>2
    <3>2. G[i] = [v \in BOOLEAN |-> IF v THEN page[i] # Closing ELSE page[i] \in openings]
      BY Zenon
    <3>3. G[i][f[i - 1]] = IF f[i - 1] THEN page[i] # Closing ELSE page[i] \in openings
      <4> HIDE DEF G
      <4> QED
        BY <3>1, <3>2, Zenon
    <3> HIDE DEF G
    <3> QED
      BY <3>1, <3>3, Zenon
  <2>2. f[0] = Def(f, 0)
    BY <1>2, Zenon
  <2>3. \A i \in 0..Len(page) : f[i] = Def(f, i)
    <3>1. \A i \in 0..Len(page) : i = 0 \/ i \in 1..Len(page)
      OBVIOUS
    <3> HIDE DEF Def
    <3> QED
      BY <2>1, <2>2, <3>1, Zenon
  <2> HIDE DEF Def
  <2> QED
    BY <2>3
<1>4. in = [i \in 0..Len(page) |-> Def(in, i)]
  BY <1>3, Zenon
<1>5. OpeningLines(page, openings) = {i \in 1..Len(page) : ~in[i - 1] /\ in[i]}
  BY Zenon DEF OpeningLines
<1> HIDE DEF in
<1>6. ~in[0] /\ \A i \in 1..Len(page) :
         in[i] <=> IF in[i - 1] THEN page[i] # Closing ELSE page[i] \in openings
  BY <1>4
<1>7. in \in [0..Len(page) -> BOOLEAN]
  <2>1. \A i \in 0..Len(page) : Def(in, i) \in BOOLEAN
    BY <1>0, Zenon
  <2> HIDE DEF Def
  <2> QED
    BY <1>4, <2>1
<1> QED
  BY <1>5, <1>6, <1>7

(* Between two opening lines there is a closing line, and a line that      *)
(* could open a block does, unless it is in a block that is still open.    *)
LEMMA Fences ==
    ASSUME NEW page, Len(page) \in Nat, NEW openings
    PROVE  /\ \A i \in OpeningLines(page, openings) : i \in 1..Len(page) /\ page[i] \in openings
           /\ \A i, j \in OpeningLines(page, openings) :
                 i < j => \E k \in i + 1..j - 1 : page[k] = Closing
           /\ \A i \in 1..Len(page) : page[i] \in openings =>
                 \/ i \in OpeningLines(page, openings)
                 \/ \E j \in OpeningLines(page, openings) :
                       j < i /\ \A k \in j + 1..i - 1 : page[k] # Closing
<1> DEFINE Open == OpeningLines(page, openings)
<1>1. PICK in \in [0..Len(page) -> BOOLEAN] :
          /\ ~in[0]
          /\ \A i \in 1..Len(page) :
                in[i] <=> IF in[i - 1] THEN page[i] # Closing ELSE page[i] \in openings
          /\ Open = {i \in 1..Len(page) : ~in[i - 1] /\ in[i]}
  BY InsideBlocks
<1> HIDE DEF Open
<1>2. \A i \in Open : i \in 1..Len(page) /\ page[i] \in openings
  BY <1>1
(* Inside is below an opening line with no closing line since. *)
<1> DEFINE Since(i) == \E j \in Open : j <= i /\ \A k \in j + 1..i : page[k] # Closing
           T == {i \in Nat : i <= Len(page) /\ in[i] => Since(i)}
<1>3. \A i \in Nat : i \in T
  <2>1. 0 \in T
    BY <1>1
  <2>2. ASSUME NEW i \in Nat, i \in T PROVE i + 1 \in T
    <3> SUFFICES ASSUME i + 1 <= Len(page), in[i + 1] PROVE Since(i + 1)
      OBVIOUS
    <3>0. i + 1 \in 1..Len(page) /\ (i + 1) - 1 = i
      OBVIOUS
    <3>1. CASE in[i]
      <4>1. page[i + 1] # Closing
        BY <1>1, <3>0, <3>1
      <4>2. PICK j \in Open : j <= i /\ \A k \in j + 1..i : page[k] # Closing
        BY <2>2, <3>1
      <4>3. j <= i + 1 /\ \A k \in j + 1..i + 1 : page[k] # Closing
        BY <1>2, <4>1, <4>2
      <4> QED
        BY <4>3
    <3>2. CASE ~in[i]
      <4>1. i + 1 \in Open
        BY <1>1, <3>0, <3>2
      <4> QED
        BY <4>1
    <3> QED
      BY <3>1, <3>2
  <2> HIDE DEF T
  <2> QED
    BY <2>1, <2>2, AllNaturals
(* Below an opening line, with no closing line since, is inside. *)
<1>4. ASSUME NEW j \in Open
      PROVE  \A i \in j..Len(page) : (\A k \in j + 1..i : page[k] # Closing) => in[i]
  <2> DEFINE S == {d \in Nat : j + d <= Len(page) /\ (\A k \in j + 1..j + d : page[k] # Closing) => in[j + d]}
  <2>0. j \in 1..Len(page) /\ in[j]
    BY <1>1
  <2>1. 0 \in S
    BY <2>0
  <2>2. ASSUME NEW d \in Nat, d \in S PROVE d + 1 \in S
    <3> SUFFICES ASSUME j + (d + 1) <= Len(page), \A k \in j + 1..j + (d + 1) : page[k] # Closing
                 PROVE  in[j + (d + 1)]
      OBVIOUS
    <3>1. j + (d + 1) \in 1..Len(page) /\ (j + (d + 1)) - 1 = j + d
      BY <2>0
    <3>2. in[j + d]
      BY <2>0, <2>2
    <3>3. page[j + (d + 1)] # Closing
      BY <2>0
    <3> QED
      BY <1>1, <3>1, <3>2, <3>3
  <2>3. \A d \in Nat : d \in S
    <3> HIDE DEF S
    <3> QED
      BY <2>1, <2>2, AllNaturals
  <2> SUFFICES ASSUME NEW i \in j..Len(page), \A k \in j + 1..i : page[k] # Closing
               PROVE  in[i]
    OBVIOUS
  <2>4. i - j \in Nat /\ j + (i - j) = i
    BY <2>0
  <2> QED
    BY <2>3, <2>4
<1>5. ASSUME NEW i \in Open, NEW j \in Open, i < j
      PROVE  \E k \in i + 1..j - 1 : page[k] = Closing
  <2>1. j - 1 \in i..Len(page) /\ ~in[j - 1]
    BY <1>1, <1>2, <1>5
  <2> QED
    BY <1>4, <2>1
<1>6. ASSUME NEW i \in 1..Len(page), page[i] \in openings, i \notin Open
      PROVE  \E j \in Open : j < i /\ \A k \in j + 1..i - 1 : page[k] # Closing
  <2>1. i - 1 \in Nat /\ i - 1 <= Len(page) /\ in[i - 1]
    BY <1>1, <1>6
  <2>2. PICK j \in Open : j <= i - 1 /\ \A k \in j + 1..i - 1 : page[k] # Closing
    BY <1>3, <2>1
  <2> QED
    BY <1>2, <2>2
<1> QED
  BY <1>2, <1>5, <1>6 DEF Open

----------------------------------------------------------------------------
(* A block has the line after its opening line, and is determined by it.   *)
LEMMA BlockOfPage ==
    ASSUME NEW page, NEW b \in MarkdownBlocks(page)
    PROVE  /\ b.line \in Int /\ b.line - 1 \in 1..Len(page)
           /\ \A c \in MarkdownBlocks(page) : c.line = b.line => c = b
<1> DEFINE Text(i) == SubSeq(page, i + 1,
               Min({j \in (i + 1)..Len(page) : page[j] = Closing} \cup {Len(page) + 1}) - 1)
           Block(i) == [line |-> i + 1, language |-> Language(page[i]), text |-> Text(i)]
<1>1. OpeningLines(page, Openings) \subseteq 1..Len(page)
  BY DEF OpeningLines
<1>2. MarkdownBlocks(page) = {Block(i) : i \in OpeningLines(page, Openings)}
  BY DEF MarkdownBlocks
<1>3. \A i \in OpeningLines(page, Openings) : i \in 1..Len(page) /\ Block(i).line = i + 1
  BY <1>1
<1> HIDE DEF Block
<1>4. ASSUME NEW i \in OpeningLines(page, Openings), NEW j \in OpeningLines(page, Openings),
             Block(i).line = Block(j).line
      PROVE  i = j
  BY <1>3, <1>4
<1>5. PICK i \in OpeningLines(page, Openings) : b = Block(i)
  BY <1>2
<1>6. i \in 1..Len(page) /\ b.line = i + 1
  BY <1>3, <1>5
<1> QED
  BY <1>2, <1>4, <1>5, <1>6

LEMMA BlocksAreFinite ==
    ASSUME NEW page, Len(page) \in Nat
    PROVE  IsFiniteSet(MarkdownBlocks(page))
<1> DEFINE Place == [b \in MarkdownBlocks(page) |-> b.line - 1]
<1>1. \A b \in MarkdownBlocks(page) : b.line - 1 \in 1..Len(page)
  BY BlockOfPage
<1>2. Place \in [MarkdownBlocks(page) -> 1..Len(page)]
  BY <1>1
<1>3. ASSUME NEW b \in MarkdownBlocks(page), NEW c \in MarkdownBlocks(page), Place[b] = Place[c]
      PROVE  b = c
  BY <1>1, <1>3, BlockOfPage
<1>4. Place \in Injection(MarkdownBlocks(page), 1..Len(page))
  BY <1>2, <1>3 DEF Injection, IsInjective
<1>5. IsFiniteSet(1..Len(page))
  BY FS_Interval
<1> HIDE DEF Place
<1> QED
  BY <1>4, <1>5, FS_Injection

(* Where a block ends: its closing line, or the line after the page.       *)
EndOf(b) == b.line + Len(b.text)

(* The blocks of a page are its fenced text: each goes from an opening     *)
(* line to the next closing line or the end of the page, has the lines     *)
(* between them and no closing line among these; two blocks share no line, *)
(* their fences included; and a line that could open a block is in one.    *)
(* That is what the two nested loops of markdown_blocks (lines 121-136)    *)
(* must give, which do not look ahead or back, although a bare fence both  *)
(* opens and closes.                                                       *)
THEOREM BlocksAreFenced ==
    ASSUME NEW S, NEW page \in Seq(S)
    PROVE  /\ \A b \in MarkdownBlocks(page) :
                 /\ b.line - 1 \in 1..Len(page) /\ page[b.line - 1] \in Openings
                 /\ EndOf(b) \in b.line..Len(page) + 1
                 /\ EndOf(b) <= Len(page) => page[EndOf(b)] = Closing
                 /\ \A k \in 1..Len(b.text) : /\ b.text[k] = page[b.line + k - 1]
                                              /\ b.text[k] # Closing
           /\ \A b, c \in MarkdownBlocks(page) : b.line < c.line => EndOf(b) < c.line - 1
           /\ \A i \in 1..Len(page) : page[i] \in Openings =>
                 \E b \in MarkdownBlocks(page) : i \in b.line - 1..EndOf(b)
<1> DEFINE n == Len(page)
           Open == OpeningLines(page, Openings)
           Ends(i) == {j \in (i + 1)..n : page[j] = Closing} \cup {n + 1}
           end(i) == Min(Ends(i))
           Block(i) == [line |-> i + 1, language |-> Language(page[i]),
                        text |-> SubSeq(page, i + 1, end(i) - 1)]
<1>0. n \in Nat
  BY LenProperties
<1>1. MarkdownBlocks(page) = {Block(i) : i \in Open}
  BY DEF MarkdownBlocks
<1>2. /\ \A i \in Open : i \in 1..n /\ page[i] \in Openings
      /\ \A i, j \in Open : i < j => \E k \in i + 1..j - 1 : page[k] = Closing
      /\ \A i \in 1..n : page[i] \in Openings =>
            \/ i \in Open
            \/ \E j \in Open : j < i /\ \A k \in j + 1..i - 1 : page[k] # Closing
  BY <1>0, Fences
<1> HIDE DEF Open
<1>3. ASSUME NEW i \in Open
      PROVE  /\ end(i) \in i + 1..n + 1
             /\ end(i) <= n => page[end(i)] = Closing
             /\ \A k \in i + 1..end(i) - 1 : page[k] # Closing
  <2>1. i \in 1..n
    BY <1>2
  <2>2. Ends(i) \subseteq Nat /\ n + 1 \in Ends(i)
    BY <1>0, <2>1
  <2>3. end(i) \in Ends(i) /\ \A j \in Ends(i) : end(i) <= j
    <3>1. \E x \in Ends(i) : \A y \in Ends(i) : x <= y
      <4> HIDE DEF Ends
      <4> QED
        BY <2>2, LeastNatural
    <3> HIDE DEF Ends
    <3> QED
      BY <3>1 DEF Min
  <2> HIDE DEF end
  <2> QED
    BY <1>0, <2>1, <2>3
<1>4. ASSUME NEW i \in Open
      PROVE  /\ Block(i).line = i + 1 /\ Len(Block(i).text) = end(i) - 1 - i
             /\ EndOf(Block(i)) = end(i)
             /\ \A k \in 1..end(i) - 1 - i : Block(i).text[k] = page[i + k]
  <2>1. i \in 1..n /\ end(i) \in i + 1..n + 1
    BY <1>2, <1>3
  <2>2. /\ Len(SubSeq(page, i + 1, end(i) - 1)) = end(i) - 1 - i
        /\ \A k \in 1..end(i) - 1 - i : SubSeq(page, i + 1, end(i) - 1)[k] = page[i + k]
    <3> HIDE DEF end
    <3>1. \A k \in i + 1..end(i) - 1 : page[k] \in S
      BY <1>0, <2>1, ElementOfSeq
    <3>2. i + 1 \in Int /\ end(i) - 1 \in Int
      BY <1>0, <2>1
    <3>3. /\ Len(SubSeq(page, i + 1, end(i) - 1)) =
                IF i + 1 <= end(i) - 1 THEN end(i) - 1 - (i + 1) + 1 ELSE 0
          /\ \A k \in 1..end(i) - 1 - (i + 1) + 1 :
                SubSeq(page, i + 1, end(i) - 1)[k] = page[i + 1 + k - 1]
      BY <3>1, <3>2, SubSeqProperties
    <3>4. end(i) - 1 - (i + 1) + 1 = end(i) - 1 - i
      BY <1>0, <2>1
    <3>5. Len(SubSeq(page, i + 1, end(i) - 1)) = end(i) - 1 - i
      <4>1. CASE i + 1 <= end(i) - 1
        BY <3>3, <3>4, <4>1
      <4>2. CASE ~(i + 1 <= end(i) - 1)
        <5>1. end(i) - 1 - i = 0
          BY <1>0, <2>1, <4>2
        <5> QED
          BY <3>3, <4>2, <5>1
      <4> QED
        BY <4>1, <4>2
    <3>6. ASSUME NEW k \in 1..end(i) - 1 - i
          PROVE  SubSeq(page, i + 1, end(i) - 1)[k] = page[i + k]
      <4>1. i + 1 + k - 1 = i + k
        BY <2>1
      <4> QED
        BY <3>3, <3>4, <4>1
    <3> QED
      BY <3>5, <3>6
  <2> HIDE DEF end
  <2> QED
    BY <2>1, <2>2 DEF EndOf
<1> HIDE DEF end, Block
<1>5. ASSUME NEW b \in MarkdownBlocks(page)
      PROVE  /\ b.line - 1 \in 1..n /\ page[b.line - 1] \in Openings
             /\ EndOf(b) \in b.line..n + 1
             /\ EndOf(b) <= n => page[EndOf(b)] = Closing
             /\ \A k \in 1..Len(b.text) : b.text[k] = page[b.line + k - 1] /\ b.text[k] # Closing
  <2>1. PICK i \in Open : b = Block(i)
    BY <1>1
  <2>2. i \in 1..n /\ page[i] \in Openings /\ end(i) \in i + 1..n + 1
    BY <1>2, <1>3
  <2>3. b.line = i + 1 /\ EndOf(b) = end(i) /\ Len(b.text) = end(i) - 1 - i
    BY <1>4, <2>1
  <2>4. end(i) <= n => page[end(i)] = Closing
    BY <1>3
  <2>5. ASSUME NEW k \in 1..Len(b.text)
        PROVE  b.text[k] = page[b.line + k - 1] /\ b.text[k] # Closing
    <3>1. k \in 1..end(i) - 1 - i /\ i + k \in i + 1..end(i) - 1 /\ b.line + k - 1 = i + k
      BY <2>2, <2>3
    <3>2. b.text[k] = page[i + k]
      BY <1>4, <2>1, <3>1
    <3> QED
      BY <1>3, <3>1, <3>2
  <2> QED
    BY <1>0, <2>2, <2>3, <2>4, <2>5
<1>6. ASSUME NEW b \in MarkdownBlocks(page), NEW c \in MarkdownBlocks(page), b.line < c.line
      PROVE  EndOf(b) < c.line - 1
  <2>1. PICK i \in Open, j \in Open : b = Block(i) /\ c = Block(j)
    BY <1>1
  <2>2. i \in 1..n /\ j \in 1..n /\ b.line = i + 1 /\ c.line = j + 1 /\ EndOf(b) = end(i)
    BY <1>2, <1>4, <2>1
  <2>3. PICK k \in i + 1..j - 1 : page[k] = Closing
    BY <1>2, <1>6, <2>2
  <2>4. end(i) \in Int /\ k \notin i + 1..end(i) - 1
    BY <1>3, <2>3
  <2> QED
    BY <2>2, <2>3, <2>4
<1>7. ASSUME NEW i \in 1..n, page[i] \in Openings
      PROVE  \E b \in MarkdownBlocks(page) : i \in b.line - 1..EndOf(b)
  <2>1. PICK j \in Open : j <= i /\ \A k \in j + 1..i - 1 : page[k] # Closing
    BY <1>2, <1>7
  <2>2. /\ Block(j) \in MarkdownBlocks(page)
        /\ Block(j).line = j + 1 /\ EndOf(Block(j)) = end(j)
    BY <1>1, <1>4
  <2>3. /\ j \in 1..n /\ end(j) \in j + 1..n + 1
        /\ end(j) <= n => page[end(j)] = Closing
    BY <1>2, <1>3
  <2>4. i <= end(j)
    <3> SUFFICES ASSUME end(j) < i PROVE FALSE
      BY <2>3
    <3>1. end(j) \in j + 1..i - 1 /\ end(j) <= n
      BY <2>3
    <3> QED
      BY <2>1, <2>3, <3>1
  <2>5. i \in Block(j).line - 1..EndOf(Block(j))
    BY <1>0, <2>1, <2>2, <2>3, <2>4
  <2> QED
    BY <2>2, <2>5
<1> QED
  BY <1>5, <1>6, <1>7

(* What is collected of a page. *)
Ordinal(page, b) ==
    Cardinality({c \in MarkdownBlocks(page) : /\ c.language = b.language
                                              /\ c.text = b.text
                                              /\ c.line <= b.line})

LEMMA BlockOfCollection ==
    ASSUME NEW b \in Collected
    PROVE  \E p \in public : \E m \in MarkdownBlocks(pages[p]) :
               /\ b = [id |-> <<p, m.language, m.text, Ordinal(pages[p], m)>>, path |-> p,
                       line |-> m.line, language |-> m.language, text |-> m.text]
               /\ m.line - 1 \in 1..Len(pages[p])
<1>1. PICK p \in public : b \in CollectedOf(p)
  BY DEF Collected
<1>2. PICK m \in MarkdownBlocks(pages[p]) :
          b = [id |-> <<p, m.language, m.text, Ordinal(pages[p], m)>>, path |-> p,
               line |-> m.line, language |-> m.language, text |-> m.text]
  BY <1>1 DEF CollectedOf, Ordinal
<1> QED
  BY <1>2, BlockOfPage

(* A block that occurs again has another ordinal, and so another identity. *)
LEMMA IdentityIsUnique ==
    ASSUME TypeOK, NEW b \in Collected, NEW c \in Collected, b.id = c.id
    PROVE  b = c
<1>1. PICK p \in public : \E m \in MarkdownBlocks(pages[p]) :
          b = [id |-> <<p, m.language, m.text, Ordinal(pages[p], m)>>, path |-> p,
               line |-> m.line, language |-> m.language, text |-> m.text]
  BY BlockOfCollection
<1>2. PICK m \in MarkdownBlocks(pages[p]) :
          b = [id |-> <<p, m.language, m.text, Ordinal(pages[p], m)>>, path |-> p,
               line |-> m.line, language |-> m.language, text |-> m.text]
  BY <1>1
<1>3. PICK q \in public : \E n \in MarkdownBlocks(pages[q]) :
          c = [id |-> <<q, n.language, n.text, Ordinal(pages[q], n)>>, path |-> q,
               line |-> n.line, language |-> n.language, text |-> n.text]
  BY BlockOfCollection
<1>4. PICK n \in MarkdownBlocks(pages[q]) :
          c = [id |-> <<q, n.language, n.text, Ordinal(pages[q], n)>>, path |-> q,
               line |-> n.line, language |-> n.language, text |-> n.text]
  BY <1>3
<1>5. /\ p = q /\ m.language = n.language /\ m.text = n.text
      /\ Ordinal(pages[p], m) = Ordinal(pages[p], n)
  BY <1>2, <1>4
<1>6. Len(pages[p]) \in Nat
  BY LenProperties DEF TypeOK
<1> DEFINE Same == {d \in MarkdownBlocks(pages[p]) : d.language = m.language /\ d.text = m.text}
           UpTo(l) == {d \in Same : d.line <= l}
<1>7. \A d \in MarkdownBlocks(pages[p]) : d.line \in Int
  BY BlockOfPage
<1>8. \A l : IsFiniteSet(UpTo(l))
  <2>1. IsFiniteSet(MarkdownBlocks(pages[p]))
    BY <1>6, BlocksAreFinite
  <2>2. \A l : UpTo(l) \in SUBSET MarkdownBlocks(pages[p])
    OBVIOUS
  <2> QED
    BY <2>1, <2>2, FS_Subset
<1>9. Cardinality(UpTo(m.line)) = Cardinality(UpTo(n.line))
  <2>1. Ordinal(pages[p], m) = Cardinality(UpTo(m.line))
    <3>1. {d \in MarkdownBlocks(pages[p]) : /\ d.language = m.language
                                            /\ d.text = m.text
                                            /\ d.line <= m.line} = UpTo(m.line)
      OBVIOUS
    <3> QED
      BY <3>1 DEF Ordinal
  <2>2. Ordinal(pages[p], n) = Cardinality(UpTo(n.line))
    <3>1. {d \in MarkdownBlocks(pages[p]) : /\ d.language = n.language
                                            /\ d.text = n.text
                                            /\ d.line <= n.line} = UpTo(n.line)
      BY <1>5
    <3> QED
      BY <3>1 DEF Ordinal
  <2> QED
    BY <1>5, <2>1, <2>2
<1>10. /\ m \in MarkdownBlocks(pages[p]) /\ n \in MarkdownBlocks(pages[p])
       /\ m.line \in Int /\ n.line \in Int
       /\ m \in UpTo(m.line) /\ n \in UpTo(n.line)
  BY <1>5, <1>7
<1>11. ASSUME NEW k \in Int, NEW l \in Int, k < l, Cardinality(UpTo(k)) = Cardinality(UpTo(l)),
              NEW d \in UpTo(l), d.line = l
       PROVE  FALSE
  <2>1. UpTo(k) \in SUBSET UpTo(l)
    BY <1>7, <1>11
  <2>2. UpTo(k) = UpTo(l)
    <3>1. IsFiniteSet(UpTo(l))
      BY <1>8
    <3> HIDE DEF UpTo
    <3> QED
      BY <1>11, <2>1, <3>1, FS_Subset
  <2> QED
    BY <1>11, <2>2
<1>12. m.line = n.line
  BY <1>9, <1>10, <1>11
<1>13. m = n
  BY <1>10, <1>12, BlockOfPage
<1> QED
  BY <1>2, <1>4, <1>5, <1>13

(* A document has one entry for each block, made of that block. *)
LEMMA DocumentEntries ==
    ASSUME TypeOK
    PROVE  /\ DOMAIN Document = {b.id : b \in Collected}
           /\ \A b \in Collected : Document[b.id] = Entry(b)
<1> DEFINE Ids == {b.id : b \in Collected}
           Of(id) == CHOOSE b \in Collected : b.id = id
<1>1. Document = [id \in Ids |-> Entry(Of(id))]
  BY DEF Document
<1>2. ASSUME NEW b \in Collected PROVE Of(b.id) = b /\ b.id \in Ids
  <2>1. Of(b.id) \in Collected /\ Of(b.id).id = b.id
    OBVIOUS
  <2> QED
    BY <2>1, IdentityIsUnique
<1> HIDE DEF Ids, Of
<1>3. DOMAIN Document = Ids /\ \A b \in Collected : Document[b.id] = Entry(b)
  BY <1>1, <1>2
<1> QED
  BY <1>3 DEF Ids

----------------------------------------------------------------------------
(* The invariant: the inventory is a function of entries, and each entry   *)
(* has a status that the tools know.                                       *)
WellFormed(e) ==
    /\ e = [line |-> e.line, status |-> e.status, quality |-> e.quality, mutation |-> e.mutation]
    /\ e.status \in Statuses

InventoryShape ==
    /\ inventory = [id \in DOMAIN inventory |-> inventory[id]]
    /\ \A id \in DOMAIN inventory : WellFormed(inventory[id])

LEMMA ClassifyIsStatus == ASSUME NEW b PROVE Classify(b) \in Statuses
<1>1. LastAbove(b, Markers) \subseteq Markers
  BY DEF LastAbove
<1>2. \A m \in Markers : Lower(Written(m)) \in Statuses
  <2> SUFFICES ASSUME NEW m \in Markers PROVE Lower(Written(m)) \in Statuses
    OBVIOUS
  <2>1. CASE m = "status verified"
    BY <2>1 DEF Written, Lower, Statuses
  <2>2. CASE m = "status Verified"
    BY <2>2 DEF Written, Lower, Statuses
  <2>3. CASE m = "status blocked"
    BY <2>3 DEF Written, Lower, Statuses
  <2>4. CASE m = "status illustrative-only"
    BY <2>4 DEF Written, Lower, Statuses
  <2> QED
    BY <2>1, <2>2, <2>3, <2>4 DEF Markers
<1>3. ExplicitStatus(b) \subseteq Statuses
  BY <1>1, <1>2 DEF ExplicitStatus
<1>4. ExplicitStatus(b) # {} => (CHOOSE s \in ExplicitStatus(b) : TRUE) \in Statuses
  BY <1>3
<1>5. {"verified", "illustrative-only"} \subseteq Statuses
  BY DEF Statuses
<1> QED
  BY <1>4, <1>5 DEF Classify

LEMMA EntryIsWellFormed == ASSUME NEW b PROVE WellFormed(Entry(b))
<1>1. Entry(b).status \in Statuses
  BY ClassifyIsStatus DEF Entry
<1> QED
  BY <1>1 DEF WellFormed, Entry

LEMMA DocumentShape ==
    /\ Document = [id \in DOMAIN Document |-> Document[id]]
    /\ \A id \in DOMAIN Document : WellFormed(Document[id])
<1> DEFINE Ids == {b.id : b \in Collected}
           Of(id) == CHOOSE b \in Collected : b.id = id
<1>1. Document = [id \in Ids |-> Entry(Of(id))]
  BY DEF Document
<1> HIDE DEF Ids, Of
<1> QED
  BY <1>1, EntryIsWellFormed

IInv == TypeOK /\ InventoryShape

(* A line more or a line less leaves a page. *)
LEMMA InsertedPage ==
    ASSUME NEW s \in Seq(Lines), NEW i \in 0..Len(s), NEW l \in Lines
    PROVE  InsertAt(s, i + 1, l) \in Seq(Lines)
<1>1. Len(s) \in Nat /\ \A k \in 1..Len(s) : s[k] \in Lines
  BY LenProperties, ElementOfSeq
<1>2. SubSeq(s, 1, i + 1 - 1) \in Seq(Lines)
  <2>1. \A k \in 1..(i + 1 - 1) : s[k] \in Lines
    BY <1>1
  <2> QED
    BY <1>1, <2>1, SubSeqProperties
<1>3. SubSeq(s, i + 1, Len(s)) \in Seq(Lines)
  <2>1. \A k \in (i + 1)..Len(s) : s[k] \in Lines
    BY <1>1
  <2> QED
    BY <1>1, <2>1, SubSeqProperties
<1>4. <<l>> \in Seq(Lines)
  OBVIOUS
<1> QED
  BY <1>2, <1>3, <1>4, ConcatProperties DEF InsertAt

LEMMA RemovedPage ==
    ASSUME NEW s \in Seq(Lines), NEW i \in 1..Len(s)
    PROVE  RemoveAt(s, i) \in Seq(Lines)
<1>1. Len(s) \in Nat /\ \A k \in 1..Len(s) : s[k] \in Lines
  BY LenProperties, ElementOfSeq
<1>2. SubSeq(s, 1, i - 1) \in Seq(Lines)
  <2>1. \A k \in 1..(i - 1) : s[k] \in Lines
    BY <1>1
  <2> QED
    BY <1>1, <2>1, SubSeqProperties
<1>3. SubSeq(s, i + 1, Len(s)) \in Seq(Lines)
  <2>1. \A k \in (i + 1)..Len(s) : s[k] \in Lines
    BY <1>1
  <2> QED
    BY <1>1, <2>1, SubSeqProperties
<1> QED
  BY <1>2, <1>3, ConcatProperties DEF RemoveAt

LEMMA Inductive == IInv /\ [Next]_vars => IInv'
<1> SUFFICES ASSUME IInv, [Next]_vars PROVE IInv'
  OBVIOUS
<1> USE InventoryAssumption, PagesAssumption
<1>t. TypeOK /\ InventoryShape
  BY DEF IInv
<1>e. ASSUME ByHand PROVE edits' \in 0..MaxEdits
  BY <1>t, <1>e DEF ByHand, TypeOK
<1>s. ASSUME UNCHANGED inventory PROVE InventoryShape' /\ \A id \in DOMAIN inventory' : inventory'[id].status \in Statuses
  BY <1>t, <1>s DEF InventoryShape, WellFormed
<1>0. CASE UNCHANGED vars
  BY <1>0, <1>t DEF vars, IInv, TypeOK, InventoryShape, WellFormed
<1>1. CASE InsertLine
  <2>1. PICK p \in Paths : \E i \in 0..Len(pages[p]), l \in Vocabulary :
            pages' = [pages EXCEPT ![p] = InsertAt(pages[p], i + 1, l)]
    BY <1>1 DEF InsertLine
  <2>2. PICK i \in 0..Len(pages[p]), l \in Vocabulary :
            pages' = [pages EXCEPT ![p] = InsertAt(pages[p], i + 1, l)]
    BY <2>1
  <2>3. InsertAt(pages[p], i + 1, l) \in Seq(Lines)
    BY <1>t, InsertedPage DEF TypeOK
  <2>4. pages' \in [Paths -> Seq(Lines)]
    BY <1>t, <2>2, <2>3 DEF TypeOK
  <2> QED
    BY <1>1, <1>t, <1>e, <1>s, <2>4 DEF InsertLine, IInv, TypeOK
<1>2. CASE DeleteLine
  <2>1. PICK p \in Paths : \E i \in 1..Len(pages[p]) :
            pages' = [pages EXCEPT ![p] = RemoveAt(pages[p], i)]
    BY <1>2 DEF DeleteLine
  <2>2. PICK i \in 1..Len(pages[p]) : pages' = [pages EXCEPT ![p] = RemoveAt(pages[p], i)]
    BY <2>1
  <2>3. RemoveAt(pages[p], i) \in Seq(Lines)
    BY <1>t, RemovedPage DEF TypeOK
  <2>4. pages' \in [Paths -> Seq(Lines)]
    BY <1>t, <2>2, <2>3 DEF TypeOK
  <2> QED
    BY <1>2, <1>t, <1>e, <1>s, <2>4 DEF DeleteLine, IInv, TypeOK
<1>3. CASE Exclude
  BY <1>3, <1>t, <1>e, <1>s DEF Exclude, IInv, TypeOK
<1>4. CASE EditEntry
  <2>1. PICK id \in DOMAIN inventory :
            \/ \E status \in Statuses : inventory' = [inventory EXCEPT ![id].status = status]
            \/ \E mode \in Modes : inventory' = [inventory EXCEPT ![id].mutation.mode = mode]
    BY <1>4 DEF EditEntry
  <2>2. \E e : WellFormed(e) /\ inventory' = [inventory EXCEPT ![id] = e]
    <3>1. ASSUME NEW status \in Statuses, inventory' = [inventory EXCEPT ![id].status = status]
          PROVE  \E e : WellFormed(e) /\ inventory' = [inventory EXCEPT ![id] = e]
      <4>1. WellFormed([inventory[id] EXCEPT !.status = status])
        BY <1>t DEF InventoryShape, WellFormed
      <4> QED
        BY <3>1, <4>1
    <3>2. ASSUME NEW mode \in Modes, inventory' = [inventory EXCEPT ![id].mutation.mode = mode]
          PROVE  \E e : WellFormed(e) /\ inventory' = [inventory EXCEPT ![id] = e]
      <4> DEFINE c == [inventory[id].mutation EXCEPT !.mode = mode]
      <4>1. inventory' = [inventory EXCEPT ![id] = [inventory[id] EXCEPT !.mutation = c]]
        BY <3>2
      <4> HIDE DEF c
      <4>2. WellFormed([inventory[id] EXCEPT !.mutation = c])
        BY <1>t DEF InventoryShape, WellFormed
      <4> QED
        BY <4>1, <4>2
    <3> QED
      BY <2>1, <3>1, <3>2
  <2>3. PICK e : WellFormed(e) /\ inventory' = [inventory EXCEPT ![id] = e]
    BY <2>2
  <2>4. DOMAIN inventory' = DOMAIN inventory /\ inventory' = [x \in DOMAIN inventory |-> inventory'[x]]
    BY <1>t, <2>3 DEF InventoryShape
  <2>5. \A x \in DOMAIN inventory : inventory'[x] = IF x = id THEN e ELSE inventory[x]
    BY <1>t, <2>3 DEF InventoryShape
  <2>6. \A x \in DOMAIN inventory : WellFormed(inventory'[x])
    BY <1>t, <2>3, <2>5 DEF InventoryShape
  <2>7. InventoryShape'
    BY <2>4, <2>6 DEF InventoryShape, WellFormed
  <2> QED
    BY <1>4, <1>t, <1>e, <2>4, <2>6, <2>7 DEF EditEntry, IInv, TypeOK, WellFormed
<1>5. CASE Refresh
  <2>1. inventory' = Document
    BY <1>5 DEF Refresh
  <2>2. InventoryShape'
    BY <2>1, DocumentShape DEF InventoryShape, WellFormed
  <2> QED
    BY <1>5, <1>t, <2>2 DEF Refresh, IInv, TypeOK, InventoryShape, WellFormed
<1> QED
  BY <1>0, <1>1, <1>2, <1>3, <1>4, <1>5 DEF Next

LEMMA Invariant == Spec => []IInv
<1>1. Init => IInv
  <2> SUFFICES ASSUME Init PROVE IInv
    OBVIOUS
  <2>1. InventoryShape
    BY DocumentShape DEF Init, InventoryShape
  <2> QED
    BY <2>1, InventoryAssumption, PagesAssumption DEF Init, IInv, TypeOK, InventoryShape, WellFormed
<1> QED
  BY <1>1, Inductive, PTL DEF Spec

(* Pages stay pages, and every status of the inventory is one of the three *)
(* whatever an author or the refresh does to it.                           *)
THEOREM TypeCorrect == Spec => []TypeOK
<1>1. IInv => TypeOK
  BY DEF IInv
<1> QED
  BY <1>1, Invariant, PTL

----------------------------------------------------------------------------
(* What it means that validate_inventory reports nothing. *)
LEMMA NoErrors ==
    ASSUME InventoryErrors(Collected) = {}
    PROVE  /\ DOMAIN inventory = {b.id : b \in Collected}
           /\ \A b, c \in Collected : b.text = c.text => b = c
           /\ \A b \in Collected : MutationErrors(b) = {} /\ ~PlaceErrors(b)
<1>1. StaleErrors(Collected) = {} /\ DuplicateErrors(Collected) = {}
  BY DEF InventoryErrors
<1>2. DOMAIN inventory = {b.id : b \in Collected}
  <2> DEFINE Ids == {b.id : b \in Collected}
             Gone == {<<"stale", id>> : id \in DOMAIN inventory \ Ids}
             New == {<<"not classified", id>> : id \in Ids \ DOMAIN inventory}
  <2>1. StaleErrors(Collected) = Gone \cup New
    BY DEF StaleErrors
  <2> HIDE DEF Ids
  <2>2. \A id \in DOMAIN inventory \ Ids : <<"stale", id>> \in Gone
    OBVIOUS
  <2>3. \A id \in Ids \ DOMAIN inventory : <<"not classified", id>> \in New
    OBVIOUS
  <2> HIDE DEF Gone, New
  <2>4. DOMAIN inventory = Ids
    BY <1>1, <2>1, <2>2, <2>3
  <2> QED
    BY <2>4 DEF Ids
<1>3. ASSUME NEW b \in Collected, NEW c \in Collected, b.text = c.text PROVE b = c
  <2>1. c # b => <<"duplicate", b.id>> \in DuplicateErrors(Collected)
    BY <1>3 DEF DuplicateErrors
  <2> QED
    BY <1>1, <2>1
<1>4. ASSUME NEW b \in Collected PROVE MutationErrors(b) = {} /\ ~PlaceErrors(b)
  <2>1. EntryErrors(b) = {}
    BY <1>2 DEF InventoryErrors
  <2>2. \A e \in MutationErrors(b) : <<e, b.id>> \in EntryErrors(b)
    BY DEF EntryErrors
  <2>3. PlaceErrors(b) => <<"line", b.id>> \in EntryErrors(b)
    BY DEF EntryErrors
  <2> QED
    BY <2>1, <2>2, <2>3
<1> QED
  BY <1>2, <1>3, <1>4

(* A mutation whose contract has no error. *)
LEMMA NoMutationErrors ==
    ASSUME NEW b, MutationErrors(b) = {}
    PROVE  LET entry == inventory[b.id] IN
           /\ entry.mutation.operations = MutationOperations(b.text)
           /\ MutationOperations(b.text) # {} =>
                  /\ ~ModeErrors(entry)
                  /\ entry.mutation.oracle /\ entry.mutation.cleanup
<1> DEFINE operations == MutationOperations(b.text)
           entry == inventory[b.id]
<1>1. CASE operations = {}
  <2>1. entry.mutation = NoContract
    BY <1>1 DEF MutationErrors
  <2> QED
    BY <1>1, <2>1 DEF NoContract
<1>2. CASE operations # {}
  <2>1. MutationErrors(b) = {e \in {"operations", "mode", "requirements"} :
            \/ e = "operations" /\ entry.mutation.operations # operations
            \/ e = "mode" /\ ModeErrors(entry)
            \/ e = "requirements" /\ ~(entry.mutation.oracle /\ entry.mutation.cleanup)}
    BY <1>2 DEF MutationErrors
  <2>2. ~ModeErrors(entry)
    BY <2>1
  <2>3. entry.mutation.operations = operations
    BY <2>1
  <2>4. entry.mutation.oracle /\ entry.mutation.cleanup
    BY <2>1
  <2> QED
    BY <2>2, <2>3, <2>4
<1> QED
  BY <1>1, <1>2

(* An inventory that was not refreshed after blocks were added, removed,   *)
(* moved or changed is rejected by validate_examples.py.                   *)
THEOREM ValidatedCurrent == Spec => []ValidatedIsCurrent
<1>1. ValidatedIsCurrent
  <2> SUFFICES ASSUME Validates(Collected)
               PROVE  /\ DOMAIN inventory = {b.id : b \in Collected}
                      /\ \A b, c \in Collected : b.text = c.text => b = c
                      /\ \A b \in Collected :
                            /\ inventory[b.id].line = b.line
                            /\ inventory[b.id].mutation.operations = MutationOperations(b.text)
    BY DEF ValidatedIsCurrent
  <2>1. InventoryErrors(Collected) = {}
    BY DEF Validates
  <2> QED
    BY <2>1, NoErrors, NoMutationErrors DEF PlaceErrors
<1> QED
  BY <1>1, PTL

(* A mutation without an option before its path is one that                *)
(* mutation_operations finds.                                              *)
LEMMA MutationsAreFound ==
    ASSUME NEW text, NEW t \in Mutations(text), ~OptionFirst(t)
    PROVE  MutationOperations(text) # {}
<1>1. CASE t \in ShellCommands(text, "curl") /\ Method(t) \in MutatingMethods
              /\ ManagementRoute(t) # NoRoute
  <2>1. <<Method(t), ManagementRoute(t)>> \in MutationOperations(text)
    BY <1>1 DEF MutationOperations
  <2> QED
    BY <2>1
<1>2. ASSUME t \in ShellCommands(text, "loxicmd"), NEW p \in PathAfterOptions(Args(t)), Mutates(p)
      PROVE  MutationOperations(text) # {}
  <2>1. t \in Seq(STRING) /\ t # <<>> /\ t[1] = "loxicmd"
    BY <1>2, CommandsAssumption DEF ShellCommands
  <2>2. Args(t) \in Seq(STRING) /\ Leading(Args(t)) = 0
    BY <2>1, HeadTailProperties DEF Args, OptionFirst
  <2>3. SubSeq(Args(t), 1, Len(Args(t))) = Args(t)
    BY <2>2, SubSeqFull
  <2>4. p \in CommandPath(Args(t))
    <3>1. PathAfterOptions(Args(t)) = CommandPath(SubSeq(Args(t), 0 + 1, Len(Args(t))))
      BY <2>2 DEF PathAfterOptions
    <3>2. 0 + 1 = 1
      OBVIOUS
    <3> QED
      BY <1>2, <2>3, <3>1, <3>2, Zenon
  <2>5. p \in MutationOperations(text)
    BY <1>2, <2>4 DEF MutationOperations
  <2> QED
    BY <2>5
<1> QED
  BY <1>1, <1>2 DEF Mutations

(* When ci.yml passes, verified mutations are below the marker of the      *)
(* canonical workflow, which still has its oracle and its cleanup, but for *)
(* mutations with an option before their path.                             *)
THEOREM VerifiedHasWorkflow == Spec => []VerifiedMutationHasWorkflow
<1>1. IInv => VerifiedMutationHasWorkflow
  <2> SUFFICES ASSUME IInv, CIPasses(Collected), NEW b \in Collected,
                      NEW t \in Mutations(b.text), ~OptionFirst(t)
               PROVE  /\ Oracle \in Range(pages[Quickstart])
                      /\ \E l \in Cleanup : l \in Range(pages[Quickstart])
                      /\ inventory[b.id].status = "verified" => BelowWorkflowMarker(b)
    BY DEF VerifiedMutationHasWorkflow
  <2>0. MutationOperations(b.text) # {}
    BY MutationsAreFound
  <2>1. inventory[b.id] = Entry(b)
    BY DocumentEntries DEF CIPasses, IInv
  <2>2. inventory[b.id].mutation.oracle /\ inventory[b.id].mutation.cleanup
    BY <2>0, NoErrors, NoMutationErrors DEF CIPasses, Validates
  <2>3. Requirements.oracle /\ Requirements.cleanup
    BY <2>0, <2>1, <2>2 DEF Entry
  <2>4. Classify(b) = "verified" => InWorkflow(b)
    BY <2>0 DEF Classify
  <2>5. InWorkflow(b) => BelowWorkflowMarker(b)
    BY DEF InWorkflow, LastAbove, BelowWorkflowMarker
  <2>6. inventory[b.id].status = Classify(b)
    BY <2>1 DEF Entry
  <2> QED
    BY <2>3, <2>4, <2>5, <2>6 DEF Requirements
<1> QED
  BY <1>1, Invariant, PTL

(* After a refresh, what is still reported is about the pages themselves.  *)
THEOREM SettledByRefresh == Spec => []RefreshSettles
<1>1. IInv => RefreshSettles
  <2> SUFFICES ASSUME IInv, inventory = Document, NEW e \in InventoryErrors(Collected)
               PROVE  \/ e[1] \in {"duplicate", "quality", "requirements"}
                      \/ /\ e[1] = "mode"
                         /\ \E b \in Collected : b.id = e[2] /\ Canonical \in Range(pages[b.path])
    BY DEF RefreshSettles
  <2>1. /\ DOMAIN inventory = {b.id : b \in Collected}
        /\ \A b \in Collected : inventory[b.id] = Entry(b)
    BY DocumentEntries DEF IInv
  <2>2. StaleErrors(Collected) = {}
    BY <2>1 DEF StaleErrors
  <2>3. CASE e \in DuplicateErrors(Collected)
    BY <2>3 DEF DuplicateErrors
  <2>4. CASE e \notin DuplicateErrors(Collected)
    <3>1. PICK b \in Collected : e \in EntryErrors(b)
      BY <2>2, <2>4 DEF InventoryErrors
    <3>2. PICK k \in MutationErrors(b) \cup {"line", "quality"} :
              /\ e = <<k, b.id>>
              /\ \/ k \in MutationErrors(b)
                 \/ k = "quality"
                 \/ k = "line" /\ PlaceErrors(b)
      BY <3>1 DEF EntryErrors
    <3>3. inventory[b.id] = Entry(b)
      BY <2>1
    <3>4. ~PlaceErrors(b)
      BY <3>3 DEF PlaceErrors, Entry
    <3>5. CASE k \in MutationErrors(b)
      <4>1. MutationOperations(b.text) # {}
        <5>1. MutationOperations(b.text) = {} => Entry(b).mutation = NoContract
          BY DEF Entry
        <5> QED
          BY <3>3, <3>5, <5>1 DEF MutationErrors
      <4>2. Entry(b).mutation.operations = MutationOperations(b.text)
        BY <4>1 DEF Entry
      <4>3. k = "requirements" \/ (k = "mode" /\ ModeErrors(Entry(b)))
        <5>1. MutationErrors(b) = {x \in {"operations", "mode", "requirements"} :
                 \/ x = "operations" /\ Entry(b).mutation.operations # MutationOperations(b.text)
                 \/ x = "mode" /\ ModeErrors(Entry(b))
                 \/ x = "requirements" /\ ~(Entry(b).mutation.oracle /\ Entry(b).mutation.cleanup)}
          BY <3>3, <4>1 DEF MutationErrors
        <5> QED
          BY <3>5, <4>2, <5>1
      <4>4. ModeErrors(Entry(b)) => InWorkflow(b)
        BY <4>1 DEF ModeErrors, Entry, Classify
      <4>5. InWorkflow(b) => Canonical \in Range(pages[b.path])
        <5>1. \E p \in public : b.path = p /\ b.line - 1 \in 1..Len(pages[p])
          BY BlockOfCollection
        <5>2. InWorkflow(b) => \E i \in 1..(b.line - 1) : pages[b.path][i] = Canonical
          BY DEF InWorkflow, LastAbove
        <5>3. b.path \in Paths /\ pages[b.path] \in Seq(Lines)
          BY <5>1 DEF IInv, TypeOK
        <5>4. DOMAIN pages[b.path] = 1..Len(pages[b.path]) /\ Len(pages[b.path]) \in Nat
          BY <5>3, LenProperties
        <5>5. b.line - 1 \in 1..Len(pages[b.path])
          BY <5>1
        <5> QED
          BY <5>2, <5>4, <5>5 DEF Range
      <4> QED
        BY <3>2, <4>3, <4>4, <4>5
    <3> QED
      BY <3>2, <3>4, <3>5
  <2> QED
    BY <2>3, <2>4
<1> QED
  BY <1>1, Invariant, PTL
=============================================================================
