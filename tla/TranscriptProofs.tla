--------------------------- MODULE TranscriptProofs ---------------------------
(***************************************************************************)
(* Proofs about the message table of one thread, for any number of lines,  *)
(* jobs and moments.  A batch is followed message by message: Ingest keeps *)
(* a transaction a sound draft of its page (InHand), with watermarks that  *)
(* its rows account for (MarksFit) and with everything of the page told by *)
(* the table as the transaction sees it (Tells).  From that the state is   *)
(* Sound after every step, and the properties of Transcript follow: a line *)
(* is stored once, a retraction is true and final, nothing that was read   *)
(* is lost, and the watermarks owe an answer where one is due.             *)
(***************************************************************************)
EXTENDS Transcript, FiniteSetTheorems, WellFoundedInduction, TLAPS

\* A set of numbers that is not empty has a least element.
LEMMA LeastOf ==
  ASSUME NEW S \in SUBSET Nat, S # {}
  PROVE  \E i \in S : \A j \in S : i <= j
<1>1. IsWellFoundedOn(OpToRel(<, Nat), Nat)
  BY NatLessThanWellFounded
<1>2. IsWellFoundedOn(OpToRel(<, Nat), S)
  BY <1>1, IsWellFoundedOnSubset
<1>3. PICK i \in S : \A j \in S : ~(<<j, i>> \in OpToRel(<, Nat))
  BY <1>1, WFMin
<1>4. \A j \in S : ~(j < i)
  BY <1>3 DEF OpToRel
<1>5. QED
  BY <1>4

\* The recursion of Stored has a solution.
LEMMA StoredAfter ==
  ASSUME NEW n \in Nat, NEW o, NEW b
  PROVE  \E f : /\ f = [i \in 0..n |-> IF i = 0 THEN b ELSE Ingest(f[i - 1], o[i])]
                /\ Stored(b, o, n) = f[n]
<1> DEFINE Solves(f, m) ==
       f = [i \in 0..m |-> IF i = 0 THEN b ELSE Ingest(f[i - 1], o[i])]
<1>1. \A m \in Nat : \E f : Solves(f, m)
  <2> SUFFICES ASSUME NEW q \in Nat, ~\E f : Solves(f, q) PROVE FALSE
    OBVIOUS
  <2> DEFINE S == {m \in Nat : ~\E f : Solves(f, m)}
  <2>1. PICK m \in S : \A j \in S : m <= j
    <3>1. S \in SUBSET Nat /\ q \in S
      OBVIOUS
    <3> HIDE DEF S
    <3>2. QED
      BY <3>1, LeastOf
  <2>2. m # 0
    <3>1. Solves([i \in 0..0 |-> b], 0)
      OBVIOUS
    <3>2. QED
      BY <3>1
  <2>3. m - 1 \in Nat /\ m - 1 \notin S
    <3>1. m \in Nat
      OBVIOUS
    <3> HIDE DEF S
    <3>2. QED
      BY <2>1, <2>2, <3>1
  <2>4. PICK f : Solves(f, m - 1)
    BY <2>3
  <2> DEFINE g == [i \in 0..m |-> IF i = m THEN Ingest(f[m - 1], o[m]) ELSE f[i]]
  <2>5. Solves(g, m)
    <3>1. \A i \in 0..m : g[i] = IF i = 0 THEN b ELSE Ingest(g[i - 1], o[i])
      BY <2>2, <2>3, <2>4
    <3>2. g = [i \in 0..m |-> g[i]]
      OBVIOUS
    <3> HIDE DEF g
    <3>3. QED
      BY <3>1, <3>2
  <2>6. QED
    BY <2>5
<1> DEFINE f == CHOOSE f : Solves(f, n)
<1>2. Solves(f, n)
  BY <1>1
<1>3. Stored(b, o, n) = f[n]
  BY DEF Stored
<1>4. QED
  BY <1>2, <1>3

\* What holds of a transaction that begins, and is kept by each message as it
\* is stored, holds of the transaction after the page: I[i] are the
\* transactions in which it holds after i messages.
LEMMA StoredIn ==
  ASSUME NEW n \in Nat, NEW o, NEW b, NEW I, b \in I[0],
         \A i \in 1..n : \A t \in I[i - 1] : Ingest(t, o[i]) \in I[i]
  PROVE  Stored(b, o, n) \in I[n]
<1>1. PICK f : /\ f = [i \in 0..n |-> IF i = 0 THEN b ELSE Ingest(f[i - 1], o[i])]
               /\ Stored(b, o, n) = f[n]
  BY StoredAfter
<1>2. f[0] = b /\ \A i \in 1..n : f[i] = Ingest(f[i - 1], o[i])
  <2>1. \A i \in 0..n : f[i] = IF i = 0 THEN b ELSE Ingest(f[i - 1], o[i])
    BY <1>1
  <2>2. QED
    BY <2>1
<1> DEFINE S == {i \in 0..n : f[i] \notin I[i]}
<1>3. S = {}
  <2> SUFFICES ASSUME S # {} PROVE FALSE
    OBVIOUS
  <2>1. S \in SUBSET Nat
    OBVIOUS
  <2>2. PICK i \in S : \A j \in S : i <= j
    <3> HIDE DEF S
    <3>1. QED
      BY <2>1, LeastOf
  <2>3. i \in 0..n /\ f[i] \notin I[i]
    OBVIOUS
  <2>4. CASE i = 0
    BY <1>2, <2>3, <2>4
  <2>5. CASE i # 0
    <3>1. i \in 1..n /\ i - 1 \in 0..n /\ ~(i <= i - 1)
      BY <2>3, <2>5
    <3>2. i - 1 \notin S
      BY <2>2, <3>1
    <3>3. f[i - 1] \in I[i - 1]
      BY <3>1, <3>2
    <3>4. QED
      BY <1>2, <2>3, <3>1, <3>3
  <2>6. QED
    BY <2>4, <2>5
<1>4. f[n] \in I[n]
  BY <1>3
<1>5. QED
  BY <1>1, <1>4
------------------------------------------------------------------------------
(* What a transaction has found out, and what it is about to write.        *)
Same(x, y) == x.line = y.line /\ x.id = y.id
Keyed(R)   == \A x, y \in R : Same(x, y) => x = y
Bodied(z)  == z.line \in Photos <=> z.body # "text"
Results(t) == t.new \cup {f.new : f \in t.fills}

\* A row that a copy of the page p has become.
FromPage(y, p) ==
  /\ ~y.revoked /\ ~y.wanted
  /\ \E c \in p : c.line = y.line /\ c.id = y.id /\ c.body = y.body

\* A blank row of an attachment, and what it is filled with.
FillsBlank(f, p) ==
  /\ f.old.line \in Photos /\ f.old.body = "blank"
  /\ at[f.old.line] = at[f.new.line]
  /\ f.new.body = "rich" /\ FromPage(f.new, p)

\* A page describes each line once, and only lines that were said.
PageSound(p) ==
  /\ \A c \in p : at[c.line] # 0 /\ Bodied(c)
  /\ \A c, d \in p : c.line = d.line => c = d

\* A row is of a line that was said, and only our own lines are retracted.
RowSound(x) ==
  /\ at[x.line] # 0 /\ Bodied(x)
  /\ x.revoked \/ x.wanted => x.line \in OurLines
  /\ ~(x.revoked /\ x.wanted)

\* What a transaction has put together for the page p.
Draft(t, p) ==
  /\ \A y \in t.new : FromPage(y, p)
  /\ \A f \in t.fills : FillsBlank(f, p)
  /\ \A f, g \in t.fills : f.old = g.old => f = g

\* The transaction t while it stores the page p: it never adds a second row
\* under an id, nor one for a line whose words are in the table.
InHand(t, p) ==
  /\ t.phase = "open" /\ t.page = p /\ t.seen = marks
  /\ Draft(t, p)
  /\ \A f \in t.fills : f.old \in rows
  /\ Keyed(View(t))
  /\ \A y \in t.new : y.line \notin Photos =>
       /\ \A x \in rows : x.line # y.line
       /\ \A z \in t.new : z.line = y.line => z = y

\* The watermarks that it will write are those it read or of lines it adds.
MarksFit(t) ==
  /\ \/ t.marks.lastOut = t.seen.lastOut
     \/ \E y \in t.new : y.line \in OurLines /\ at[y.line] = t.marks.lastOut
  /\ t.seen.lastIn <= t.marks.lastIn
  /\ \A y \in t.new : y.line \in Texts \cup Photos => at[y.line] <= t.marks.lastIn
  /\ \/ t.marks.lastIn = t.seen.lastIn
     \/ \E y \in t.new : /\ y.line \in Texts \cup Photos
                        /\ at[y.line] = t.marks.lastIn

\* The table as the transaction sees it.
LEMMA ViewIs ==
  ASSUME NEW t \in Run, \A f, g \in t.fills : f.old = g.old => f = g, NEW x
  PROVE  x \in View(t) <=> \/ x \in t.new
                           \/ x \in rows /\ \A f \in t.fills : f.old # x
                           \/ \E f \in t.fills : f.old \in rows /\ f.new = x
<1>1. ASSUME NEW f \in t.fills PROVE Filled(f.old, t.fills) = f.new
  <2>1. (CHOOSE g \in t.fills : g.old = f.old) = f
    OBVIOUS
  <2>2. QED
    BY <2>1 DEF Filled
<1>2. \A y : ~(\E f \in t.fills : f.old = y) => Filled(y, t.fills) = y
  BY DEF Filled
<1>3. ASSUME NEW f \in t.fills, f.old \in rows PROVE f.new \in View(t)
  BY <1>1, <1>3 DEF View
<1>4. ASSUME x \in rows, \A f \in t.fills : f.old # x PROVE x \in View(t)
  BY <1>2, <1>4 DEF View
<1>5. ASSUME x \in View(t), x \notin t.new
      PROVE  \/ x \in rows /\ \A f \in t.fills : f.old # x
             \/ \E f \in t.fills : f.old \in rows /\ f.new = x
  <2>1. PICK y \in rows : x = Filled(y, t.fills)
    BY <1>5 DEF View
  <2>2. QED
    BY <1>1, <1>2, <2>1
<1>6. t.new \subseteq View(t)
  BY DEF View
<1>7. QED
  BY <1>3, <1>4, <1>5, <1>6

\* The larger of two moments.
LEMMA LaterOf ==
  ASSUME NEW i \in Int, NEW j \in Int
  PROVE  Max({i, j}) = IF i <= j THEN j ELSE i
<1> DEFINE m == IF i <= j THEN j ELSE i
<1>1. m \in {i, j} /\ \A x \in {i, j} : m >= x
  OBVIOUS
<1>2. \A y \in {i, j} : (\A x \in {i, j} : y >= x) => y = m
  OBVIOUS
<1>3. QED
  BY <1>1, <1>2 DEF Max

\* A set of moments that is not empty has a latest one.
LEMMA LatestOf ==
  ASSUME NEW S \in SUBSET Moment, S # {}
  PROVE  Max(S) \in S /\ \A i \in S : i <= Max(S)
<1> MaxClock \in Nat
  BY TranscriptAssumption
<1> DEFINE T == {MaxClock - i : i \in S}
<1>1. T \in SUBSET Nat /\ T # {}
  <2>1. \A i \in S : i \in Nat /\ i <= MaxClock
    BY DEF Moment
  <2>2. \A i \in S : MaxClock - i \in Nat
    BY <2>1
  <2>3. QED
    BY <2>2
<1>2. PICK k \in T : \A j \in T : k <= j
  <2> HIDE DEF T
  <2>1. QED
    BY <1>1, LeastOf
<1>3. PICK m \in S : k = MaxClock - m
  BY <1>2
<1>4. \A i \in S : MaxClock - i \in T /\ i \in Nat
  BY DEF Moment
<1>5. \A i \in S : m >= i
  <2> HIDE DEF T
  <2>1. m \in Nat
    BY <1>3, <1>4
  <2>2. QED
    BY <1>2, <1>3, <1>4, <2>1
<1>6. \E n \in S : \A i \in S : n >= i
  BY <1>5
<1>7. Max(S) \in S /\ \A i \in S : Max(S) >= i
  BY <1>6 DEF Max
<1>8. QED
  BY <1>7 DEF Moment

\* The time of the newest row of a set, 0 if it is empty.
LEMMA NewestOf ==
  ASSUME TypeOK, NEW R \in SUBSET Row
  PROVE  /\ Newest(R) \in Moment
         /\ \A x \in R : at[x.line] <= Newest(R)
         /\ Newest(R) = 0 \/ \E x \in R : at[x.line] = Newest(R)
<1> DEFINE S == {at[x.line] : x \in R}
<1>1. \A x \in R : at[x.line] \in Moment
  BY DEF TypeOK, Row
<1>2. S \in SUBSET Moment
  BY <1>1
<1>3. CASE R = {}
  BY <1>3, TranscriptAssumption DEF Newest, Moment
<1>4. CASE R # {}
  <2>1. Newest(R) = Max(S) /\ S # {}
    BY <1>4 DEF Newest
  <2>2. Max(S) \in S /\ \A i \in S : i <= Max(S)
    <3> HIDE DEF S
    <3>1. QED
      BY <1>2, <2>1, LatestOf
  <2>3. \A x \in R : at[x.line] \in S
    OBVIOUS
  <2>4. \E x \in R : at[x.line] = Max(S)
    BY <2>2
  <2> HIDE DEF S
  <2>5. QED
    BY <1>2, <2>1, <2>2, <2>3, <2>4
<1>5. QED
  BY <1>3, <1>4

\* One message is recognised, fills in a blank row, or is added.
LEMMA IngestCases ==
  ASSUME NEW t, NEW c
  PROVE  \/ Recognised(View(t), c) /\ Ingest(t, c) = t
         \/ /\ ~Recognised(View(t), c) /\ IsIn(c)
            /\ \E x \in Blanks(View(t), c) : Ingest(t, c) = FillsIn(t, c, x)
         \/ /\ ~Recognised(View(t), c)
            /\ ~(IsIn(c) /\ Blanks(View(t), c) # {})
            /\ Ingest(t, c) = Adds(t, c)
<1> DEFINE R == Recognised(View(t), c)
           B == IsIn(c) /\ Blanks(View(t), c) # {}
           x == CHOOSE x \in Blanks(View(t), c) : TRUE
<1>1. R => Ingest(t, c) = t
  BY DEF Ingest
<1>2. ~R /\ B => Ingest(t, c) = FillsIn(t, c, x)
  BY DEF Ingest
<1>3. ~R /\ ~B => Ingest(t, c) = Adds(t, c)
  BY DEF Ingest
<1>4. B => x \in Blanks(View(t), c)
  OBVIOUS
<1> HIDE DEF x
<1>5. QED
  BY <1>1, <1>2, <1>3, <1>4

\* What a transaction sees are rows.
LEMMA ViewTyped ==
  ASSUME TypeOK, NEW t \in Run
  PROVE  View(t) \subseteq Row
<1>1. \A x \in rows : Filled(x, t.fills) \in Row
  <2>1. rows \subseteq Row /\ \A f \in t.fills : f.new \in Row
    BY DEF TypeOK, Run
  <2>2. QED
    BY <2>1 DEF Filled
<1>2. t.new \subseteq Row
  BY DEF Run
<1>3. QED
  BY <1>1, <1>2 DEF View

\* A message of a page becomes a typed transaction.
LEMMA IngestTyped ==
  ASSUME TypeOK, NEW t \in Run, NEW c \in Copy
  PROVE  Ingest(t, c) \in Run
<1>1. CASE Ingest(t, c) = t
  BY <1>1
<1>2. View(t) \subseteq Row
  BY ViewTyped
<1>3. ASSUME NEW x \in View(t) PROVE FillsIn(t, c, x) \in Run
  <2> DEFINE filled == [x EXCEPT !.line = c.line, !.id = c.id, !.body = c.body]
  <2>1. x \in Row
    BY <1>2
  <2>2. filled \in Row
    BY <2>1 DEF Row, Copy
  <2> HIDE DEF filled
  <2>3. [t EXCEPT !.new = (@ \ {x}) \cup {filled}] \in Run
    BY <2>2 DEF Run
  <2>4. [t EXCEPT !.fills = @ \cup {[old |-> x, new |-> filled]}] \in Run
    BY <2>1, <2>2 DEF Run
  <2>5. QED
    BY <2>3, <2>4 DEF FillsIn, filled
<1>4. Adds(t, c) \in Run
  <2>1. RowOf(c) \in Row
    BY DEF RowOf, Row, Copy
  <2>2. at[c.line] \in Moment
    BY DEF TypeOK, Copy
  <2>3. Marked(t.marks, c.line) \in Marks
    <3> DEFINE m == t.marks
    <3>1. m \in Marks
      BY DEF Run
    <3>2. Moment \subseteq Int
      BY DEF Moment
    <3>3. Max({m.lastOut, at[c.line]}) \in Moment
      <4>1. m.lastOut \in Moment
        BY <3>1 DEF Marks
      <4>2. QED
        BY <2>2, <3>2, <4>1, LaterOf
    <3> HIDE DEF m
    <3>4. QED
      BY <2>2, <3>1, <3>3 DEF Marked, Marks, m
  <2>4. QED
    BY <2>1, <2>3 DEF Adds, Run
<1>5. QED
  BY <1>1, <1>3, <1>4, IngestCases DEF Blanks

\* The row x with the content and the id of the copy c.
FilledWith(x, c) == [x EXCEPT !.line = c.line, !.id = c.id, !.body = c.body]

\* A blank row that the transaction itself has added takes the content.
LEMMA FillsOwn ==
  ASSUME NEW t \in Run, NEW c \in Copy, NEW x \in t.new
  PROVE  /\ FillsIn(t, c, x).new = (t.new \ {x}) \cup {FilledWith(x, c)}
         /\ FillsIn(t, c, x).fills = t.fills
BY DEF FillsIn, FilledWith, Run

\* And one of the table is listed.
LEMMA FillsRow ==
  ASSUME NEW t \in Run, NEW c \in Copy, NEW x, x \notin t.new
  PROVE  /\ FillsIn(t, c, x).new = t.new
         /\ FillsIn(t, c, x).fills =
              t.fills \cup {[old |-> x, new |-> FilledWith(x, c)]}
BY DEF FillsIn, FilledWith, Run

\* Nothing else of the transaction changes when a row is filled in.
LEMMA FillsKeep ==
  ASSUME NEW t \in Run, NEW c, NEW x
  PROVE  LET u == FillsIn(t, c, x) IN
         /\ u.phase = t.phase /\ u.page = t.page /\ u.seen = t.seen
         /\ u.marks = t.marks
BY DEF FillsIn, Run

\* What an added row changes.
LEMMA AddsIs ==
  ASSUME NEW t \in Run, NEW c
  PROVE  LET u == Adds(t, c) IN
         /\ u.phase = t.phase /\ u.page = t.page /\ u.seen = t.seen
         /\ u.fills = t.fills /\ u.new = t.new \cup {RowOf(c)}
         /\ u.marks = Marked(t.marks, c.line)
BY DEF Adds, Run

\* A blank row in view is an attachment of the lead that nobody has retracted,
\* and not yet filled in.
LEMMA BlankRow ==
  ASSUME TypeOK, \A x \in rows : RowSound(x), NEW t \in Run,
         NEW p \in SUBSET Copy, PageSound(p), InHand(t, p),
         NEW x \in View(t), IsIn(x), x.body = "blank"
  PROVE  /\ x \in Row /\ x.line \in Photos /\ ~x.revoked /\ ~x.wanted
         /\ x \in t.new \/ (x \in rows /\ \A f \in t.fills : f.old # x)
<1>1. \/ x \in t.new
      \/ x \in rows /\ \A f \in t.fills : f.old # x
      \/ \E f \in t.fills : f.old \in rows /\ f.new = x
  BY ViewIs DEF InHand, Draft
<1>2. CASE x \in t.new
  <2>1. x \in Row
    BY <1>2 DEF Run
  <2>2. FromPage(x, p)
    BY <1>2 DEF InHand, Draft
  <2>3. x.line \in Photos
    BY <2>2 DEF FromPage, PageSound, Bodied
  <2>4. QED
    BY <1>2, <2>1, <2>2, <2>3 DEF FromPage
<1>3. CASE x \in rows /\ \A f \in t.fills : f.old # x
  <2>1. x \in Row /\ RowSound(x)
    BY <1>3 DEF TypeOK
  <2>2. x.line \notin OurLines
    BY TranscriptAssumption DEF IsIn
  <2>3. QED
    BY <1>3, <2>1, <2>2 DEF RowSound, Bodied
<1>4. ~\E f \in t.fills : f.old \in rows /\ f.new = x
  BY DEF InHand, Draft, FillsBlank
<1>5. QED
  BY <1>1, <1>2, <1>3, <1>4

\* Filling in exchanges one row in view for another.
LEMMA FillsView ==
  ASSUME TypeOK, NEW t \in Run, NEW p, InHand(t, p), NEW c \in Copy,
         NEW x, x \in t.new \/ (x \in rows /\ \A f \in t.fills : f.old # x)
  PROVE  /\ View(FillsIn(t, c, x)) \subseteq View(t) \cup {FilledWith(x, c)}
         /\ View(t) \ {x} \subseteq View(FillsIn(t, c, x))
         /\ FilledWith(x, c) \in View(FillsIn(t, c, x))
<1> DEFINE u == FillsIn(t, c, x)
           z == FilledWith(x, c)
<1>1. \A f, g \in t.fills : f.old = g.old => f = g
  BY DEF InHand, Draft
<1>2. CASE x \in t.new
  <2>1. u.new = (t.new \ {x}) \cup {z} /\ u.fills = t.fills
    BY <1>2, FillsOwn
  <2> HIDE DEF u, z
  <2>2. QED
    BY <2>1 DEF View, u, z
<1>3. CASE x \notin t.new
  <2>1. u.new = t.new /\ u.fills = t.fills \cup {[old |-> x, new |-> z]}
    BY <1>3, FillsRow
  <2>2. x \in rows /\ \A f \in t.fills : f.old # x
    BY <1>3
  <2>3. \A y : y # x => Filled(y, u.fills) = Filled(y, t.fills)
    <3> HIDE DEF u, z
    <3>1. SUFFICES ASSUME NEW y, y # x
                   PROVE  Filled(y, u.fills) = Filled(y, t.fills)
      OBVIOUS
    <3>2. \A f : f \in u.fills /\ f.old = y <=> f \in t.fills /\ f.old = y
      BY <2>1, <3>1
    <3>3. (CHOOSE f \in u.fills : f.old = y) = (CHOOSE f \in t.fills : f.old = y)
      BY <3>2
    <3>4. QED
      BY <3>2, <3>3 DEF Filled
  <2>4. Filled(x, u.fills) = z
    <3> HIDE DEF u, z
    <3> DEFINE g == [old |-> x, new |-> z]
    <3>1. g.old = x /\ g.new = z
      OBVIOUS
    <3> HIDE DEF g
    <3>2. g \in u.fills /\ \A f \in u.fills : f.old = x => f = g
      BY <2>1, <2>2, <3>1 DEF g
    <3>3. (CHOOSE f \in u.fills : f.old = x) = g
      BY <3>1, <3>2
    <3>4. QED
      BY <3>1, <3>2, <3>3 DEF Filled
  <2>5. Filled(x, t.fills) = x
    BY <2>2 DEF Filled
  <2> HIDE DEF u, z
  <2>6. QED
    BY <2>1, <2>2, <2>3, <2>4, <2>5 DEF View, u, z
<1>4. QED
  BY <1>2, <1>3

\* An added row is one row more in view.
LEMMA AddsView ==
  ASSUME NEW t \in Run, NEW c
  PROVE  View(Adds(t, c)) = View(t) \cup {RowOf(c)}
BY AddsIs DEF View

\* The draft stays sound with one more message of the page.
LEMMA IngestDrafts ==
  ASSUME TypeOK, \A x \in rows : RowSound(x), NEW t \in Run,
         NEW p \in SUBSET Copy, PageSound(p), InHand(t, p), NEW c \in p
  PROVE  InHand(Ingest(t, c), p)
<1> c \in Copy
  OBVIOUS
<1> DEFINE u == Ingest(t, c)
<1>1. CASE Ingest(t, c) = t
  BY <1>1
<1>2. ASSUME ~Recognised(View(t), c), IsIn(c), NEW x \in Blanks(View(t), c),
             u = FillsIn(t, c, x)
      PROVE  InHand(u, p)
  <2> DEFINE z == FilledWith(x, c)
  <2>1. /\ x \in View(t) /\ c.body = "rich" /\ IsIn(x) /\ at[x.line] = at[c.line]
        /\ x.body = "blank"
    BY DEF Blanks, Nearby
  <2>2. /\ x \in Row /\ x.line \in Photos /\ ~x.revoked /\ ~x.wanted
        /\ x \in t.new \/ (x \in rows /\ \A f \in t.fills : f.old # x)
    BY <2>1, BlankRow
  <2>3. /\ z.line = c.line /\ z.id = c.id /\ z.body = c.body
        /\ ~z.revoked /\ ~z.wanted
    BY <2>2 DEF FilledWith, Row
  <2>4. FromPage(z, p)
    BY <2>3 DEF FromPage
  <2>5. c.line \in Photos
    BY <2>1 DEF PageSound, Bodied
  <2>6. /\ View(u) \subseteq View(t) \cup {z} /\ View(t) \ {x} \subseteq View(u)
    BY <1>2, <2>2, FillsView
  <2>7. Keyed(View(u))
    <3>1. \A y \in View(t) : ~Same(y, z)
      BY <1>2, <2>3 DEF Recognised, ByExternal, Same
    <3>2. \A y \in View(t) : ~Same(z, y)
      BY <3>1 DEF Same
    <3>3. Keyed(View(t))
      BY DEF InHand
    <3> HIDE DEF u, z
    <3>4. QED
      BY <2>6, <3>1, <3>2, <3>3 DEF Keyed
  <2>8. CASE x \in t.new
    <3>1. u.new = (t.new \ {x}) \cup {z} /\ u.fills = t.fills
      BY <1>2, <2>8, FillsOwn
    <3>2. /\ u.phase = t.phase /\ u.page = t.page /\ u.seen = t.seen
      BY <1>2, FillsKeep
    <3>3. z.line \in Photos
      BY <2>3, <2>5
    <3> HIDE DEF u, z
    <3>4. Draft(u, p)
      BY <2>4, <3>1 DEF InHand, Draft
    <3>5. QED
      BY <2>7, <3>1, <3>2, <3>3, <3>4 DEF InHand
  <2>9. CASE x \notin t.new
    <3> DEFINE g == [old |-> x, new |-> z]
    <3>1. u.new = t.new /\ u.fills = t.fills \cup {g}
      BY <1>2, <2>9, FillsRow
    <3>2. /\ u.phase = t.phase /\ u.page = t.page /\ u.seen = t.seen
      BY <1>2, FillsKeep
    <3>3. FillsBlank(g, p)
      BY <2>1, <2>2, <2>3, <2>4 DEF FillsBlank
    <3>4. x \in rows /\ \A f \in t.fills : f.old # x
      BY <2>2, <2>9
    <3>5. g.old = x
      OBVIOUS
    <3> HIDE DEF u, z, g
    <3>6. Draft(u, p)
      BY <3>1, <3>3, <3>4, <3>5 DEF InHand, Draft
    <3>7. QED
      BY <2>7, <3>1, <3>2, <3>4, <3>5, <3>6 DEF InHand
  <2>10. QED
    BY <2>8, <2>9
<1>3. ASSUME ~Recognised(View(t), c), u = Adds(t, c)
      PROVE  InHand(u, p)
  <2> DEFINE z == RowOf(c)
  <2>1. /\ u.phase = t.phase /\ u.page = t.page /\ u.seen = t.seen
        /\ u.fills = t.fills /\ u.new = t.new \cup {z}
    BY <1>3, AddsIs
  <2>2. View(u) = View(t) \cup {z}
    BY <1>3, AddsView
  <2>3. z.line = c.line /\ z.id = c.id /\ z.body = c.body /\ ~z.revoked /\ ~z.wanted
    BY DEF RowOf
  <2>4. FromPage(z, p)
    BY <2>3 DEF FromPage
  <2>5. Keyed(View(u))
    <3>1. \A y \in View(t) : ~Same(y, z) /\ ~Same(z, y)
      BY <1>3, <2>3 DEF Recognised, ByExternal, Same
    <3> HIDE DEF u, z
    <3>2. QED
      BY <2>2, <3>1 DEF Keyed, InHand
  <2>6. c.line \notin Photos => \A x \in View(t) : x.line # c.line
    <3>1. c.line \notin Photos => c.body = "text"
      BY DEF PageSound, Bodied
    <3>2. QED
      BY <1>3, <3>1 DEF Recognised, ByContent, Nearby
  <2>7. \A x \in rows : x.line \notin Photos => x \in View(t)
    <3>1. \A f \in t.fills : f.old.line \in Photos
      BY DEF InHand, Draft, FillsBlank
    <3>2. \A x \in rows : x.line \notin Photos => \A f \in t.fills : f.old # x
      BY <3>1
    <3>3. QED
      BY <3>2, ViewIs DEF InHand, Draft
  <2>8. t.new \subseteq View(t)
    BY DEF View
  <2>9. Draft(u, p)
    <3> HIDE DEF u, z
    <3>1. QED
      BY <2>1, <2>4 DEF InHand, Draft
  <2> HIDE DEF u, z
  <2>10. \A y \in u.new : y.line \notin Photos =>
           /\ \A x \in rows : x.line # y.line
           /\ \A w \in u.new : w.line = y.line => w = y
    BY <2>1, <2>3, <2>6, <2>7, <2>8 DEF InHand
  <2>11. QED
    BY <2>1, <2>5, <2>9, <2>10 DEF InHand
<1>4. QED
  BY <1>1, <1>2, <1>3, IngestCases

\* The row x is the line that c describes: the same one or, where a poll may
\* not say what an attachment is, another attachment of its moment.
Tells(x, c) == x.line = c.line \/ (link.blanks /\ StandsFor(x, c))

\* Only a poll that may say so calls an attachment blank.
Clear(R) == link.blanks \/ \A x \in R : x.body # "blank"

\* What a transaction sees has the body of its line.
LEMMA ViewSound ==
  ASSUME \A x \in rows : RowSound(x), NEW t \in Run, NEW p, PageSound(p),
         InHand(t, p), NEW x \in View(t)
  PROVE  Bodied(x) /\ (Clear(rows) /\ Clear(p) => Clear({x}))
<1>1. \/ x \in t.new
      \/ x \in rows
      \/ \E f \in t.fills : f.new = x
  BY ViewIs DEF InHand, Draft
<1>2. CASE x \in rows
  BY <1>2 DEF RowSound, Clear
<1>3. CASE x \notin rows
  <2>1. FromPage(x, p)
    BY <1>1, <1>3 DEF InHand, Draft, FillsBlank
  <2>2. QED
    BY <2>1 DEF FromPage, PageSound, Bodied, Clear
<1>4. QED
  BY <1>2, <1>3

\* Whatever was told in view is told after one more message, and so is that.
LEMMA IngestTells ==
  ASSUME TypeOK, \A x \in rows : RowSound(x), NEW t \in Run,
         NEW p \in SUBSET Copy, PageSound(p), InHand(t, p), NEW c \in p,
         Clear(rows), Clear(p)
  PROVE  /\ \E x \in View(Ingest(t, c)) : Tells(x, c)
         /\ \A d, x : x \in View(t) /\ Tells(x, d)
                      => \E y \in View(Ingest(t, c)) : Tells(y, d)
<1> c \in Copy
  OBVIOUS
<1> DEFINE u == Ingest(t, c)
<1>1. CASE Recognised(View(t), c) /\ u = t
  <2>1. CASE ByExternal(View(t), c) \/ ByContent(View(t), c)
    BY <1>1, <2>1 DEF ByExternal, ByContent, Tells
  <2>2. CASE IsIn(c) /\ Rich(View(t), c)
    <3>1. PICK x \in View(t) : IsIn(x) /\ Nearby(x, c) /\ x.body = "rich"
      BY <2>2 DEF Rich
    <3>2. c.body = "blank"
      BY <2>2 DEF Rich
    <3>3. link.blanks
      BY <3>2 DEF Clear
    <3>4. x.line \in Photos /\ c.line \in Photos
      BY <3>1, <3>2, ViewSound DEF Bodied, PageSound
    <3>5. Tells(x, c)
      BY <3>1, <3>3, <3>4 DEF Tells, StandsFor
    <3>6. QED
      BY <1>1, <3>5
  <2>3. QED
    BY <1>1, <2>1, <2>2 DEF Recognised
<1>2. ASSUME ~Recognised(View(t), c), IsIn(c), NEW x \in Blanks(View(t), c),
             u = FillsIn(t, c, x)
      PROVE  /\ \E y \in View(u) : Tells(y, c)
             /\ \A d, y : y \in View(t) /\ Tells(y, d)
                          => \E w \in View(u) : Tells(w, d)
  <2> DEFINE z == FilledWith(x, c)
  <2>1. /\ x \in View(t) /\ c.body = "rich" /\ IsIn(x) /\ at[x.line] = at[c.line]
        /\ x.body = "blank"
    BY DEF Blanks, Nearby
  <2>2. /\ x \in Row /\ x.line \in Photos
        /\ x \in t.new \/ (x \in rows /\ \A f \in t.fills : f.old # x)
    BY <2>1, BlankRow
  <2>3. z.line = c.line
    BY <2>2 DEF FilledWith, Row
  <2>4. c.line \in Photos
    BY <2>1 DEF PageSound, Bodied
  <2>5. /\ View(t) \ {x} \subseteq View(u) /\ z \in View(u)
    BY <1>2, <2>2, FillsView
  <2>6. link.blanks
    BY <2>1, ViewSound DEF Clear
  <2> HIDE DEF z, u
  <2>7. \A d : Tells(x, d) => Tells(z, d)
    BY <2>1, <2>2, <2>3, <2>4, <2>6 DEF Tells, StandsFor, Nearby
  <2>8. Tells(z, c)
    BY <2>3 DEF Tells
  <2>9. QED
    BY <2>5, <2>7, <2>8
<1>3. ASSUME u = Adds(t, c)
      PROVE  /\ \E x \in View(u) : Tells(x, c)
             /\ \A d, x : x \in View(t) /\ Tells(x, d)
                          => \E y \in View(u) : Tells(y, d)
  <2>1. View(u) = View(t) \cup {RowOf(c)}
    BY <1>3, AddsView
  <2>2. Tells(RowOf(c), c)
    BY DEF RowOf, Tells
  <2> HIDE DEF u
  <2>3. QED
    BY <2>1, <2>2
<1> HIDE DEF u
<1>4. u = Ingest(t, c)
  BY DEF u
<1>5. \/ Recognised(View(t), c) /\ u = t
      \/ /\ ~Recognised(View(t), c) /\ IsIn(c)
         /\ \E x \in Blanks(View(t), c) : u = FillsIn(t, c, x)
      \/ u = Adds(t, c)
  BY <1>4, IngestCases
<1>6. QED
  BY <1>1, <1>2, <1>3, <1>4, <1>5

\* The watermarks of the transaction stay those of its rows.
LEMMA IngestMarks ==
  ASSUME TypeOK, \A x \in rows : RowSound(x), NEW t \in Run,
         NEW p \in SUBSET Copy, PageSound(p), InHand(t, p), NEW c \in p,
         MarksFit(t)
  PROVE  MarksFit(Ingest(t, c))
<1> c \in Copy
  OBVIOUS
<1> DEFINE u == Ingest(t, c)
<1>1. ASSUME IsIn(c), NEW x \in Blanks(View(t), c), u = FillsIn(t, c, x)
      PROVE  MarksFit(u)
  <2> DEFINE z == FilledWith(x, c)
  <2>1. /\ x \in View(t) /\ c.body = "rich" /\ IsIn(x) /\ at[x.line] = at[c.line]
        /\ x.body = "blank"
    BY <1>1 DEF Blanks, Nearby
  <2>2. x \in Row /\ x.line \in Photos
    BY <2>1, BlankRow
  <2>3. z.line = c.line
    BY <2>2 DEF FilledWith, Row
  <2>4. c.line \in Photos
    BY <2>1 DEF PageSound, Bodied
  <2>5. u.seen = t.seen /\ u.marks = t.marks
    BY <1>1, FillsKeep
  <2>6. u.new = t.new \/ (x \in t.new /\ u.new = (t.new \ {x}) \cup {z})
    BY <1>1, FillsOwn, FillsRow
  <2>7. x.line \notin OurLines
    BY <2>1, TranscriptAssumption DEF IsIn
  <2> HIDE DEF u, z
  <2>8. QED
    BY <2>1, <2>2, <2>3, <2>4, <2>5, <2>6, <2>7 DEF MarksFit
<1>2. ASSUME u = Adds(t, c) PROVE MarksFit(u)
  <2> DEFINE z == RowOf(c)
             m == Marked(t.marks, c.line)
  <2>1. u.seen = t.seen /\ u.new = t.new \cup {z} /\ u.marks = m
    BY <1>2, AddsIs
  <2>2. z.line = c.line
    BY DEF RowOf
  <2>3. /\ t.marks \in Marks /\ t.seen \in Marks /\ at[c.line] \in Int
        /\ \A y \in t.new : at[y.line] \in Int
    BY DEF Run, TypeOK, Row, Copy, Moment
  <2>4. /\ t.marks.lastIn \in Int /\ t.marks.lastOut \in Int /\ t.seen.lastIn \in Int
    BY <2>3 DEF Marks, Moment
  <2>5. CASE c.line \in OurLines
    <3>1. m = [t.marks EXCEPT !.lastOut = Max({t.marks.lastOut, at[c.line]})]
      BY <2>5 DEF Marked
    <3>2. m.lastIn = t.marks.lastIn
      BY <2>3, <3>1 DEF Marks
    <3>3. m.lastOut = t.marks.lastOut \/ m.lastOut = at[c.line]
      BY <2>3, <2>4, <3>1, LaterOf DEF Marks
    <3>4. c.line \notin Texts \cup Photos
      BY <2>5, TranscriptAssumption DEF LeadLines
    <3> HIDE DEF u, z, m
    <3>5. QED
      BY <2>1, <2>2, <2>5, <3>2, <3>3, <3>4 DEF MarksFit
  <2>6. CASE c.line \in LeadLines
    <3>0. c.line \notin OurLines /\ (c.line \in Robots <=> c.line \notin Texts \cup Photos)
      BY <2>6, TranscriptAssumption DEF LeadLines
    <3>1. m.lastOut = t.marks.lastOut
      BY <2>3, <3>0 DEF Marked, Marks
    <3>2. m.lastIn = IF c.line \in Robots \/ at[c.line] <= t.marks.lastIn
                     THEN t.marks.lastIn ELSE at[c.line]
      BY <2>3, <3>0 DEF Marked, Marks
    <3> HIDE DEF u, z, m
    <3>3. CASE c.line \in Robots \/ at[c.line] <= t.marks.lastIn
      BY <2>1, <2>2, <3>0, <3>1, <3>2, <3>3 DEF MarksFit
    <3>4. CASE ~(c.line \in Robots \/ at[c.line] <= t.marks.lastIn)
      BY <2>1, <2>2, <2>3, <2>4, <3>0, <3>1, <3>2, <3>4 DEF MarksFit
    <3>5. QED
      BY <3>3, <3>4
  <2>7. c.line \in LeadLines \cup OurLines
    BY DEF Copy, Lines
  <2>8. QED
    BY <2>5, <2>6, <2>7
<1>3. QED
  BY <1>1, <1>2, IngestCases

\* An order of a page goes through all of it.
LEMMA OrderCovers ==
  ASSUME TypeOK, NEW p \in SUBSET Copy, PageSound(p), NEW o \in OldestFirst(p)
  PROVE  /\ Cardinality(p) \in Nat
         /\ \A i \in 1..Cardinality(p) : o[i] \in p
         /\ \A c \in p : \E i \in 1..Cardinality(p) : o[i] = c
<1> DEFINE n == Cardinality(p)
           f == [c \in p |-> c.line]
<1>1. f \in Injection(p, Lines)
  <2>1. f \in [p -> Lines]
    BY DEF Copy
  <2>2. \A c, d \in p : f[c] = f[d] => c = d
    BY DEF PageSound
  <2>3. QED
    BY <2>1, <2>2 DEF Injection, IsInjective
<1>2. IsFiniteSet(p)
  BY <1>1, FS_Injection, TranscriptAssumption
<1>3. n \in Nat
  BY <1>2, FS_CardinalityType
<1>4. IsFiniteSet(1..n) /\ Cardinality(1..n) = n
  BY <1>3, FS_Interval
<1>5. o \in Injection(1..n, p)
  <2>1. o \in [1..n -> p] /\ \A i, j \in 1..n : i < j => o[i] # o[j]
    BY DEF OldestFirst
  <2>2. \A i, j \in 1..n : o[i] = o[j] => i = j
    BY <1>3, <2>1
  <2>3. QED
    BY <2>1, <2>2 DEF Injection, IsInjective
<1>6. o \in Surjection(1..n, p)
  BY <1>2, <1>4, <1>5, FS_Injection
<1>7. QED
  BY <1>3, <1>6 DEF Surjection

\* The transaction that Opens leaves: a sound draft whose view tells all of
\* the page.
LEMMA OpenedSound ==
  ASSUME TypeOK, \A x \in rows : RowSound(x), Keyed(rows), NEW b \in Run,
         b.new = {}, b.fills = {}, PageSound(b.page),
         NEW o \in OldestFirst(b.page)
  PROVE  LET u == Stored(Begun(b), o, Cardinality(b.page)) IN
         /\ u \in Run /\ InHand(u, b.page) /\ MarksFit(u)
         /\ Clear(rows) /\ Clear(b.page)
              => \A c \in b.page : \E x \in View(u) : Tells(x, c)
<1> DEFINE p == b.page
           n == Cardinality(p)
           Told(t, i) == Clear(rows) /\ Clear(p)
                           => \A j \in 1..i : \E x \in View(t) : Tells(x, o[j])
           I == [i \in 0..n |->
                  {t \in Run : InHand(t, p) /\ MarksFit(t) /\ Told(t, i)}]
<1>1. p \in SUBSET Copy
  BY DEF Run
<1>2. n \in Nat /\ \A i \in 1..n : o[i] \in p
  BY <1>1, OrderCovers
<1>3. \A c \in p : \E i \in 1..n : o[i] = c
  BY <1>1, OrderCovers
<1>4. Begun(b) \in I[0]
  <2> DEFINE t == Begun(b)
  <2>1. t \in Run
    BY DEF Begun, Run, TypeOK
  <2>2. /\ t.phase = "open" /\ t.page = p /\ t.seen = marks /\ t.marks = marks
        /\ t.new = {} /\ t.fills = {}
    BY DEF Begun, Run
  <2> HIDE DEF t
  <2>3. Keyed(View(t))
    <3>1. \A x : Filled(x, t.fills) = x
      BY <2>2 DEF Filled
    <3>2. View(t) = rows
      BY <2>2, <3>1 DEF View
    <3>3. QED
      BY <3>2
  <2>4. InHand(t, p)
    BY <2>2, <2>3 DEF InHand, Draft
  <2>5. MarksFit(t)
    <3>1. marks.lastIn \in Int
      BY DEF TypeOK, Marks, Moment
    <3>2. QED
      BY <2>2, <3>1 DEF MarksFit
  <2>6. Told(t, 0)
    OBVIOUS
  <2> HIDE DEF Told
  <2>7. QED
    BY <1>2, <2>1, <2>4, <2>5, <2>6 DEF t
<1>5. ASSUME NEW i \in 1..n, NEW t \in I[i - 1] PROVE Ingest(t, o[i]) \in I[i]
  <2> DEFINE c == o[i]
             u == Ingest(t, c)
  <2>0. i - 1 \in 0..n /\ i \in 0..n /\ \A j \in 1..i : j = i \/ j \in 1..(i - 1)
    BY <1>2
  <2>1. t \in Run /\ InHand(t, p) /\ MarksFit(t) /\ Told(t, i - 1)
    BY <2>0
  <2>2. c \in p /\ c \in Copy
    BY <1>1, <1>2
  <2>3. u \in Run /\ InHand(u, p) /\ MarksFit(u)
    BY <1>1, <2>1, <2>2, IngestTyped, IngestDrafts, IngestMarks
  <2>4. Told(u, i)
    <3> SUFFICES ASSUME Clear(rows), Clear(p), NEW j \in 1..i
                 PROVE  \E x \in View(u) : Tells(x, o[j])
      OBVIOUS
    <3>1. /\ \E x \in View(u) : Tells(x, c)
          /\ \A d, x : x \in View(t) /\ Tells(x, d)
                       => \E y \in View(u) : Tells(y, d)
      BY <1>1, <2>1, <2>2, IngestTells
    <3>2. CASE j = i
      BY <3>1, <3>2
    <3>3. CASE j \in 1..(i - 1)
      <4>1. \E x \in View(t) : Tells(x, o[j])
        BY <2>1, <3>3
      <4>2. QED
        BY <3>1, <4>1
    <3>4. QED
      BY <2>0, <3>2, <3>3
  <2> HIDE DEF Told, u
  <2>5. QED
    BY <2>0, <2>3, <2>4 DEF u
<1> HIDE DEF I
<1>6. Stored(Begun(b), o, n) \in I[n]
  BY <1>2, <1>4, <1>5, StoredIn
<1>7. I[n] = {t \in Run : InHand(t, p) /\ MarksFit(t) /\ Told(t, n)}
  BY <1>2 DEF I
<1>8. QED
  BY <1>2, <1>3, <1>6, <1>7
------------------------------------------------------------------------------
(* What every state keeps.                                                 *)
\* A reader's job: nothing of its own before the transaction is open, and then
\* a sound draft of the page, with one row to an id.
RunSound(t) ==
  /\ t.phase = "idle" => t = NoRun
  /\ t.phase # "open" => t.new = {} /\ t.fills = {}
  /\ PageSound(t.page)
  /\ Draft(t, t.page)
  /\ Keyed(Results(t))
  /\ MarksFit(t)

\* The row that the deletion job holds is in the table and still wanted gone;
\* a line is said once, and the sender's state says whether it was.
Sound ==
  /\ TypeOK
  /\ \A l \in Lines : at[l] <= clock
  /\ \A l \in Owns : sender[l] = "queued" <=> at[l] = 0
  /\ \A l \in hooks : at[l] # 0
  /\ \A x \in rows : RowSound(x)
  /\ Keyed(rows)
  /\ eraser # Idle => eraser \in rows /\ eraser.wanted
  /\ \A r \in Readers : RunSound(run[r])

\* The moment of a line that was said does not change.
LEMMA SaidOnce ==
  ASSUME Sound, [Next]_vars
  PROVE  \A l \in Lines : at[l] # 0 => at'[l] = at[l]
<1> at \in [Lines -> Moment]
  BY DEF Sound, TypeOK
<1>1. CASE at' = at
  BY <1>1
<1>2. ASSUME NEW l \in Lines, at[l] = 0, at' = [at EXCEPT ![l] = clock]
      PROVE  \A k \in Lines : at[k] # 0 => at'[k] = at[k]
  BY <1>2
<1>3. ASSUME NEW l \in Lines, Says(l)
      PROVE  at[l] = 0 /\ at' = [at EXCEPT ![l] = clock]
  BY <1>3 DEF Says
<1>4. ASSUME NEW l \in Lines, Delivers(l)
      PROVE  at[l] = 0 /\ at' = [at EXCEPT ![l] = clock]
  BY <1>4 DEF Delivers, Sound
<1>5. \/ at' = at
      \/ \E l \in Lines : Says(l) \/ Delivers(l)
  BY DEF Next, vars, Ticks, Moves, Tombstones, EraserDies, LosesHook, Records,
         SenderDies, StartPoll, StartHook, Opens, Commits, Aborts, AsksUnsend,
         GivesUp, Revokes, RevokesNextDoor, RevokeFails, Erases
<1>6. QED
  BY <1>1, <1>2, <1>3, <1>4, <1>5

\* A sound transaction is not disturbed while others move.
LEMMA RunStays ==
  ASSUME \A l \in Lines : at[l] # 0 => at'[l] = at[l], NEW t \in Run, RunSound(t)
  PROVE  RunSound(t)'
<1>1. \A c \in t.page : c.line \in Lines /\ at[c.line] # 0 /\ Bodied(c)
  BY DEF RunSound, PageSound, Run, Copy
<1>2. \A c \in t.page : at'[c.line] = at[c.line]
  BY <1>1
<1>3. PageSound(t.page)'
  BY <1>1, <1>2 DEF RunSound, PageSound, Bodied
<1>4. \A y \in t.new : y.line \in Lines /\ at'[y.line] = at[y.line]
  BY <1>2 DEF RunSound, Draft, FromPage, Run, Row
<1>5. \A f \in t.fills : /\ at'[f.new.line] = at[f.new.line]
                        /\ at'[f.old.line] = at[f.old.line]
  <2> SUFFICES ASSUME NEW f \in t.fills
               PROVE  /\ at'[f.new.line] = at[f.new.line]
                      /\ at'[f.old.line] = at[f.old.line]
    OBVIOUS
  <2>1. FillsBlank(f, t.page)
    BY DEF RunSound, Draft
  <2>2. at'[f.new.line] = at[f.new.line] /\ at[f.new.line] # 0
    BY <1>1, <1>2, <2>1 DEF FillsBlank, FromPage
  <2>3. f.old.line \in Lines /\ at[f.old.line] # 0
    BY <2>1, <2>2 DEF FillsBlank, Run, Row
  <2>4. QED
    BY <2>2, <2>3
<1>6. Draft(t, t.page)'
  <2>1. \A f \in t.fills : FillsBlank(f, t.page)'
    BY <1>5 DEF RunSound, Draft, FillsBlank, FromPage
  <2>2. QED
    BY <2>1 DEF RunSound, Draft, FromPage
<1>7. MarksFit(t)'
  BY <1>4 DEF RunSound, MarksFit
<1>8. QED
  BY <1>3, <1>6, <1>7 DEF RunSound, Keyed, Results, Same, NoRun, Unmarked

\* What is true of the transactions stays true when none of them moves.
LEMMA RunsStay ==
  ASSUME Sound, [Next]_vars, NEW r \in Readers, run'[r] = run[r]
  PROVE  RunSound(run[r])'
<1>1. PICK t \in Run : t = run[r]
  BY DEF Sound, TypeOK
<1>2. RunSound(t)
  BY <1>1 DEF Sound
<1>3. RunSound(t)'
  BY <1>2, SaidOnce, RunStays
<1>4. t = run'[r]
  BY <1>1
<1>5. QED
  BY <1>3, <1>4 DEF RunSound, PageSound, Draft, FillsBlank, FromPage, Keyed, Same,
     Results, MarksFit, Bodied, NoRun, Unmarked

\* Initially nothing was said.
LEMMA SoundInit == Init => Sound
<1> SUFFICES ASSUME Init PROVE Sound
  OBVIOUS
<1> USE DEF Init
<1>0. MaxClock \in Nat \ {0} /\ MaxMishaps \in Nat /\ MaxUnsends \in Nat
  BY TranscriptAssumption
<1>1. Unmarked \in Marks
  BY <1>0 DEF Unmarked, Marks, Moment
<1>2. NoRun \in Run
  BY <1>1 DEF NoRun, Run
<1>3. clock \in 1..MaxClock /\ 0 \in Moment
  BY <1>0 DEF Moment
<1>4. spent \in [erased : 0..MaxMishaps, unsends : 0..MaxUnsends,
                 astray : 0..MaxMishaps, deaths : 0..MaxMishaps]
  BY <1>0
<1>5. TypeOK
  BY <1>1, <1>2, <1>3, <1>4 DEF TypeOK
<1>6. RunSound(NoRun)
  BY DEF RunSound, NoRun, Unmarked, PageSound, Draft, Keyed, Results, MarksFit
<1>7. \A r \in Readers : RunSound(run[r])
  BY <1>6
<1>8. \A l \in Lines : at[l] <= clock
  OBVIOUS
<1>9. Owns \subseteq Lines
  BY DEF Lines, OurLines
<1>10. Keyed(rows)
  BY DEF Keyed
<1>11. QED
  BY <1>5, <1>7, <1>8, <1>9, <1>10 DEF Sound

\* The bounds of the model are counters.
LEMMA SpendTyped ==
  ASSUME TypeOK
  PROVE  /\ \A what \in {"erased", "astray", "deaths"} :
              Mishap(what) => /\ spent' \in [erased : 0..MaxMishaps,
                                 unsends : 0..MaxUnsends, astray : 0..MaxMishaps,
                                 deaths : 0..MaxMishaps]
                              /\ spent' = [spent EXCEPT ![what] = @ + 1]
         /\ spent.unsends < MaxUnsends =>
              Spend("unsends") \in [erased : 0..MaxMishaps,
                                 unsends : 0..MaxUnsends, astray : 0..MaxMishaps,
                                 deaths : 0..MaxMishaps]
<1>1. MaxMishaps \in Nat /\ MaxUnsends \in Nat
  BY TranscriptAssumption
<1>2. spent \in [erased : 0..MaxMishaps, unsends : 0..MaxUnsends,
                 astray : 0..MaxMishaps, deaths : 0..MaxMishaps]
  BY DEF TypeOK
<1>3. QED
  BY <1>1, <1>2 DEF Mishap, Spend

\* What a poll returns is a page of lines that were said.
LEMMA PolledSound ==
  ASSUME TypeOK, NEW textOnly
  PROVE  Page(textOnly) \in SUBSET Copy /\ PageSound(Page(textOnly))
<1>1. \A l \in Lines : /\ Polled(l, textOnly) \in Copy
                       /\ Polled(l, textOnly).line = l
                       /\ Bodied(Polled(l, textOnly))
  BY DEF Polled, PolledId, Copy, Id, Body, Bodied
<1>2. ASSUME NEW c \in Page(textOnly)
      PROVE  \E l \in Lines : at[l] # 0 /\ c = Polled(l, textOnly)
  BY DEF Page
<1> HIDE DEF Polled
<1>3. QED
  BY <1>1, <1>2 DEF PageSound

\* A webhook's line is a page of its own.
LEMMA HookedSound ==
  ASSUME TypeOK, NEW l \in LeadLines, at[l] # 0
  PROVE  {Hooked(l)} \in SUBSET Copy /\ PageSound({Hooked(l)})
<1>1. /\ Hooked(l) \in Copy /\ Hooked(l).line = l /\ Bodied(Hooked(l))
  BY DEF Hooked, Copy, Id, Body, Bodied, Lines
<1>2. QED
  BY <1>1 DEF PageSound

\* A reader that has fetched a page has nothing to write yet.
LEMMA BusySound ==
  ASSUME NEW p \in SUBSET Copy, PageSound(p)
  PROVE  LET t == Busy(p, "fetched") IN
         /\ t \in Run /\ RunSound(t) /\ t.phase = "fetched" /\ t.page = p
         /\ t.new = {} /\ t.fills = {}
<1> DEFINE t == Busy(p, "fetched")
<1>1. Unmarked \in Marks
  BY TranscriptAssumption DEF Unmarked, Marks, Moment
<1>2. /\ t \in Run /\ t.phase = "fetched" /\ t.page = p
      /\ t.new = {} /\ t.fills = {} /\ t.marks = t.seen /\ t.seen = Unmarked
  BY <1>1 DEF Busy, NoRun, Run
<1> HIDE DEF t
<1>3. RunSound(t)
  BY <1>2 DEF RunSound, Draft, Keyed, Results, MarksFit, Unmarked
<1>4. QED
  BY <1>2, <1>3 DEF t

\* A transaction that is opened is sound.
LEMMA OpensSound ==
  ASSUME Sound, NEW r \in Readers, Opens(r)
  PROVE  /\ run[r] \in Run /\ run' = [run EXCEPT ![r] = run'[r]]
         /\ run'[r] \in Run /\ InHand(run'[r], run[r].page) /\ MarksFit(run'[r])
         /\ Clear(rows) /\ Clear(run[r].page)
              => \A c \in run[r].page : \E x \in View(run'[r]) : Tells(x, c)
<1>1. run[r] \in Run /\ run \in [Readers -> Run]
  BY DEF Sound, TypeOK
<1>2. run[r].new = {} /\ run[r].fills = {} /\ PageSound(run[r].page)
  BY DEF Sound, RunSound, Opens
<1>3. PICK o \in OldestFirst(run[r].page) :
        run' = [run EXCEPT ![r] =
                  Stored(Begun(run[r]), o, Cardinality(run[r].page))]
  BY DEF Opens
<1>4. run'[r] = Stored(Begun(run[r]), o, Cardinality(run[r].page))
  BY <1>1, <1>3
<1>5. PICK b \in Run : b = run[r]
  BY <1>1
<1>6. /\ Stored(Begun(b), o, Cardinality(b.page)) \in Run
      /\ InHand(Stored(Begun(b), o, Cardinality(b.page)), b.page)
      /\ MarksFit(Stored(Begun(b), o, Cardinality(b.page)))
      /\ Clear(rows) /\ Clear(b.page)
           => \A c \in b.page :
                \E x \in View(Stored(Begun(b), o, Cardinality(b.page))) : Tells(x, c)
  <2>1. o \in OldestFirst(b.page) /\ b.new = {} /\ b.fills = {} /\ PageSound(b.page)
    BY <1>2, <1>5
  <2>2. TypeOK /\ (\A x \in rows : RowSound(x)) /\ Keyed(rows)
    BY DEF Sound
  <2>3. QED
    BY <2>1, <2>2, OpenedSound
<1>7. PICK u : u = run'[r]
  OBVIOUS
<1>8. u = Stored(Begun(b), o, Cardinality(b.page))
  BY <1>4, <1>5, <1>7
<1>9. /\ u \in Run /\ InHand(u, b.page) /\ MarksFit(u)
      /\ Clear(rows) /\ Clear(b.page)
           => \A c \in b.page : \E x \in View(u) : Tells(x, c)
  BY <1>6, <1>8
<1>10. run' = [run EXCEPT ![r] = u]
  BY <1>3, <1>4, <1>7
<1>11. QED
  BY <1>1, <1>5, <1>7, <1>9, <1>10

\* No transaction at all is a sound one.
LEMMA NoRunSound == NoRun \in Run /\ RunSound(NoRun)
<1>1. Unmarked \in Marks
  BY TranscriptAssumption DEF Unmarked, Marks, Moment
<1>2. NoRun \in Run
  BY <1>1 DEF NoRun, Run
<1>3. RunSound(NoRun)
  BY DEF RunSound, NoRun, Unmarked, PageSound, Draft, Keyed, Results, MarksFit
<1>4. QED
  BY <1>2, <1>3

\* One step keeps the types.
LEMMA TypeStep ==
  ASSUME Sound, [Next]_vars
  PROVE  TypeOK'
<1> USE DEF Sound
<1>0. /\ MaxClock \in Nat \ {0} /\ Owns \subseteq Lines /\ OurLines \subseteq Lines
      /\ clock \in Moment /\ 0 \in Moment
  BY TranscriptAssumption DEF Lines, OurLines, Moment, TypeOK
<1>1. CASE UNCHANGED vars
  BY <1>1 DEF TypeOK, vars
<1>2. CASE Ticks
  <2>1. clock' \in 1..MaxClock
    BY <1>0, <1>2 DEF Ticks, TypeOK
  <2>2. QED
    BY <1>2, <2>1 DEF Ticks, TypeOK
<1>3. CASE Moves
  BY <1>3 DEF Moves, TypeOK
<1>4. CASE Tombstones
  <2>1. eraser \in Row
    BY <1>4 DEF Tombstones, TypeOK
  <2>2. [eraser EXCEPT !.wanted = FALSE, !.revoked = TRUE] \in Row
    BY <2>1 DEF Row
  <2>3. rows' \subseteq Row
    BY <1>4, <2>2 DEF Tombstones, TypeOK
  <2>4. /\ Newest({x \in rows' : ~IsIn(x) /\ ~x.revoked}) \in Moment
        /\ Newest({x \in rows' : IsIn(x) /\ ~x.revoked}) \in Moment
    BY <2>3, NewestOf
  <2>5. Rewound(marks, rows') \in Marks
    BY <2>4 DEF Rewound, Marks, TypeOK
  <2>6. marks' \in Marks /\ eraser' = Idle
    BY <1>4, <2>5 DEF Tombstones
  <2>7. QED
    BY <1>4, <2>3, <2>6 DEF Tombstones, TypeOK
<1>5. CASE EraserDies
  BY <1>5, SpendTyped DEF EraserDies, TypeOK
<1>6. ASSUME NEW l \in Lines, Says(l) PROVE TypeOK'
  <2>1. at' \in [Lines -> Moment] /\ hooks' \subseteq LeadLines
    BY <1>0, <1>6 DEF Says, TypeOK
  <2>2. QED
    BY <1>6, <2>1 DEF Says, TypeOK
<1>7. ASSUME NEW l \in Lines, LosesHook(l) PROVE TypeOK'
  BY <1>7 DEF LosesHook, TypeOK
<1>8. ASSUME NEW l \in Lines, Delivers(l) PROVE TypeOK'
  <2>1. /\ at' \in [Lines -> Moment]
        /\ sender' \in [Owns -> {"queued", "delivered", "recorded", "lost"}]
    BY <1>0, <1>8 DEF Delivers, TypeOK
  <2>2. QED
    BY <1>8, <2>1 DEF Delivers, TypeOK
<1>9. ASSUME NEW l \in Lines, Records(l) PROVE TypeOK'
  <2>1. SentRow(l) \in Row
    BY DEF SentRow, Row, Id, Body
  <2>2. sender' \in [Owns -> {"queued", "delivered", "recorded", "lost"}]
    BY <1>9 DEF Records, TypeOK
  <2>3. at[l] \in Moment
    BY DEF TypeOK
  <2>4. rows' \subseteq Row /\ marks' \in Marks
    BY <1>9, <2>1, <2>3 DEF Records, TypeOK, Marks
  <2>5. QED
    BY <1>9, <2>2, <2>4 DEF Records, TypeOK
<1>10. ASSUME NEW l \in Lines, SenderDies(l) PROVE TypeOK'
  <2>1. sender' \in [Owns -> {"queued", "delivered", "recorded", "lost"}]
    BY <1>10 DEF SenderDies, TypeOK
  <2>2. QED
    BY <1>10, <2>1, SpendTyped DEF SenderDies, TypeOK
<1>11. ASSUME NEW r \in Polls, StartPoll(r) PROVE TypeOK'
  <2>1. PICK textOnly : run' = [run EXCEPT ![r] = Busy(Page(textOnly), "fetched")]
    BY <1>11 DEF StartPoll
  <2>2. Busy(Page(textOnly), "fetched") \in Run
    BY PolledSound, BusySound
  <2>3. run' \in [Readers -> Run]
    BY <2>1, <2>2 DEF TypeOK
  <2>4. QED
    BY <1>11, <2>3 DEF StartPoll, TypeOK
<1>12. ASSUME NEW r \in HookJobs, NEW l \in Lines, StartHook(r, l) PROVE TypeOK'
  <2>1. l \in LeadLines /\ at[l] # 0
    BY <1>12 DEF StartHook, TypeOK
  <2>2. Busy({Hooked(l)}, "fetched") \in Run
    BY <2>1, HookedSound, BusySound
  <2>3. run' \in [Readers -> Run] /\ hooks' \subseteq LeadLines
    BY <1>12, <2>2 DEF StartHook, TypeOK
  <2>4. QED
    BY <1>12, <2>3 DEF StartHook, TypeOK
<1>13. ASSUME NEW r \in Readers, Opens(r) PROVE TypeOK'
  <2>1. run' \in [Readers -> Run]
    BY <1>13, OpensSound DEF TypeOK
  <2>2. QED
    BY <1>13, <2>1 DEF Opens, TypeOK
<1>14. ASSUME NEW r \in Readers, Commits(r) PROVE TypeOK'
  <2>1. run[r] \in Run
    BY DEF TypeOK
  <2>2. rows' \subseteq Row
    BY <1>14, <2>1, ViewTyped DEF Commits
  <2>3. Written(run[r].seen, run[r].marks) \in Marks
    BY <2>1 DEF Written, Marks, Run, TypeOK
  <2>4. run' \in [Readers -> Run]
    BY <1>14, NoRunSound DEF Commits, TypeOK
  <2>5. QED
    BY <1>14, <2>2, <2>3, <2>4 DEF Commits, TypeOK
<1>15. ASSUME NEW r \in Readers, Aborts(r) PROVE TypeOK'
  <2>1. run' \in [Readers -> Run]
    BY <1>15, NoRunSound DEF Aborts, TypeOK
  <2>2. QED
    BY <1>15, <2>1 DEF Aborts, TypeOK
<1>16. ASSUME NEW x \in rows, AsksUnsend(x) PROVE TypeOK'
  <2>1. [x EXCEPT !.wanted = TRUE] \in Row
    BY DEF TypeOK, Row
  <2>2. rows' \subseteq Row
    BY <1>16, <2>1 DEF AsksUnsend, TypeOK
  <2>3. QED
    BY <1>16, <2>2, SpendTyped DEF AsksUnsend, TypeOK
<1>17. ASSUME NEW x \in rows, GivesUp(x) PROVE TypeOK'
  <2>1. [x EXCEPT !.wanted = FALSE] \in Row
    BY DEF TypeOK, Row
  <2>2. rows' \subseteq Row
    BY <1>17, <2>1 DEF GivesUp, TypeOK
  <2>3. QED
    BY <1>17, <2>2 DEF GivesUp, TypeOK
<1>18. ASSUME NEW x \in rows, Revokes(x) \/ RevokesNextDoor(x) \/ RevokeFails(x)
       PROVE  TypeOK'
  <2>1. x.wanted /\ x.line \in OurLines /\ x \in Row
    BY <1>18 DEF Revokes, RevokesNextDoor, RevokeFails, RowSound, TypeOK
  <2>2. gone' \subseteq OurLines /\ eraser' \in Row \cup {Idle}
    BY <1>18, <2>1 DEF Revokes, RevokesNextDoor, RevokeFails, TypeOK
  <2>3. QED
    BY <1>18, <2>2, SpendTyped DEF Revokes, RevokesNextDoor, RevokeFails, TypeOK
<1>19. ASSUME NEW x \in rows, Erases(x) PROVE TypeOK'
  <2>1. rows' \subseteq Row
    BY <1>19 DEF Erases, TypeOK
  <2>2. Newest({y \in rows' : IsIn(y)}) \in Moment
    BY <2>1, NewestOf
  <2>3. marks' \in Marks
    BY <1>19, <2>2 DEF Erases, TypeOK, Marks
  <2>4. QED
    BY <1>19, <2>1, <2>3, SpendTyped DEF Erases, TypeOK
<1>20. QED
  BY <1>1, <1>2, <1>3, <1>4, <1>5, <1>6, <1>7, <1>8, <1>9, <1>10, <1>11, <1>12,
     <1>13, <1>14, <1>15, <1>16, <1>17, <1>18, <1>19 DEF Next

\* A row of ours whose retraction is asked for, given up or carried out.
Restated(x, y) ==
  /\ x.line \in OurLines /\ x \in Row /\ y \in Row
  /\ y.line = x.line /\ y.id = x.id /\ y.body = x.body
  /\ ~(y.revoked /\ y.wanted)

\* The steps that change no row.
LEMMA RowsKept ==
  ASSUME \/ Ticks \/ Moves \/ EraserDies
         \/ \E l \in Lines : Says(l) \/ LosesHook(l) \/ Delivers(l) \/ SenderDies(l)
         \/ \E r \in Polls : StartPoll(r)
         \/ \E r \in Readers : Opens(r) \/ Aborts(r)
         \/ \E r \in HookJobs, l \in Lines : StartHook(r, l)
         \/ \E x \in rows : Revokes(x) \/ RevokesNextDoor(x) \/ RevokeFails(x)
  PROVE  rows' = rows
BY DEF Ticks, Moves, EraserDies, Says, LosesHook, Delivers, SenderDies, StartPoll,
       Opens, Aborts, StartHook, Revokes, RevokesNextDoor, RevokeFails

\* The ways in which one step changes the table.
LEMMA RowsChange ==
  ASSUME Sound, [Next]_vars
  PROVE  \/ rows' = rows
         \/ \E x \in rows : \E y : Restated(x, y) /\ rows' = (rows \ {x}) \cup {y}
         \/ \E x \in rows : Erases(x)
         \/ \E l \in Lines : /\ Records(l) /\ ~Clashes(rows, {SentRow(l)})
                            /\ rows' = rows \cup {SentRow(l)}
         \/ \E r \in Readers : Commits(r)
<1>1. CASE UNCHANGED vars
  BY <1>1 DEF vars
<1>2. CASE Tombstones
  <2>1. eraser \in rows /\ eraser.wanted
    BY <1>2 DEF Tombstones, Sound
  <2>2. eraser.line \in OurLines /\ eraser \in Row
    BY <2>1 DEF Sound, TypeOK, RowSound
  <2> DEFINE y == [eraser EXCEPT !.wanted = FALSE, !.revoked = TRUE]
  <2>3. Restated(eraser, y)
    BY <2>2 DEF Restated, Row
  <2>4. rows' = (rows \ {eraser}) \cup {y}
    BY <1>2 DEF Tombstones
  <2>5. QED
    BY <2>1, <2>3, <2>4
<1>3. ASSUME NEW x \in rows, AsksUnsend(x)
      PROVE  \E y : Restated(x, y) /\ rows' = (rows \ {x}) \cup {y}
  <2>1. x.line \in OurLines /\ x \in Row /\ ~x.revoked
    BY <1>3 DEF AsksUnsend, IsIn, Live, Sound, TypeOK, Row, Lines
  <2> DEFINE y == [x EXCEPT !.wanted = TRUE]
  <2>2. Restated(x, y)
    BY <2>1 DEF Restated, Row
  <2>3. rows' = (rows \ {x}) \cup {y}
    BY <1>3 DEF AsksUnsend
  <2>4. QED
    BY <2>2, <2>3
<1>4. ASSUME NEW x \in rows, GivesUp(x)
      PROVE  \E y : Restated(x, y) /\ rows' = (rows \ {x}) \cup {y}
  <2>1. x.line \in OurLines /\ x \in Row
    BY <1>4 DEF GivesUp, Sound, TypeOK, RowSound
  <2> DEFINE y == [x EXCEPT !.wanted = FALSE]
  <2>2. Restated(x, y)
    BY <2>1 DEF Restated, Row
  <2>3. rows' = (rows \ {x}) \cup {y}
    BY <1>4 DEF GivesUp
  <2>4. QED
    BY <2>2, <2>3
<1>5. ASSUME NEW l \in Lines, Records(l)
      PROVE  \/ rows' = rows
             \/ ~Clashes(rows, {SentRow(l)}) /\ rows' = rows \cup {SentRow(l)}
  BY <1>5 DEF Records
<1>6. QED
  BY <1>1, <1>2, <1>3, <1>4, <1>5, RowsKept DEF Next

\* A commit leaves the table as the transaction has seen it, with one row to
\* an id.
LEMMA CommitsSound ==
  ASSUME Sound, NEW r \in Readers, Commits(r)
  PROVE  /\ rows' = View(run[r]) /\ Keyed(rows')
         /\ \A x \in rows' : RowSound(x)
<1>1. PICK t \in Run : t = run[r]
  BY DEF Sound, TypeOK
<1>2. /\ rows' = View(t)
      /\ ~Clashes({x \in rows : Filled(x, t.fills) = x},
                  t.new \cup {f.new : f \in t.fills})
  BY <1>1 DEF Commits
<1>3. RunSound(t)
  BY <1>1 DEF Sound
<1>4. \A x \in View(t) : \/ x \in rows /\ Filled(x, t.fills) = x
                         \/ x \in Results(t)
  BY <1>3, ViewIs DEF RunSound, Draft, Results, Filled
<1>5. Keyed(View(t))
  <2>1. \A x \in rows, y \in Results(t) : Filled(x, t.fills) = x
           => ~Same(x, y) /\ ~Same(y, x)
    BY <1>2 DEF Clashes, Same, Results
  <2>2. Keyed(rows) /\ Keyed(Results(t))
    BY <1>3 DEF Sound, RunSound
  <2>3. QED
    BY <1>4, <2>1, <2>2 DEF Keyed
<1>6. \A x \in Results(t) : RowSound(x)
  <2>1. \A x \in Results(t) : FromPage(x, t.page)
    BY <1>3 DEF RunSound, Draft, FillsBlank, Results
  <2>2. QED
    BY <1>3, <2>1 DEF RunSound, PageSound, FromPage, RowSound, Bodied
<1>7. \A x \in View(t) : RowSound(x)
  BY <1>4, <1>6 DEF Sound
<1>8. QED
  BY <1>1, <1>2, <1>5, <1>7

\* One step keeps the rows sound.
LEMMA RowsStep ==
  ASSUME Sound, [Next]_vars
  PROVE  (\A x \in rows : RowSound(x))' /\ Keyed(rows)'
<1>1. ASSUME NEW x \in Row, RowSound(x) PROVE RowSound(x)'
  <2>1. x.line \in Lines /\ at[x.line] # 0
    BY <1>1 DEF RowSound, Row
  <2>2. at'[x.line] = at[x.line]
    BY <2>1, SaidOnce
  <2>3. QED
    BY <1>1, <2>2 DEF RowSound, Bodied
<1>2. \A x \in rows : x \in Row /\ RowSound(x)
  BY DEF Sound, TypeOK
<1>3. SUFFICES (\A x \in rows' : x \in Row /\ RowSound(x)) /\ Keyed(rows')
  <2>1. \A x \in Row : RowSound(x) => RowSound(x)'
    BY <1>1
  <2>2. Keyed(rows') => Keyed(rows)'
    BY DEF Keyed, Same
  <2>3. QED
    BY <1>3, <2>1, <2>2
<1>4. CASE rows' = rows
  BY <1>2, <1>4 DEF Sound
<1>5. ASSUME NEW x \in rows, NEW y, Restated(x, y), rows' = (rows \ {x}) \cup {y}
      PROVE  (\A z \in rows' : z \in Row /\ RowSound(z)) /\ Keyed(rows')
  <2>1. RowSound(y) /\ y \in Row
    BY <1>2, <1>5 DEF Restated, RowSound, Bodied
  <2>2. \A z \in rows : (Same(z, y) <=> Same(z, x)) /\ (Same(y, z) <=> Same(x, z))
    BY <1>5 DEF Restated, Same
  <2>3. Keyed(rows) /\ Same(x, x)
    BY DEF Sound, Same
  <2>4. Keyed(rows')
    BY <1>5, <2>2, <2>3 DEF Keyed
  <2>5. QED
    BY <1>2, <1>5, <2>1, <2>4
<1>6. ASSUME NEW x \in rows, Erases(x)
      PROVE  (\A z \in rows' : z \in Row /\ RowSound(z)) /\ Keyed(rows')
  BY <1>2, <1>6 DEF Erases, Keyed, Sound
<1>7. ASSUME NEW l \in Lines, Records(l), ~Clashes(rows, {SentRow(l)}),
             rows' = rows \cup {SentRow(l)}
      PROVE  (\A z \in rows' : z \in Row /\ RowSound(z)) /\ Keyed(rows')
  <2>1. l \in Owns /\ sender[l] # "queued"
    BY <1>7 DEF Records
  <2>2. at[l] # 0 /\ l \in OurLines /\ l \notin Photos
    BY <2>1, TranscriptAssumption DEF Sound, OurLines, LeadLines
  <2> DEFINE y == SentRow(l)
  <2>3. y \in Row /\ RowSound(y)
    BY <2>2 DEF SentRow, Row, Id, Body, RowSound, Bodied
  <2>4. \A z \in rows : ~Same(z, y) /\ ~Same(y, z)
    BY <1>7 DEF Clashes, Same
  <2> HIDE DEF y
  <2>5. Keyed(rows')
    BY <1>7, <2>4 DEF Keyed, Sound, y
  <2>6. QED
    BY <1>2, <1>7, <2>3, <2>5 DEF y
<1>8. ASSUME NEW r \in Readers, Commits(r)
      PROVE  (\A z \in rows' : z \in Row /\ RowSound(z)) /\ Keyed(rows')
  <2>1. rows' \subseteq Row
    BY TypeStep DEF TypeOK
  <2>2. QED
    BY <1>8, <2>1, CommitsSound
<1>9. QED
  BY <1>4, <1>5, <1>6, <1>7, <1>8, RowsChange

\* What one step makes of a transaction.
LEMMA RunChange ==
  ASSUME Sound, [Next]_vars, NEW r \in Readers
  PROVE  \/ run'[r] = run[r]
         \/ run'[r] = NoRun /\ (Commits(r) \/ Aborts(r))
         \/ /\ \/ r \in Polls /\ StartPoll(r)
               \/ r \in HookJobs /\ \E l \in Lines : StartHook(r, l)
            /\ \E p \in SUBSET Copy :
                 PageSound(p) /\ run'[r] = Busy(p, "fetched")
         \/ Opens(r)
<1>1. run \in [Readers -> Run]
  BY DEF Sound, TypeOK
<1>2. ASSUME NEW s \in Readers, Commits(s) \/ Aborts(s)
      PROVE  run'[r] = run[r] \/ (r = s /\ run'[r] = NoRun)
  BY <1>1, <1>2 DEF Commits, Aborts
<1>3. ASSUME NEW s \in Readers, Opens(s)
      PROVE  run'[r] = run[r] \/ r = s
  BY <1>1, <1>3 DEF Opens
<1>4. ASSUME NEW s \in Polls, StartPoll(s)
      PROVE  \/ run'[r] = run[r]
             \/ /\ r = s
                /\ \E p \in SUBSET Copy : PageSound(p) /\ run'[r] = Busy(p, "fetched")
  <2>1. PICK textOnly : run' = [run EXCEPT ![s] = Busy(Page(textOnly), "fetched")]
    BY <1>4 DEF StartPoll
  <2>2. Page(textOnly) \in SUBSET Copy /\ PageSound(Page(textOnly))
    BY PolledSound DEF Sound
  <2>3. QED
    BY <1>1, <2>1, <2>2
<1>5. ASSUME NEW s \in HookJobs, NEW l \in Lines, StartHook(s, l)
      PROVE  \/ run'[r] = run[r]
             \/ /\ r = s
                /\ \E p \in SUBSET Copy : PageSound(p) /\ run'[r] = Busy(p, "fetched")
  <2>1. run' = [run EXCEPT ![s] = Busy({Hooked(l)}, "fetched")]
    BY <1>5 DEF StartHook
  <2>2. l \in LeadLines /\ at[l] # 0
    BY <1>5 DEF StartHook, Sound, TypeOK
  <2>3. {Hooked(l)} \in SUBSET Copy /\ PageSound({Hooked(l)})
    BY <2>2, HookedSound DEF Sound
  <2>4. QED
    BY <1>1, <2>1, <2>3
<1>6. CASE run' = run
  BY <1>6
<1>7. \/ run' = run
      \/ \E s \in Readers : Commits(s) \/ Aborts(s) \/ Opens(s)
      \/ \E s \in Polls : StartPoll(s)
      \/ \E s \in HookJobs, l \in Lines : StartHook(s, l)
  BY DEF Next, vars, Ticks, Moves, Tombstones, EraserDies, Says, LosesHook, Delivers,
         Records, SenderDies, AsksUnsend, GivesUp, Revokes, RevokesNextDoor,
         RevokeFails, Erases
<1>8. QED
  BY <1>2, <1>3, <1>4, <1>5, <1>6, <1>7

\* One step keeps every transaction sound.
LEMMA RunsStep ==
  ASSUME Sound, [Next]_vars, NEW r \in Readers
  PROVE  RunSound(run[r])'
<1>1. SUFFICES ASSUME NEW u \in Run, u = run'[r], RunSound(u)
               PROVE  RunSound(u)'
  <2>1. PICK u : u = run'[r]
    OBVIOUS
  <2>2. u \in Run
    BY <2>1, TypeStep DEF TypeOK
  <2>3. RunSound(u)' => RunSound(run[r])'
    BY <2>1 DEF RunSound, PageSound, Draft, FillsBlank, FromPage, Keyed, Same,
       Results, MarksFit, Bodied, NoRun, Unmarked
  <2>4. RunSound(u) \/ run'[r] = run[r]
    <3>1. CASE u = NoRun
      BY <3>1, NoRunSound
    <3>2. ASSUME NEW p \in SUBSET Copy, PageSound(p), u = Busy(p, "fetched")
          PROVE  RunSound(u)
      BY <3>2, BusySound
    <3>3. CASE Opens(r)
      <4>1. PICK p : p = run[r].page
        OBVIOUS
      <4>2. InHand(u, p) /\ MarksFit(u)
        BY <2>1, <3>3, <4>1, OpensSound
      <4>3. PageSound(p)
        BY <4>1 DEF Sound, RunSound
      <4>4. Results(u) \subseteq View(u)
        BY <2>2, <4>2, ViewIs DEF InHand, Draft, Results
      <4>5. QED
        BY <4>2, <4>3, <4>4 DEF InHand, RunSound, Keyed
    <3>4. QED
      BY <2>1, <3>1, <3>2, <3>3, RunChange
  <2>5. QED
    BY <1>1, <2>1, <2>2, <2>3, <2>4, RunsStay
<1>2. QED
  BY <1>1, SaidOnce, RunStays

\* One step keeps the state sound.
LEMMA SoundStep ==
  ASSUME Sound, [Next]_vars
  PROVE  Sound'
<1>0. Owns \subseteq Lines /\ MaxClock \in Nat
  BY TranscriptAssumption DEF Lines, OurLines
<1>1. \A l \in Lines : at'[l] <= clock'
  <2>1. clock \in Int /\ clock' \in {clock, clock + 1} /\ at \in [Lines -> Int]
    <3>1. clock' = clock \/ clock' = clock + 1
      BY DEF Next, vars, Ticks, Moves, Tombstones, EraserDies, Says, LosesHook,
         Delivers, Records, SenderDies, StartPoll, StartHook, Opens, Commits, Aborts,
         AsksUnsend, GivesUp, Revokes, RevokesNextDoor, RevokeFails, Erases
    <3>2. QED
      BY <3>1 DEF Sound, TypeOK, Moment
  <2>2. \/ at' = at
        \/ \E l \in Lines : at' = [at EXCEPT ![l] = clock]
    BY DEF Next, vars, Ticks, Moves, Tombstones, EraserDies, Says, LosesHook,
       Delivers, Records, SenderDies, StartPoll, StartHook, Opens, Commits, Aborts,
       AsksUnsend, GivesUp, Revokes, RevokesNextDoor, RevokeFails, Erases
  <2>3. \A l \in Lines : at[l] <= clock
    BY DEF Sound
  <2>4. QED
    BY <2>1, <2>2, <2>3
<1>2. \A l \in Owns : sender'[l] = "queued" <=> at'[l] = 0
  <2>1. /\ clock \in Nat \ {0} /\ at \in [Lines -> Moment]
        /\ sender \in [Owns -> {"queued", "delivered", "recorded", "lost"}]
    BY DEF Sound, TypeOK
  <2>2. \A l \in Owns : sender[l] = "queued" <=> at[l] = 0
    BY DEF Sound
  <2>3. ASSUME NEW l \in Lines, Says(l)
        PROVE  \A k \in Owns : sender'[k] = sender[k] /\ at'[k] = at[k]
    <3>1. l \notin Owns
      BY <2>3, TranscriptAssumption DEF Says, OurLines
    <3>2. QED
      BY <2>1, <2>3, <3>1, <1>0 DEF Says
  <2>4. ASSUME NEW l \in Lines, Delivers(l)
        PROVE  \A k \in Owns : sender'[k] = "queued" <=> at'[k] = 0
    BY <2>1, <2>2, <2>4, <1>0 DEF Delivers
  <2>5. ASSUME NEW l \in Lines, Records(l) \/ SenderDies(l)
        PROVE  \A k \in Owns : sender'[k] = "queued" <=> at'[k] = 0
    BY <2>1, <2>2, <2>5, <1>0 DEF Records, SenderDies
  <2>6. CASE UNCHANGED <<at, sender>>
    BY <2>2, <2>6
  <2>7. \/ UNCHANGED <<at, sender>>
        \/ \E l \in Lines : Says(l) \/ Delivers(l) \/ Records(l) \/ SenderDies(l)
    BY DEF Next, vars, Ticks, Moves, Tombstones, EraserDies, LosesHook,
       StartPoll, StartHook, Opens, Commits, Aborts,
       AsksUnsend, GivesUp, Revokes, RevokesNextDoor, RevokeFails, Erases
  <2>8. QED
    BY <2>2, <2>3, <2>4, <2>5, <2>6, <2>7
<1>3. \A l \in hooks' : at'[l] # 0
  <2>1. \A l \in hooks : l \in Lines /\ at[l] # 0
    BY DEF Sound, TypeOK, Lines
  <2>2. \A l \in hooks : at'[l] # 0
    BY <2>1, SaidOnce
  <2>3. ASSUME NEW k \in Lines, Says(k) PROVE hooks' \subseteq hooks \cup {k} /\ at'[k] # 0
    BY <2>3 DEF Says, Sound, TypeOK
  <2>4. \/ hooks' \subseteq hooks
        \/ \E l \in Lines : Says(l)
    BY DEF Next, vars, Ticks, Moves, Tombstones, EraserDies, LosesHook,
       Delivers, Records, SenderDies, StartPoll, StartHook, Opens, Commits, Aborts,
       AsksUnsend, GivesUp, Revokes, RevokesNextDoor, RevokeFails, Erases
  <2>5. QED
    BY <2>2, <2>3, <2>4
<1>4. eraser' # Idle => eraser' \in rows' /\ eraser'.wanted
  <2>1. CASE \E x \in rows : Revokes(x) \/ RevokesNextDoor(x)
    BY <2>1 DEF Revokes, RevokesNextDoor
  <2>2. CASE eraser' = eraser
    <3> SUFFICES ASSUME eraser # Idle PROVE eraser \in rows'
      BY <2>2 DEF Sound
    <3>1. /\ eraser \in rows /\ eraser.wanted /\ eraser.line \in OurLines
          /\ ~eraser.revoked
      BY DEF Sound, RowSound
    <3>2. ASSUME NEW x \in rows, AsksUnsend(x) PROVE eraser \in rows'
      BY <3>1, <3>2 DEF AsksUnsend
    <3>3. ASSUME NEW x \in rows, Erases(x) PROVE eraser \in rows'
      BY <3>1, <3>3, TranscriptAssumption DEF Erases, IsIn
    <3>4. ASSUME NEW r \in Readers, Commits(r) PROVE eraser \in rows'
      <4>1. PICK t \in Run : t = run[r]
        BY DEF Sound, TypeOK
      <4>2. RunSound(t)
        BY <4>1 DEF Sound
      <4>3. \A f \in t.fills : f.old # eraser
        BY <3>1, <4>2, TranscriptAssumption DEF RunSound, Draft, FillsBlank, LeadLines
      <4>4. eraser \in View(t)
        BY <3>1, <4>2, <4>3, ViewIs DEF RunSound, Draft
      <4>5. QED
        BY <3>4, <4>1, <4>4 DEF Commits
    <3>5. ASSUME NEW x \in rows, GivesUp(x) PROVE FALSE
      BY <3>5 DEF GivesUp
    <3>6. CASE Tombstones
      BY <2>2, <3>6 DEF Tombstones
    <3>7. ASSUME NEW l \in Lines, Records(l) PROVE eraser \in rows'
      BY <3>1, <3>7 DEF Records
    <3>8. CASE UNCHANGED vars
      BY <3>1, <3>8 DEF vars
    <3>9. QED
      BY <3>1, <3>2, <3>3, <3>4, <3>5, <3>6, <3>7, <3>8, RowsKept DEF Next
  <2>3. CASE eraser' = Idle
    BY <2>3
  <2>4. \/ \E x \in rows : Revokes(x) \/ RevokesNextDoor(x)
        \/ eraser' = eraser \/ eraser' = Idle
    BY DEF Next, vars, Ticks, Moves, Tombstones, EraserDies, Says, LosesHook,
       Delivers, Records, SenderDies, StartPoll, StartHook, Opens, Commits, Aborts,
       AsksUnsend, GivesUp, RevokeFails, Erases
  <2>5. QED
    BY <2>1, <2>2, <2>3, <2>4
<1>5. \A r \in Readers : RunSound(run[r])'
  BY RunsStep
<1>6. QED
  BY <1>1, <1>2, <1>3, <1>4, <1>5, TypeStep, RowsStep DEF Sound

\* Every reachable state is sound.
THEOREM TranscriptSound == Spec => []Sound
<1>1. Sound /\ [Next]_vars => Sound'
  BY SoundStep
<1>2. QED
  BY <1>1, SoundInit, PTL DEF Spec

\* Rows are rows of lines that were said, watermarks are moments.
THEOREM TranscriptTypeOK == Spec => []TypeOK
<1>1. Sound => TypeOK
  BY DEF Sound
<1>2. QED
  BY <1>1, TranscriptSound, PTL

\* A line that a retraction has taken from the chat is not filed again by any
\* later batch: its tombstone is recognised (_delete_local).
THEOREM NeverFiledAgain == Spec => NotFiledAgain
<1> DEFINE Filed == \A r \in Readers, l \in Lines :
                      Hidden(l) /\ Opens(r) => \A x \in run[r].new' : x.line # l
<1>1. Sound /\ [Next]_vars => [Filed]_vars
  <2> SUFFICES ASSUME Sound, NEW r \in Readers, NEW l \in Lines, Hidden(l), Opens(r)
               PROVE  \A x \in run[r].new' : x.line # l
    OBVIOUS
  <2>1. PICK y \in rows : y.revoked /\ y.line = l
    BY DEF Hidden
  <2>2. l \notin Photos
    BY <2>1, TranscriptAssumption DEF Sound, RowSound, LeadLines
  <2>3. InHand(run'[r], run[r].page)
    BY OpensSound
  <2>4. QED
    BY <2>1, <2>2, <2>3 DEF InHand
<1>2. QED
  BY <1>1, TranscriptSound, PTL DEF Spec, NotFiledAgain
------------------------------------------------------------------------------
(* A row is marked as revoked when its line is gone, but for the rows whose *)
(* retraction has gone to another thread.                                   *)
Untrue == {x \in rows : x.revoked /\ x.line \notin gone}

\* The deletion job is about to mark a row whose line is still there.
Astray == eraser # Idle /\ eraser.line \notin gone

\* Each of them has its request that went astray.
Accounted == Cardinality(Untrue) + (IF Astray THEN 1 ELSE 0) <= spent.astray

\* The table is finite: it has one row to an id of a line.
LEMMA RowsFinite ==
  ASSUME Sound
  PROVE  IsFiniteSet(rows)
<1> DEFINE f == [x \in rows |-> <<x.line, x.id>>]
<1>1. f \in Injection(rows, Lines \X Id)
  <2>1. f \in [rows -> Lines \X Id]
    BY DEF Sound, TypeOK, Row
  <2>2. \A x, y \in rows : f[x] = f[y] => x = y
    BY DEF Sound, Keyed, Same
  <2>3. QED
    BY <2>1, <2>2 DEF Injection, IsInjective
<1>2. IsFiniteSet(Id)
  <2>1. IsFiniteSet({"first"})
    BY FS_Singleton
  <2>2. IsFiniteSet({"first"} \cup {"second"})
    BY <2>1, FS_AddElement
  <2>3. IsFiniteSet(({"first"} \cup {"second"}) \cup {"send"})
    BY <2>2, FS_AddElement
  <2>4. ({"first"} \cup {"second"}) \cup {"send"} = Id
    BY DEF Id
  <2>5. QED
    BY <2>3, <2>4
<1>3. IsFiniteSet(Lines \X Id)
  BY <1>2, FS_Product, TranscriptAssumption
<1>4. QED
  BY <1>1, <1>3, FS_Injection

\* One step accounts for the rows that it marks.
LEMMA AccountedStep ==
  ASSUME Sound, Accounted, [Next]_vars
  PROVE  Accounted'
<1> DEFINE U == Untrue
           V == Untrue'
           n == spent.astray
<1>0. /\ IsFiniteSet(U) /\ IsFiniteSet(V) /\ Cardinality(U) \in Nat
      /\ Cardinality(V) \in Nat /\ n \in Nat /\ spent'.astray \in Nat
  <2>1. IsFiniteSet(U)
    BY RowsFinite, FS_Subset DEF Untrue
  <2>2. IsFiniteSet(rows)'
    BY SoundStep, RowsFinite, PTL
  <2>3. V \in SUBSET rows'
    BY DEF Untrue
  <2>4. IsFiniteSet(V)
    BY <2>2, <2>3, FS_Subset
  <2>5. n \in Nat /\ spent'.astray \in Nat
    BY TypeStep, TranscriptAssumption DEF Sound, TypeOK
  <2>6. QED
    BY <2>1, <2>4, <2>5, FS_CardinalityType
<1>1. V \subseteq U => Cardinality(V) <= Cardinality(U)
  BY <1>0, FS_Subset
<1>2. CASE Tombstones
  <2> DEFINE y == [eraser EXCEPT !.wanted = FALSE, !.revoked = TRUE]
  <2>1. eraser \in Row /\ y.line = eraser.line
    BY <1>2 DEF Tombstones, Sound, TypeOK, Row
  <2>2. rows' = (rows \ {eraser}) \cup {y} /\ gone' = gone /\ ~Astray' /\ spent' = spent
    BY <1>2 DEF Tombstones, Astray
  <2>3. V \subseteq IF Astray THEN U \cup {y} ELSE U
    BY <1>2, <2>1, <2>2 DEF Untrue, Astray, Tombstones
  <2>4. /\ IsFiniteSet(U \cup {y})
        /\ Cardinality(U \cup {y}) <= Cardinality(U) + 1
        /\ Cardinality(U \cup {y}) \in Nat
    <3> HIDE DEF y, U, V
    <3>1. /\ IsFiniteSet(U \cup {y})
          /\ Cardinality(U \cup {y}) = IF y \in U THEN Cardinality(U)
                                      ELSE Cardinality(U) + 1
      BY <1>0, FS_AddElement
    <3>2. QED
      BY <1>0, <3>1
  <2>5. Cardinality(V) <= IF Astray THEN Cardinality(U) + 1 ELSE Cardinality(U)
    <3> HIDE DEF y, U, V
    <3>1. CASE Astray
      <4>1. Cardinality(V) <= Cardinality(U \cup {y})
        BY <2>3, <2>4, <3>1, FS_Subset
      <4>2. QED
        BY <1>0, <2>4, <3>1, <4>1
    <3>2. CASE ~Astray
      BY <1>1, <2>3, <3>2
    <3>3. QED
      BY <3>1, <3>2
  <2> HIDE DEF y
  <2>6. QED
    BY <1>0, <2>2, <2>5 DEF Accounted
<1>3. SUFFICES ASSUME ~Tombstones PROVE Accounted'
  BY <1>2
<1>4. V \subseteq U
  <2>1. gone \subseteq gone'
    <3>1. \/ gone' = gone
          \/ \E x \in rows : Revokes(x) \/ RevokeFails(x)
      BY DEF Next, vars, Ticks, Moves, Tombstones, EraserDies, Says, LosesHook,
         Delivers, Records, SenderDies, StartPoll, StartHook, Opens, Commits, Aborts,
         AsksUnsend, GivesUp, RevokesNextDoor, Erases
    <3>2. QED
      BY <3>1 DEF Revokes, RevokeFails
  <2>2. ASSUME NEW z \in rows', z.revoked PROVE z \in rows
    <3>1. ASSUME NEW x \in rows, AsksUnsend(x) PROVE z \in rows
      BY <2>2, <3>1 DEF AsksUnsend, Live, Sound, TypeOK, Row
    <3>2. ASSUME NEW x \in rows, GivesUp(x) PROVE z \in rows
      BY <2>2, <3>2 DEF GivesUp, Sound, RowSound, TypeOK, Row
    <3>3. ASSUME NEW x \in rows, Erases(x) PROVE z \in rows
      BY <3>3 DEF Erases
    <3>4. ASSUME NEW l \in Lines, Records(l) PROVE z \in rows
      BY <2>2, <3>4 DEF Records, SentRow
    <3>5. ASSUME NEW r \in Readers, Commits(r) PROVE z \in rows
      <4>1. PICK t \in Run : t = run[r]
        BY DEF Sound, TypeOK
      <4>2. RunSound(t)
        BY <4>1 DEF Sound
      <4>3. z \in View(t)
        BY <3>5, <4>1 DEF Commits
      <4>4. QED
        BY <2>2, <4>2, <4>3, ViewIs DEF RunSound, Draft, FillsBlank, FromPage
    <3>6. CASE rows' = rows
      BY <3>6
    <3>7. QED
      BY <1>3, <3>1, <3>2, <3>3, <3>4, <3>5, <3>6, RowsKept DEF Next, vars
  <2>3. QED
    BY <2>1, <2>2 DEF Untrue
<1>5. CASE spent'.astray = n /\ (Astray' => Astray)
  BY <1>0, <1>1, <1>4, <1>5 DEF Accounted
<1>6. ASSUME NEW x \in rows, RevokesNextDoor(x) PROVE Accounted'
  <2>1. spent'.astray = n + 1
    BY <1>6, SpendTyped DEF RevokesNextDoor, Sound, TypeOK
  <2>2. ~Astray
    BY <1>6 DEF RevokesNextDoor, Astray
  <2>3. QED
    BY <1>0, <1>1, <1>4, <2>1, <2>2 DEF Accounted
<1>7. \/ spent'.astray = n /\ (Astray' => Astray)
      \/ \E x \in rows : RevokesNextDoor(x)
  <2>1. \/ spent' = spent
        \/ \E x \in rows : AsksUnsend(x) \/ RevokesNextDoor(x) \/ Erases(x)
        \/ EraserDies
        \/ \E l \in Lines : SenderDies(l)
    BY DEF Next, vars, Ticks, Moves, Tombstones, Says, LosesHook,
       Delivers, Records, StartPoll, StartHook, Opens, Commits, Aborts,
       GivesUp, Revokes, RevokeFails
  <2>2. spent'.astray = n \/ \E x \in rows : RevokesNextDoor(x)
    BY <2>1 DEF AsksUnsend, EraserDies, SenderDies, Erases, Mishap, Spend, Sound, TypeOK
  <2>3. \/ UNCHANGED <<eraser, gone>>
        \/ \E x \in rows : Revokes(x) \/ RevokesNextDoor(x) \/ RevokeFails(x)
        \/ EraserDies
    BY <1>3 DEF Next, vars, Ticks, Moves, Says, LosesHook, Delivers, Records,
       SenderDies, StartPoll, StartHook, Opens, Commits, Aborts, AsksUnsend,
       GivesUp, Erases
  <2>4. (Astray' => Astray) \/ \E x \in rows : RevokesNextDoor(x)
    <3>1. ASSUME NEW x \in rows, Revokes(x) \/ RevokeFails(x) PROVE ~Astray'
      BY <3>1 DEF Revokes, RevokeFails, Astray
    <3>2. CASE EraserDies
      BY <3>2 DEF EraserDies, Astray
    <3>3. CASE UNCHANGED <<eraser, gone>>
      BY <3>3 DEF Astray
    <3>4. QED
      BY <2>3, <3>1, <3>2, <3>3
  <2>5. QED
    BY <2>2, <2>4
<1>8. QED
  BY <1>5, <1>6, <1>7

\* "The UI never claims a retraction that didn't happen": the rows marked as
\* revoked are gone from the platform, but for one to each request that the
\* job has sent to another thread.
THEOREM RetractionAlwaysTrue == Spec => []RetractionTrue
<1>1. Init => Accounted
  <2> SUFFICES ASSUME Init PROVE Accounted
    OBVIOUS
  <2>1. Untrue = {} /\ ~Astray /\ spent.astray = 0
    BY DEF Init, Untrue, Astray
  <2>2. QED
    BY <2>1, FS_EmptySet DEF Accounted
<1>2. Sound /\ Accounted /\ [Next]_vars => Accounted'
  BY AccountedStep
<1>3. Sound /\ Accounted => RetractionTrue
  <2> SUFFICES ASSUME Sound, Accounted PROVE RetractionTrue
    OBVIOUS
  <2>1. IsFiniteSet(Untrue)
    BY RowsFinite, FS_Subset DEF Untrue
  <2>2. Cardinality(Untrue) \in Nat /\ spent.astray \in Nat
    BY <2>1, FS_CardinalityType, TranscriptAssumption DEF Sound, TypeOK
  <2>3. Cardinality(Untrue) <= spent.astray
    BY <2>2 DEF Accounted
  <2>4. QED
    BY <2>3 DEF RetractionTrue, Untrue
<1>4. QED
  BY <1>1, <1>2, <1>3, TranscriptSound, PTL DEF Spec
------------------------------------------------------------------------------
(* Nothing is called blank where a poll always says what an attachment is.  *)
Plain == Clear(rows) /\ \A r \in Readers : Clear(run[r].page)

\* The page of an open transaction is told by the table and by its own rows,
\* while nobody deletes the lead's lines.
Told ==
  spent.erased = 0 =>
    \A r \in Readers : run[r].phase = "open" =>
      \A c \in run[r].page : \E x \in rows \cup run[r].new : Tells(x, c)

\* The connector of a thread is fixed.
LEMMA LinkFixed == ASSUME [Next]_vars PROVE link' = link
BY DEF Next, vars, Ticks, Moves, Tombstones, EraserDies, Says, LosesHook, Delivers,
       Records, SenderDies, StartPoll, StartHook, Opens, Commits, Aborts, AsksUnsend,
       GivesUp, Revokes, RevokesNextDoor, RevokeFails, Erases

\* What the connectors have in common: a thread that drifts is polled only and
\* reads our lines under other ids, and only a webhook's connector leaves
\* attachments blank.
LEMMA LinkKinds ==
  ASSUME TypeOK
  PROVE  /\ link \in Link /\ link.blanks \in BOOLEAN
         /\ link.drifts => ~link.hooked /\ link.own = "other"
         /\ ~link.hooked => ~link.blanks
<1>1. link \in Links
  BY DEF TypeOK
<1>2. /\ link \in Link
      /\ link \in {Instagram(link.readers, link.lines), Meta(link.readers, link.lines),
                   WhatsApp(link.readers, link.lines)}
  BY <1>1, TranscriptAssumption
<1>3. link.blanks \in BOOLEAN
  BY <1>2 DEF Link
<1>4. CASE link = Instagram(link.readers, link.lines)
  <2>1. ~link.hooked /\ link.own = "other" /\ ~link.blanks
    BY <1>4 DEF Instagram
  <2>2. QED
    BY <1>2, <1>3, <2>1
<1>5. CASE link = Meta(link.readers, link.lines)
  <2>1. link.hooked /\ ~link.drifts
    BY <1>5 DEF Meta
  <2>2. QED
    BY <1>2, <1>3, <2>1
<1>6. CASE link = WhatsApp(link.readers, link.lines)
  <2>1. ~link.drifts /\ ~link.blanks
    BY <1>6 DEF WhatsApp
  <2>2. QED
    BY <1>2, <1>3, <2>1
<1>7. QED
  BY <1>2, <1>4, <1>5, <1>6

\* A row that a sound transaction is to write describes an attachment only if
\* its page does.
LEMMA ClearResults ==
  ASSUME NEW t, RunSound(t), Clear(t.page)
  PROVE  Clear(Results(t))
BY DEF RunSound, Draft, FillsBlank, FromPage, Results, Clear

\* One step keeps the bodies plain.
LEMMA PlainStep ==
  ASSUME Sound, Plain, [Next]_vars
  PROVE  Plain'
<1>1. SUFFICES ASSUME ~link.blanks PROVE Plain'
  BY LinkFixed DEF Plain, Clear
<1>2. \A x \in rows : x.body # "blank"
  BY <1>1 DEF Plain, Clear
<1>3. ASSUME NEW x \in rows' PROVE x.body # "blank"
  <2>1. ASSUME NEW r \in Readers, Commits(r) PROVE x.body # "blank"
    <3>1. PICK t \in Run : t = run[r]
      BY DEF Sound, TypeOK
    <3>2. RunSound(t) /\ Clear(t.page)
      BY <3>1 DEF Sound, Plain
    <3>3. x \in View(t)
      BY <2>1, <3>1 DEF Commits
    <3>4. x \in rows \/ x \in Results(t)
      BY <3>2, <3>3, ViewIs DEF RunSound, Draft, Results
    <3>5. QED
      BY <1>1, <1>2, <3>2, <3>4, ClearResults DEF Clear
  <2>2. ASSUME NEW l \in Lines, rows' = rows \cup {SentRow(l)}
        PROVE  x.body # "blank"
    <3>1. SentRow(l).body # "blank"
      BY DEF SentRow
    <3>2. QED
      BY <1>2, <2>2, <3>1
  <2>3. ASSUME NEW z \in rows, NEW y, Restated(z, y), rows' = (rows \ {z}) \cup {y}
        PROVE  x.body # "blank"
    BY <1>2, <2>3 DEF Restated
  <2>4. ASSUME NEW z \in rows, Erases(z) PROVE x.body # "blank"
    BY <1>2, <2>4 DEF Erases
  <2>5. QED
    BY <1>2, <2>1, <2>2, <2>3, <2>4, RowsChange
<1>4. ASSUME NEW r \in Readers PROVE \A c \in run'[r].page : c.body # "blank"
  <2>1. \A c \in run[r].page : c.body # "blank"
    BY <1>1 DEF Plain, Clear
  <2>2. CASE Opens(r)
    <3>1. run'[r].page = run[r].page
      BY <2>2, OpensSound DEF InHand
    <3>2. QED
      BY <2>1, <3>1
  <2>3. CASE run'[r] = NoRun
    BY <2>3 DEF NoRun
  <2>4. ASSUME NEW p \in SUBSET Copy, run'[r] = Busy(p, "fetched"),
               \/ r \in Polls /\ StartPoll(r)
               \/ r \in HookJobs /\ \E l \in Lines : StartHook(r, l)
        PROVE  \A c \in run'[r].page : c.body # "blank"
    <3>1. run \in [Readers -> Run]
      BY DEF Sound, TypeOK
    <3>2. CASE StartPoll(r)
      <4>1. run'[r] = Busy(Page(FALSE), "fetched")
        <5>1. link.blanks = FALSE
          BY <1>1, LinkKinds DEF Sound
        <5>2. QED
          BY <3>1, <3>2, <5>1 DEF StartPoll
      <4>2. run'[r].page = Page(FALSE)
        BY <4>1 DEF Busy, NoRun
      <4>3. \A c \in Page(FALSE) : c.body # "blank"
        BY DEF Page, Polled
      <4>4. QED
        BY <4>2, <4>3
    <3>3. ASSUME NEW l \in Lines, StartHook(r, l)
          PROVE  \A c \in run'[r].page : c.body # "blank"
      <4>1. run'[r] = Busy({Hooked(l)}, "fetched")
        BY <3>1, <3>3 DEF StartHook
      <4>2. run'[r].page = {Hooked(l)}
        BY <4>1 DEF Busy, NoRun
      <4>3. QED
        BY <4>2 DEF Hooked
    <3>4. QED
      BY <2>4, <3>2, <3>3
  <2>5. QED
    BY <2>1, <2>2, <2>3, <2>4, RunChange
<1>5. QED
  BY <1>3, <1>4 DEF Plain, Clear

\* A deletion of a line of the lead's is counted for good.
LEMMA ErasedStays ==
  ASSUME Sound, [Next]_vars, spent'.erased = 0
  PROVE  spent.erased = 0 /\ ~\E x \in rows : Erases(x)
<1>1. spent \in [erased : 0..MaxMishaps, unsends : 0..MaxUnsends,
                 astray : 0..MaxMishaps, deaths : 0..MaxMishaps]
  BY DEF Sound, TypeOK
<1>2. ASSUME NEW x \in rows, Erases(x) PROVE FALSE
  <2>1. spent' = [spent EXCEPT !.erased = @ + 1]
    BY <1>2, SpendTyped DEF Sound, Erases
  <2>2. QED
    BY <1>1, <2>1
<1>3. \/ spent' = spent
      \/ \E x \in rows : AsksUnsend(x) \/ RevokesNextDoor(x) \/ Erases(x)
      \/ EraserDies
      \/ \E l \in Lines : SenderDies(l)
  BY DEF Next, vars, Ticks, Moves, Tombstones, Says, LosesHook,
     Delivers, Records, StartPoll, StartHook, Opens, Commits, Aborts,
     GivesUp, Revokes, RevokeFails
<1>4. QED
  BY <1>1, <1>2, <1>3 DEF AsksUnsend, RevokesNextDoor, EraserDies, SenderDies, Mishap,
     Spend

\* What was told of a line is told by the row that takes a row's place.
LEMMA TellsOn ==
  ASSUME NEW x, NEW y, NEW c, Tells(y, x), Tells(x, c)
  PROVE  Tells(y, c)
BY DEF Tells, StandsFor, Nearby

\* Every row is told by a row of the next state.
LEMMA RowsStand ==
  ASSUME Sound, Plain, [Next]_vars, spent'.erased = 0, NEW x \in rows
  PROVE  \E y \in rows' : Tells(y, x)
<1>1. Tells(x, x)
  BY DEF Tells
<1>2. ASSUME NEW z \in rows, NEW y, Restated(z, y), rows' = (rows \ {z}) \cup {y}
      PROVE  \E w \in rows' : Tells(w, x)
  <2>1. CASE x = z
    BY <1>2, <2>1 DEF Restated, Tells
  <2>2. CASE x # z
    BY <1>1, <1>2, <2>2
  <2>3. QED
    BY <2>1, <2>2
<1>3. ASSUME NEW r \in Readers, Commits(r)
      PROVE  \E y \in rows' : Tells(y, x)
  <2>1. PICK t \in Run : t = run[r]
    BY DEF Sound, TypeOK
  <2>2. RunSound(t) /\ rows' = View(t)
    BY <1>3, <2>1 DEF Sound, Commits
  <2>3. CASE \A f \in t.fills : f.old # x
    <3>1. x \in View(t)
      BY <2>2, <2>3, ViewIs DEF RunSound, Draft
    <3>2. QED
      BY <1>1, <2>2, <3>1
  <2>4. ASSUME NEW f \in t.fills, f.old = x PROVE \E y \in rows' : Tells(y, x)
    <3>1. f.new \in View(t)
      BY <2>2, <2>4, ViewIs DEF RunSound, Draft
    <3>2. FillsBlank(f, t.page)
      BY <2>2 DEF RunSound, Draft
    <3>3. link.blanks
      BY <2>4, <3>2 DEF FillsBlank, Plain, Clear
    <3>4. f.new.line \in Photos
      BY <2>2, <3>2 DEF RunSound, PageSound, FillsBlank, FromPage, Bodied
    <3>5. Tells(f.new, x)
      BY <2>4, <3>2, <3>3, <3>4 DEF Tells, StandsFor, Nearby, FillsBlank
    <3>6. QED
      BY <2>2, <3>1, <3>5
  <2>5. QED
    BY <2>3, <2>4
<1>4. QED
  BY <1>1, <1>2, <1>3, RowsChange, ErasedStays

\* One step keeps the pages told.
LEMMA ToldStep ==
  ASSUME Sound, Plain, Told, [Next]_vars
  PROVE  Told'
<1>1. SUFFICES ASSUME spent'.erased = 0, NEW r \in Readers, run'[r].phase = "open",
                      NEW c \in run'[r].page
               PROVE  \E x \in rows' \cup run'[r].new : Tells(x, c)'
  BY DEF Told
<1>2. PICK u \in Run : u = run'[r]
  BY TypeStep DEF TypeOK
<1>3. \E x \in rows' \cup u.new : Tells(x, c)
  <2>1. CASE run'[r] = run[r]
    <3>1. PICK x \in rows \cup run[r].new : Tells(x, c)
      BY <1>1, <2>1, ErasedStays DEF Told
    <3>2. CASE x \in rows
      <4>1. PICK y \in rows' : Tells(y, x)
        BY <1>1, <3>2, RowsStand
      <4>2. QED
        BY <3>1, <4>1, TellsOn
    <3>3. CASE x \in run[r].new
      BY <1>2, <2>1, <3>1, <3>3
    <3>4. QED
      BY <3>2, <3>3
  <2>2. CASE Opens(r)
    <3>1. PICK p : p = run[r].page
      OBVIOUS
    <3>2. PageSound(p) /\ Clear(p) /\ Clear(rows) /\ rows' = rows
      BY <2>2, <3>1 DEF Sound, RunSound, Plain, Opens
    <3>3. InHand(u, p) /\ c \in p
      BY <1>1, <1>2, <2>2, <3>1, OpensSound DEF InHand
    <3>4. PICK x \in View(u) : Tells(x, c)
      BY <1>2, <2>2, <3>1, <3>2, <3>3, OpensSound
    <3>5. \/ x \in u.new \/ x \in rows
          \/ \E f \in u.fills : f.old \in rows /\ f.new = x
      BY <3>3, ViewIs DEF InHand, Draft
    <3>6. ASSUME NEW f \in u.fills, f.old \in rows, f.new = x
          PROVE  \E y \in rows : Tells(y, c)
      <4>1. FillsBlank(f, p)
        BY <3>3 DEF InHand, Draft
      <4>2. link.blanks
        BY <3>2, <3>6, <4>1 DEF FillsBlank, Clear
      <4>3. x.line \in Photos
        BY <3>2, <3>6, <4>1 DEF PageSound, FillsBlank, FromPage, Bodied
      <4>4. Tells(f.old, x)
        BY <3>6, <4>1, <4>2, <4>3 DEF Tells, StandsFor, Nearby, FillsBlank
      <4>5. QED
        BY <3>4, <3>6, <4>4, TellsOn
    <3>7. QED
      BY <3>2, <3>4, <3>5, <3>6
  <2>3. CASE run'[r].phase # "open"
    BY <1>1, <2>3
  <2>4. QED
    BY <2>1, <2>2, <2>3, RunChange, BusySound DEF NoRun
<1>4. PICK x \in rows' \cup u.new : Tells(x, c)
  BY <1>3
<1>5. \A z \in rows' \cup u.new \cup {c} : z.line \in Lines /\ at'[z.line] # 0
  <2>1. \A z \in rows' : z.line \in Lines /\ at'[z.line] # 0
    BY SoundStep DEF Sound, TypeOK, RowSound, Row
  <2>2. RunSound(run[r])'
    BY SoundStep DEF Sound
  <2>3. \A d \in u.page : d.line \in Lines /\ at'[d.line] # 0
    BY <1>2, <2>2 DEF RunSound, PageSound, Run, Copy
  <2>4. \A z \in u.new : \E d \in u.page : d.line = z.line
    BY <1>2, <2>2 DEF RunSound, Draft, FromPage
  <2>5. QED
    BY <1>1, <1>2, <2>1, <2>3, <2>4
<1>6. PICK k, l : k = x.line /\ l = c.line
  OBVIOUS
<1>7. at[k] = at[l] => at'[k] = at'[l]
  <2>1. k \in Lines /\ l \in Lines /\ at'[k] # 0 /\ at'[l] # 0
    BY <1>4, <1>5, <1>6
  <2>2. (at[k] # 0 => at'[k] = at[k]) /\ (at[l] # 0 => at'[l] = at[l])
    BY <2>1, SaidOnce
  <2>3. CASE at[k] # 0
    BY <2>2, <2>3
  <2>4. CASE at[k] = 0 /\ at[l] = 0
    <3>1. \A d \in run[r].page : at[d.line] # 0
      BY DEF Sound, RunSound, PageSound
    <3>2. c \in run[r].page
      BY <1>1, RunChange, BusySound, OpensSound DEF InHand, NoRun
    <3>3. QED
      BY <1>6, <2>4, <3>1, <3>2
  <2>5. QED
    BY <2>3, <2>4
<1>8. Tells(x, c)'
  BY <1>4, <1>6, <1>7, LinkFixed DEF Tells, StandsFor, Nearby
<1>9. QED
  BY <1>2, <1>4, <1>8

\* The bodies stay plain and the pages told.
LEMMA AlwaysTold == Spec => [](Plain /\ Told)
<1>1. Init => Plain /\ Told
  BY DEF Init, Plain, Told, Clear, NoRun
<1>2. Sound /\ Plain /\ [Next]_vars => Plain'
  BY PlainStep
<1>3. Sound /\ Plain /\ Told /\ [Next]_vars => Told'
  BY ToldStep
<1>4. QED
  BY <1>1, <1>2, <1>3, TranscriptSound, PTL DEF Spec

\* What a committed batch has read is in the table: recognising copies never
\* takes one line for another, but for two attachments of one moment
\* (IngestService.ingest, the lost-webhook and blank-copy rules included).
THEOREM NothingEverLost == Spec => NothingLost
<1> DEFINE Kept == spent.erased = 0 =>
                     \A r \in Readers : Commits(r) =>
                       \A c \in run[r].page : \E x \in rows' : StandsFor(x, c)
<1>1. Sound /\ Plain /\ Told /\ [Next]_vars => [Kept]_vars
  <2> SUFFICES ASSUME Sound, Plain, Told, [Next]_vars, spent.erased = 0,
                      NEW r \in Readers, Commits(r), NEW c \in run[r].page
               PROVE  \E x \in rows' : StandsFor(x, c)
    OBVIOUS
  <2>1. spent'.erased = 0
    BY DEF Commits
  <2>2. PICK x \in rows \cup run[r].new : Tells(x, c)
    BY DEF Told, Commits
  <2>3. CASE x \in rows
    <3>1. PICK y \in rows' : Tells(y, x)
      BY <2>1, <2>3, RowsStand
    <3>2. QED
      BY <2>2, <3>1, TellsOn DEF Tells, StandsFor
  <2>4. CASE x \in run[r].new
    BY <2>2, <2>4 DEF Commits, View, Tells, StandsFor
  <2>5. QED
    BY <2>3, <2>4
<1>2. QED
  BY <1>1, TranscriptSound, AlwaysTold, PTL DEF Spec, NothingLost
------------------------------------------------------------------------------
(* Where the ids come from.                                                 *)
Steady == ~(moved = "amid" /\ Crowded)

\* Only the connector's jobs run, those of a webhook where there is one.
Staffed ==
  /\ \A r \in Readers : run[r].phase # "idle" => r \in link.readers
  /\ ~link.hooked => /\ hooks = {}
                     /\ \A r \in Readers : run[r].phase # "idle" => r \in Polls
  /\ moved # "no" => link.drifts

\* The ids of the copies of a page, and of the rows: one to a line until the
\* thread moves, and one to a line in what is read after it has moved idly.
IdsFit ==
  /\ link.own # "other" =>
       /\ \A x \in rows : x.line \in Owns => x.id = "send"
       /\ \A r \in Readers : \A c \in run[r].page : c.line \in Owns => c.id = "send"
  /\ moved = "no" =>
       /\ \A x \in rows : x.line \notin Owns => x.id = "first"
       /\ \A r \in Readers : \A c \in run[r].page : c.line \notin Owns => c.id = "first"
  /\ moved = "idly" =>
       \A r \in Readers : \A c \in run[r].page : c.line \notin Owns => c.id = "second"

\* The lines whose copies all bear one id, or are known by their words.
Ident(l) == ~(l \in Owns /\ link.own = "other") /\ ~(l \in Photos /\ moved # "no")

\* What a transaction is about to add has the id that the table has for it.
Alike ==
  Steady =>
    /\ \A x, y \in rows : x.line = y.line /\ Ident(x.line) => x.id = y.id
    /\ \A r \in Readers : \A y \in run[r].new, x \in rows :
         x.line = y.line /\ Ident(y.line) => x.id = y.id

\* A page with what can be said of it where it was read.
LEMMA PageIds ==
  ASSUME TypeOK, NEW textOnly, NEW c \in Page(textOnly)
  PROVE  /\ link.own # "other" /\ c.line \in Owns => c.id = "send"
         /\ moved = "no" /\ c.line \notin Owns => c.id = "first"
         /\ moved # "no" /\ c.line \notin Owns => c.id = "second"
<1>1. PICK l \in Lines : c = Polled(l, textOnly) /\ (l \in OurLines => link.own # "never")
  BY DEF Page
<1>2. c.line = l /\ c.id = PolledId(l)
  BY <1>1 DEF Polled
<1>3. link.own \in {"never", "other", "same"}
  BY LinkKinds DEF Link
<1>4. QED
  BY <1>1, <1>2, <1>3 DEF PolledId, OurLines

\* One step keeps the jobs to their connector.
LEMMA StaffedStep ==
  ASSUME Sound, Staffed, [Next]_vars
  PROVE  Staffed'
<1>1. link' = link
  BY LinkFixed
<1>2. ASSUME NEW r \in Readers, run'[r].phase # "idle"
      PROVE  \/ run[r].phase # "idle"
             \/ r \in link.readers /\ (r \in Polls \/ hooks # {})
  <2>1. CASE run'[r] = run[r]
    BY <1>2, <2>1
  <2>2. CASE run'[r] = NoRun
    BY <1>2, <2>2 DEF NoRun
  <2>3. CASE \/ r \in Polls /\ StartPoll(r)
             \/ r \in HookJobs /\ \E l \in Lines : StartHook(r, l)
    BY <2>3 DEF StartPoll, StartHook
  <2>4. CASE Opens(r)
    BY <2>4 DEF Opens
  <2>5. QED
    BY <2>1, <2>2, <2>3, <2>4, RunChange
<1>3. ~link.hooked => hooks' = {}
  <2> SUFFICES ASSUME ~link.hooked PROVE hooks' = {}
    OBVIOUS
  <2>1. hooks = {} /\ ~link.hooked
    BY DEF Staffed
  <2>2. hooks' = hooks \/ (\E l \in Lines : Says(l) \/ LosesHook(l))
        \/ \E r \in HookJobs, l \in Lines : StartHook(r, l)
    BY DEF Next, vars, Ticks, Moves, Tombstones, EraserDies, Delivers,
       Records, SenderDies, StartPoll, Opens, Commits, Aborts, AsksUnsend,
       GivesUp, Revokes, RevokesNextDoor, RevokeFails, Erases
  <2>3. QED
    BY <2>1, <2>2 DEF Says, LosesHook, StartHook
<1>4. moved' # "no" => link.drifts
  <2>1. moved' = moved \/ Moves
    BY DEF Next, vars, Ticks, Tombstones, EraserDies, Says, LosesHook, Delivers,
       Records, SenderDies, StartPoll, StartHook, Opens, Commits, Aborts, AsksUnsend,
       GivesUp, Revokes, RevokesNextDoor, RevokeFails, Erases
  <2>2. QED
    BY <2>1 DEF Moves, Staffed
<1>5. QED
  BY <1>1, <1>2, <1>3, <1>4 DEF Staffed

\* A thread moves once.
LEMMA MovesOnce ==
  ASSUME [Next]_vars
  PROVE  \/ moved' = moved
         \/ /\ moved = "no" /\ rows' = rows /\ run' = run /\ link.drifts
            /\ moved' = IF \E r \in Polls : run[r].phase # "idle" THEN "amid" ELSE "idly"
BY DEF Next, vars, Ticks, Moves, Tombstones, EraserDies, Says, LosesHook, Delivers,
       Records, SenderDies, StartPoll, StartHook, Opens, Commits, Aborts, AsksUnsend,
       GivesUp, Revokes, RevokesNextDoor, RevokeFails, Erases

\* One step keeps the ids.
LEMMA IdsStep ==
  ASSUME Sound, Staffed, IdsFit, [Next]_vars
  PROVE  IdsFit'
<1>1. link' = link
  BY LinkFixed
<1>2. ASSUME NEW x \in rows'
      PROVE  \/ \E z \in rows : z.line = x.line /\ z.id = x.id
             \/ \E r \in Readers : \E c \in run[r].page : c.line = x.line /\ c.id = x.id
             \/ x.line \in Owns /\ x.id = "send"
  <2>1. ASSUME NEW r \in Readers, Commits(r)
        PROVE  \/ \E z \in rows : z.line = x.line /\ z.id = x.id
               \/ \E c \in run[r].page : c.line = x.line /\ c.id = x.id
    <3>1. PICK t \in Run : t = run[r]
      BY DEF Sound, TypeOK
    <3>2. RunSound(t) /\ x \in View(t)
      BY <2>1, <3>1 DEF Sound, Commits
    <3>3. x \in rows \/ FromPage(x, t.page)
      BY <3>2, ViewIs DEF RunSound, Draft, FillsBlank
    <3>4. QED
      BY <3>1, <3>3 DEF FromPage
  <2>2. ASSUME NEW l \in Lines, Records(l), rows' = rows \cup {SentRow(l)}
        PROVE  x \in rows \/ (x.line \in Owns /\ x.id = "send")
    <3>1. SentRow(l).line \in Owns /\ SentRow(l).id = "send"
      BY <2>2 DEF SentRow, Records
    <3>2. QED
      BY <2>2, <3>1
  <2>3. ASSUME NEW z \in rows, NEW y, Restated(z, y), rows' = (rows \ {z}) \cup {y}
        PROVE  \E w \in rows : w.line = x.line /\ w.id = x.id
    BY <2>3 DEF Restated
  <2>4. ASSUME NEW z \in rows, Erases(z) PROVE x \in rows
    BY <2>4 DEF Erases
  <2>5. QED
    BY <2>1, <2>2, <2>3, <2>4, RowsChange
<1>3. ASSUME NEW r \in Readers, NEW c \in run'[r].page
      PROVE  \/ c \in run[r].page
             \/ /\ link.own # "other" /\ c.line \in Owns => c.id = "send"
                /\ moved = "no" /\ c.line \notin Owns => c.id = "first"
                /\ moved # "no" /\ c.line \notin Owns => c.id = "second"
  <2>0. run \in [Readers -> Run]
    BY DEF Sound, TypeOK
  <2>1. CASE run'[r] = run[r]
    BY <1>3, <2>1
  <2>2. CASE run'[r] = NoRun
    BY <1>3, <2>2 DEF NoRun
  <2>3. CASE StartPoll(r)
    <3>1. PICK textOnly : run'[r] = Busy(Page(textOnly), "fetched")
      BY <2>0, <2>3 DEF StartPoll
    <3>2. c \in Page(textOnly)
      BY <1>3, <3>1 DEF Busy, NoRun
    <3>3. QED
      BY <3>2, PageIds DEF Sound
  <2>4. ASSUME NEW l \in Lines, StartHook(r, l)
        PROVE  c.line \notin Owns /\ c.id = "first" /\ moved = "no"
    <3>1. run'[r] = Busy({Hooked(l)}, "fetched")
      BY <2>0, <2>4 DEF StartHook
    <3>2. c = Hooked(l)
      BY <1>3, <3>1 DEF Busy, NoRun
    <3>3. l \notin Owns
      BY <2>4, TranscriptAssumption DEF StartHook, Sound, TypeOK, OurLines
    <3>4. moved = "no"
      BY <2>4, LinkKinds DEF StartHook, Staffed, Sound
    <3>5. QED
      BY <3>2, <3>3, <3>4 DEF Hooked
  <2>5. CASE Opens(r)
    BY <1>3, <2>5, OpensSound DEF InHand
  <2>6. QED
    BY <2>1, <2>2, <2>3, <2>4, <2>5, RunChange
<1>4. CASE moved' = moved
  <2> HIDE DEF IdsFit
  <2>1. link.own # "other" =>
          /\ \A x \in rows' : x.line \in Owns => x.id = "send"
          /\ \A r \in Readers : \A c \in run'[r].page : c.line \in Owns => c.id = "send"
    BY <1>2, <1>3 DEF IdsFit
  <2>2. moved = "no" =>
          /\ \A x \in rows' : x.line \notin Owns => x.id = "first"
          /\ \A r \in Readers : \A c \in run'[r].page : c.line \notin Owns => c.id = "first"
    BY <1>2, <1>3 DEF IdsFit
  <2>3. moved = "idly" =>
          \A r \in Readers : \A c \in run'[r].page : c.line \notin Owns => c.id = "second"
    BY <1>3 DEF IdsFit
  <2>4. QED
    BY <1>1, <1>4, <2>1, <2>2, <2>3 DEF IdsFit
<1>5. CASE moved = "no" /\ rows' = rows /\ run' = run /\ link.drifts
           /\ moved' = IF \E r \in Polls : run[r].phase # "idle" THEN "amid" ELSE "idly"
  <2>1. moved' = "idly" => \A r \in Readers : run[r].page = {}
    <3>1. moved' = "idly" => \A r \in Readers : run[r].phase = "idle"
      BY <1>5, LinkKinds DEF Staffed, Sound
    <3>2. \A r \in Readers : run[r].phase = "idle" => run[r] = NoRun
      BY DEF Sound, RunSound
    <3>3. QED
      BY <3>1, <3>2 DEF NoRun
  <2>2. moved' # "no"
    BY <1>5
  <2>3. QED
    BY <1>1, <1>5, <2>1, <2>2 DEF IdsFit
<1>6. QED
  BY <1>4, <1>5, MovesOnce

\* While the thread has not moved, what is alike is a matter of the ids.
LEMMA AlikeAtHome ==
  ASSUME Sound, IdsFit, moved = "no"
  PROVE  /\ \A x, y \in rows : x.line = y.line /\ Ident(x.line) => x.id = y.id
         /\ \A r \in Readers : \A y \in run[r].new, x \in rows :
              x.line = y.line /\ Ident(y.line) => x.id = y.id
<1>1. \A r \in Readers : \A y \in run[r].new :
        \E c \in run[r].page : c.line = y.line /\ c.id = y.id
  BY DEF Sound, RunSound, Draft, FromPage
<1>2. \A x \in rows : Ident(x.line) => x.id = IF x.line \in Owns THEN "send" ELSE "first"
  BY DEF IdsFit, Ident
<1>3. \A r \in Readers : \A y \in run[r].new :
        Ident(y.line) => y.id = IF y.line \in Owns THEN "send" ELSE "first"
  BY <1>1 DEF IdsFit, Ident
<1>4. QED
  BY <1>2, <1>3

\* So the rows are alike until the thread moves.
LEMMA AlikeThere == Sound /\ IdsFit /\ moved = "no" => Alike
  BY AlikeAtHome DEF Alike

\* A reader at work while the inboxes change is the only one, unless two polls
\* of the thread may overlap.
LEMMA OneAtWork ==
  ASSUME Sound, Staffed, Steady, moved = "amid",
         NEW r \in Readers, run[r].phase # "idle",
         NEW s \in Readers, run[s].phase # "idle"
  PROVE  r = s
BY LinkKinds DEF Staffed, Steady, Crowded, Polls, Sound

\* Two transactions that are both at work after the thread has moved describe
\* a line under one id.
LEMMA ReadAlike ==
  ASSUME Sound, Staffed, IdsFit, Steady, moved # "no",
         NEW r \in Readers, NEW y \in run[r].new,
         NEW s \in Readers, NEW x \in run[s].new,
         x.line = y.line, y.line \notin Owns
  PROVE  x.id = y.id
<1>1. run[r].phase # "idle" /\ run[s].phase # "idle"
  BY DEF Sound, RunSound
<1>2. /\ \E c \in run[r].page : c.line = y.line /\ c.id = y.id
      /\ \E c \in run[s].page : c.line = x.line /\ c.id = x.id
  BY DEF Sound, RunSound, Draft, FromPage
<1>3. CASE moved = "amid"
  <2>1. r = s
    BY <1>1, <1>3, OneAtWork
  <2>2. QED
    BY <1>2, <2>1 DEF Sound, RunSound, PageSound
<1>4. CASE moved = "idly"
  BY <1>2, <1>4 DEF IdsFit
<1>5. moved \in {"no", "idly", "amid"}
  BY DEF Sound, TypeOK
<1>6. QED
  BY <1>3, <1>4, <1>5

\* One step keeps the ids alike.
LEMMA AlikeStep ==
  ASSUME Sound, Staffed, IdsFit, Alike, [Next]_vars
  PROVE  Alike'
<1>1. link' = link
  BY LinkFixed
<1>2. CASE moved' = "no"
  <2>1. Sound' /\ IdsFit' /\ (moved = "no")'
    BY <1>2, SoundStep, IdsStep
  <2>2. (Sound /\ IdsFit /\ moved = "no" => Alike)'
    BY AlikeThere, PTL
  <2>3. QED
    BY <2>1, <2>2
<1>3. CASE moved' # "no" /\ moved = "no"
  <2>1. rows' = rows /\ run' = run
    BY <1>3, MovesOnce
  <2>2. \A l : Ident(l)' => Ident(l)
    BY <1>1, <1>3 DEF Ident
  <2>3. QED
    BY <1>3, <2>1, <2>2, AlikeAtHome DEF Alike
<1>4. CASE moved' # "no" /\ moved # "no" /\ Steady
  <2>1. moved' = moved /\ link.own = "other"
    BY <1>4, MovesOnce, LinkKinds DEF Staffed, Sound
  <2>2. \A l : Ident(l)' <=> Ident(l)
    BY <1>1, <2>1 DEF Ident
  <2>3. \A l : Ident(l) <=> l \notin Owns /\ l \notin Photos
    BY <1>4, <2>1 DEF Ident
  <2>4. /\ \A x, y \in rows : x.line = y.line /\ Ident(x.line) => x.id = y.id
        /\ \A r \in Readers : \A y \in run[r].new, x \in rows :
             x.line = y.line /\ Ident(y.line) => x.id = y.id
    BY <1>4 DEF Alike
  <2>5. \A r \in Readers : \A y, z \in run[r].new : y.line = z.line => y.id = z.id
    BY DEF Sound, RunSound, Draft, FromPage, PageSound
  <2>6. ASSUME NEW r \in Readers, Commits(r), NEW x \in rows', Ident(x.line)
        PROVE  x \in rows \/ x \in run[r].new
    <3>1. PICK t \in Run : t = run[r]
      BY DEF Sound, TypeOK
    <3>2. RunSound(t) /\ x \in View(t)
      BY <2>6, <3>1 DEF Sound, Commits
    <3>3. \A f \in t.fills : f.new.line \in Photos
      BY <3>2 DEF RunSound, Draft, FillsBlank, FromPage, PageSound, Bodied
    <3>4. QED
      BY <2>3, <2>6, <3>1, <3>2, <3>3, ViewIs DEF RunSound, Draft
  <2>7. ASSUME NEW x \in rows', Ident(x.line)
        PROVE  \/ \E z \in rows : z.line = x.line /\ z.id = x.id
               \/ \E r \in Readers : Commits(r) /\ x \in run[r].new
    <3>1. ASSUME NEW l \in Lines, Records(l), rows' = rows \cup {SentRow(l)}
          PROVE  x \in rows
      <4>1. SentRow(l).line \in Owns
        BY <3>1 DEF SentRow, Records
      <4>2. QED
        BY <2>3, <2>7, <3>1, <4>1
    <3>2. ASSUME NEW z \in rows, NEW y, Restated(z, y), rows' = (rows \ {z}) \cup {y}
          PROVE  \E w \in rows : w.line = x.line /\ w.id = x.id
      BY <3>2 DEF Restated
    <3>3. ASSUME NEW z \in rows, Erases(z) PROVE x \in rows
      BY <3>3 DEF Erases
    <3>4. QED
      BY <2>6, <2>7, <3>1, <3>2, <3>3, RowsChange
  <2>8. \A r, s \in Readers : Commits(r) /\ Commits(s) => r = s
    <3> SUFFICES ASSUME NEW r \in Readers, NEW s \in Readers, Commits(r), Commits(s)
                 PROVE  r = s
      OBVIOUS
    <3>1. run' = [run EXCEPT ![r] = NoRun] /\ run[s].phase = "open"
          /\ run'[s] = NoRun
      BY DEF Commits, Sound, TypeOK
    <3>2. QED
      BY <3>1 DEF NoRun, Sound, TypeOK
  <2>9. ASSUME NEW x \in rows', NEW y \in rows', x.line = y.line, Ident(x.line)
        PROVE  x.id = y.id
    BY <2>4, <2>5, <2>7, <2>8, <2>9
  <2>10. ASSUME NEW r \in Readers, NEW y \in run'[r].new, NEW x \in rows',
                x.line = y.line, Ident(y.line)
         PROVE  x.id = y.id
    <3>1. CASE Opens(r)
      <4>1. InHand(run'[r], run[r].page) /\ rows' = rows
        BY <3>1, OpensSound DEF Opens
      <4>2. QED
        BY <2>3, <2>10, <4>1 DEF InHand
    <3>2. CASE run'[r] = run[r]
      <4>1. CASE \E z \in rows : z.line = x.line /\ z.id = x.id
        BY <2>4, <2>10, <3>2, <4>1
      <4>2. ASSUME NEW s \in Readers, Commits(s), x \in run[s].new PROVE x.id = y.id
        BY <1>4, <2>3, <2>10, <3>2, <4>2, ReadAlike DEF Commits
      <4>3. QED
        BY <2>7, <2>10, <4>1, <4>2
    <3>3. CASE run'[r].new = {}
      BY <2>10, <3>3
    <3>4. QED
      BY <3>1, <3>2, <3>3, RunChange, BusySound DEF NoRun
  <2>11. QED
    BY <2>2, <2>9, <2>10 DEF Alike
<1>5. CASE moved' # "no" /\ moved # "no" /\ ~Steady
  <2>1. moved' = moved /\ ~Steady'
    BY <1>1, <1>5, MovesOnce DEF Steady, Crowded
  <2>2. QED
    BY <2>1 DEF Alike
<1>6. QED
  BY <1>2, <1>3, <1>4, <1>5

\* The conditions under which the rows are alike hold always.
LEMMA AlwaysAlike == Spec => [](Staffed /\ IdsFit /\ Alike)
<1>1. Init => Staffed /\ IdsFit /\ Alike
  BY DEF Init, Staffed, IdsFit, Alike, NoRun
<1>2. Sound /\ Staffed /\ [Next]_vars => Staffed'
  BY StaffedStep
<1>3. Sound /\ Staffed /\ IdsFit /\ [Next]_vars => IdsFit'
  BY IdsStep
<1>4. Sound /\ Staffed /\ IdsFit /\ Alike /\ [Next]_vars => Alike'
  BY AlikeStep
<1>5. QED
  BY <1>1, <1>2, <1>3, <1>4, TranscriptSound, PTL DEF Spec

\* Whatever the paths and the ids, a line of the lead is one line of the
\* conversation that the model reads.
THEOREM AlwaysStoredOnce == Spec => []StoredOnce
<1>1. Sound /\ Alike => StoredOnce
  BY DEF Sound, Alike, Keyed, Same, StoredOnce, Steady, Ident, Live
<1>2. QED
  BY <1>1, TranscriptSound, AlwaysAlike, PTL
------------------------------------------------------------------------------
(* Why the watermarks owe an answer.  What of ours the thread remembers is   *)
(* in the table and live; what of the lead it remembers is in the table too. *)
OutBacked == \/ marks.lastOut = 0
             \/ \E x \in Live : ~IsIn(x) /\ marks.lastOut <= at[x.line]

\* Where OwesAnswer is promised.
Calm == ~link.hooked /\ spent.erased = 0 /\ Steady

\* A poll reads the lead's lines in order: with a line all that are older.
Whole ==
  ~link.hooked =>
    \A r \in Readers : \A c \in run[r].page, l \in LeadLines :
      IsIn(c) /\ at[l] # 0 /\ at[l] < at[c.line] => \E d \in run[r].page : d.line = l

\* So does the table, no line of the lead is ahead of the watermark, and the
\* watermark is not ahead of the table.
InMarked == \A x \in rows : x.line \in Texts \cup Photos => at[x.line] <= marks.lastIn
InBacked == marks.lastIn = 0 \/ \E x \in rows : IsIn(x) /\ marks.lastIn <= at[x.line]
Downward == \A x \in rows, l \in LeadLines :
              IsIn(x) /\ at[l] # 0 /\ at[l] < at[x.line] => \E z \in rows : z.line = l

\* What a transaction has read of the watermark is not ahead of it, and an
\* attachment that is news to the transaction has one id.
SeenBehind == \A r \in Readers : run[r].phase = "open" => run[r].seen.lastIn <= marks.lastIn
NewsAlike == \A r \in Readers : \A y \in run[r].new, x \in rows :
               /\ x.line = y.line /\ y.line \in Photos
               /\ run[r].seen.lastIn < at[y.line]
               => x.id = y.id

InOrder == Calm => InMarked /\ InBacked /\ Downward /\ SeenBehind /\ NewsAlike

\* A line that was not said is said now.
LEMMA SaidLater ==
  ASSUME Sound, [Next]_vars, NEW l \in Lines
  PROVE  at'[l] = at[l] \/ (at[l] = 0 /\ at'[l] = clock)
<1>1. at \in [Lines -> Moment]
  BY DEF Sound, TypeOK
<1>2. at' = at \/ \E k \in Lines : at' = [at EXCEPT ![k] = clock]
  BY DEF Next, vars, Ticks, Moves, Tombstones, EraserDies, Says, LosesHook,
     Delivers, Records, SenderDies, StartPoll, StartHook, Opens, Commits, Aborts,
     AsksUnsend, GivesUp, Revokes, RevokesNextDoor, RevokeFails, Erases
<1>3. at[l] # 0 => at'[l] = at[l]
  BY SaidOnce
<1>4. QED
  BY <1>1, <1>2, <1>3

\* A calm state comes after a calm one.
LEMMA CalmBefore ==
  ASSUME Sound, [Next]_vars, Calm'
  PROVE  Calm /\ spent'.erased = 0
BY LinkFixed, ErasedStays, MovesOnce DEF Calm, Steady, Crowded

\* The lines of the table and of the transactions were said.
LEMMA LinesSaid ==
  ASSUME Sound
  PROVE  /\ \A x \in rows : x.line \in Lines /\ at[x.line] # 0
         /\ \A r \in Readers : /\ \A c \in run[r].page : c.line \in Lines /\ at[c.line] # 0
                               /\ \A y \in run[r].new : y.line \in Lines /\ at[y.line] # 0
         /\ \A l \in Lines : at[l] \in Nat /\ at[l] <= clock
         /\ marks.lastIn \in Nat /\ marks.lastOut \in Nat
         /\ \A r \in Readers : /\ run[r].seen.lastIn \in Nat /\ run[r].marks.lastIn \in Nat
                               /\ run[r].seen.lastOut \in Nat /\ run[r].marks.lastOut \in Nat
<1>1. \A x \in rows : x.line \in Lines /\ at[x.line] # 0
  BY DEF Sound, TypeOK, RowSound, Row
<1>2. ASSUME NEW r \in Readers
      PROVE  /\ \A c \in run[r].page : c.line \in Lines /\ at[c.line] # 0
             /\ \A y \in run[r].new : y.line \in Lines /\ at[y.line] # 0
  <2>1. run[r] \in Run /\ RunSound(run[r])
    BY DEF Sound, TypeOK
  <2>2. \A c \in run[r].page : c.line \in Lines /\ at[c.line] # 0
    BY <2>1 DEF RunSound, PageSound, Run, Copy
  <2>3. \A y \in run[r].new : \E c \in run[r].page : c.line = y.line
    BY <2>1 DEF RunSound, Draft, FromPage
  <2>4. QED
    BY <2>2, <2>3
<1>3. Moment \subseteq Nat
  BY DEF Moment
<1>4. \A l \in Lines : at[l] \in Nat /\ at[l] <= clock
  BY <1>3 DEF Sound, TypeOK
<1>5. marks.lastIn \in Nat /\ marks.lastOut \in Nat
  BY <1>3 DEF Sound, TypeOK, Marks
<1>6. ASSUME NEW r \in Readers
      PROVE  /\ run[r].seen.lastIn \in Nat /\ run[r].marks.lastIn \in Nat
             /\ run[r].seen.lastOut \in Nat /\ run[r].marks.lastOut \in Nat
  <2>1. run[r].seen \in Marks /\ run[r].marks \in Marks
    BY DEF Sound, TypeOK, Run
  <2>2. QED
    BY <1>3, <2>1 DEF Marks
<1>7. QED
  BY <1>1, <1>2, <1>4, <1>5, <1>6

\* One step keeps the pages whole.
LEMMA WholeStep ==
  ASSUME Sound, Staffed, Whole, [Next]_vars
  PROVE  Whole'
<1>1. SUFFICES ASSUME ~link.hooked, NEW r \in Readers, NEW c \in run'[r].page,
                      NEW l \in LeadLines, IsIn(c), at'[l] # 0, at'[l] < at'[c.line]
               PROVE  \E d \in run'[r].page : d.line = l
  BY LinkFixed DEF Whole, IsIn
<1>2. l \in Lines /\ l \notin OurLines
  BY TranscriptAssumption DEF Lines
<1>3. ASSUME c.line \in Lines, at[c.line] # 0 PROVE at[l] # 0 /\ at[l] < at[c.line]
  <2>1. at'[c.line] = at[c.line]
    BY <1>3, SaidOnce
  <2>2. at[c.line] \in Nat /\ at[c.line] <= clock
    BY <1>3, LinesSaid
  <2>3. clock \in Nat
    BY DEF Sound, TypeOK
  <2>4. at'[l] = at[l]
    BY <1>1, <1>2, <2>1, <2>2, <2>3, SaidLater
  <2>5. QED
    BY <1>1, <2>1, <2>4
<1>4. CASE run'[r].page = run[r].page
  <2>1. c.line \in Lines /\ at[c.line] # 0
    BY <1>4, LinesSaid
  <2>2. QED
    BY <1>1, <1>3, <1>4, <2>1 DEF Whole
<1>5. CASE StartPoll(r)
  <2>0. run \in [Readers -> Run]
    BY DEF Sound, TypeOK
  <2>1. PICK textOnly : run'[r] = Busy(Page(textOnly), "fetched")
    BY <1>5, <2>0 DEF StartPoll
  <2>2. run'[r].page = Page(textOnly)
    BY <2>1 DEF Busy, NoRun
  <2>3. at' = at
    BY <1>5 DEF StartPoll
  <2>4. l \notin gone
    BY <1>2 DEF Sound, TypeOK
  <2>5. Polled(l, textOnly) \in Page(textOnly)
    BY <1>1, <1>2, <2>3, <2>4 DEF Page
  <2>6. QED
    BY <2>2, <2>5 DEF Polled
<1>6. CASE run'[r].page = {}
  BY <1>1, <1>6
<1>7. ~\E s \in HookJobs, k \in Lines : StartHook(s, k)
  BY <1>1 DEF Staffed, StartHook
<1>8. Opens(r) => run'[r].page = run[r].page
  BY OpensSound DEF InHand
<1>9. QED
  BY <1>4, <1>5, <1>6, <1>7, <1>8, RunChange DEF NoRun

\* No row of the lead's goes, and the new ones are those of a batch.
LEMMA LeadRows ==
  ASSUME Sound, Plain, [Next]_vars, ~link.hooked, spent'.erased = 0
  PROVE  /\ \A x \in rows : IsIn(x) => x \in rows'
         /\ \A x \in rows' : IsIn(x) => \/ x \in rows
                                       \/ \E r \in Readers : Commits(r) /\ x \in run[r].new
<1>1. ASSUME NEW x \in rows, NEW y, Restated(x, y), rows' = (rows \ {x}) \cup {y}
      PROVE  ~IsIn(x) /\ ~IsIn(y)
  BY <1>1, TranscriptAssumption DEF Restated, IsIn
<1>2. ASSUME NEW l \in Lines, Records(l) PROVE ~IsIn(SentRow(l))
  BY <1>2, TranscriptAssumption DEF Records, SentRow, IsIn, OurLines
<1>3. ASSUME NEW r \in Readers, Commits(r)
      PROVE  rows' = rows \cup run[r].new
  <2>1. PICK t \in Run : t = run[r]
    BY DEF Sound, TypeOK
  <2>2. RunSound(t) /\ rows' = View(t)
    BY <1>3, <2>1 DEF Sound, Commits
  <2>3. \A x \in rows : Filled(x, t.fills) = x
    <3>1. \A f \in t.fills : f.old \notin rows
      BY <2>2, LinkKinds DEF RunSound, Draft, FillsBlank, Plain, Clear, Sound
    <3>2. QED
      BY <3>1 DEF Filled
  <2>4. View(t) = rows \cup t.new
    BY <2>3 DEF View
  <2>5. QED
    BY <2>1, <2>2, <2>4
<1>4. QED
  BY <1>1, <1>2, <1>3, RowsChange, ErasedStays

\* Where attachments are never blank, a transaction fills nothing in.
LEMMA NothingFilled ==
  ASSUME Sound, Plain, ~link.hooked, NEW r \in Readers, NEW x \in rows
  PROVE  Filled(x, run[r].fills) = x
<1>1. \A f \in run[r].fills : f.old \notin rows
  BY LinkKinds DEF Sound, RunSound, Draft, FillsBlank, Plain, Clear
<1>2. QED
  BY <1>1 DEF Filled

\* The watermark of the lead's lines never goes back: a batch that has found a
\* newer line than the thread that it read, but an older one than the thread
\* has now, clashes with the batch that stored it.
LEMMA MarkGrows ==
  ASSUME Sound, Plain, Staffed, Alike, InOrder, [Next]_vars, Calm'
  PROVE  /\ marks.lastIn <= marks'.lastIn /\ marks'.lastIn \in Nat
         /\ \A r \in Readers : Commits(r) => run[r].marks.lastIn <= marks'.lastIn
         /\ \/ marks'.lastIn = 0
            \/ \E x \in rows' : IsIn(x) /\ marks'.lastIn <= at[x.line]
<1>0. /\ Calm /\ ~link.hooked /\ spent'.erased = 0
      /\ InMarked /\ InBacked /\ Downward /\ SeenBehind /\ NewsAlike
  BY CalmBefore DEF Calm, InOrder
<1>1. marks.lastIn \in Nat /\ \A x \in rows : at[x.line] \in Nat
  BY LinesSaid
<1>2. ASSUME NEW r \in Readers, Commits(r)
      PROVE  /\ marks.lastIn <= marks'.lastIn /\ marks'.lastIn \in Nat
             /\ run[r].marks.lastIn <= marks'.lastIn
             /\ \/ marks'.lastIn = 0
                \/ \E x \in rows' : IsIn(x) /\ marks'.lastIn <= at[x.line]
  <2>1. /\ run[r].seen.lastIn \in Nat /\ run[r].marks.lastIn \in Nat
        /\ run[r].seen.lastIn <= marks.lastIn
        /\ \A y \in run[r].new : at[y.line] \in Nat /\ at[y.line] # 0
    BY <1>0, <1>2, LinesSaid DEF SeenBehind, Commits
  <2>2. marks'.lastIn = IF run[r].marks.lastIn = run[r].seen.lastIn
                        THEN marks.lastIn ELSE run[r].marks.lastIn
    BY <1>2 DEF Commits, Written, Sound, TypeOK, Marks
  <2>3. CASE run[r].marks.lastIn = run[r].seen.lastIn
    <3>1. marks'.lastIn = marks.lastIn
      BY <2>2, <2>3
    <3>2. \/ marks.lastIn = 0
          \/ \E x \in rows' : IsIn(x) /\ marks.lastIn <= at[x.line]
      BY <1>0, LeadRows DEF InBacked
    <3>3. QED
      BY <1>1, <2>1, <2>3, <3>1, <3>2
  <2>4. CASE run[r].marks.lastIn # run[r].seen.lastIn
    <3>1. /\ run[r].seen.lastIn <= run[r].marks.lastIn
          /\ \E y \in run[r].new : /\ y.line \in Texts \cup Photos
                                  /\ at[y.line] = run[r].marks.lastIn
      BY <2>4 DEF Sound, RunSound, MarksFit
    <3>2. PICK y \in run[r].new : /\ y.line \in Texts \cup Photos
                                /\ at[y.line] = run[r].marks.lastIn
      BY <3>1
    <3>3. y.line \in LeadLines /\ y.line \notin Owns
      BY <3>2, TranscriptAssumption DEF LeadLines, OurLines
    <3>4. marks.lastIn <= run[r].marks.lastIn
      <4> SUFFICES ASSUME run[r].marks.lastIn < marks.lastIn PROVE FALSE
        BY <1>1, <2>1
      <4>1. PICK w \in rows : IsIn(w) /\ marks.lastIn <= at[w.line]
        BY <1>0, <1>1, <2>1 DEF InBacked
      <4>2. at[y.line] # 0 /\ at[y.line] < at[w.line]
        BY <1>1, <2>1, <3>2, <4>1
      <4>3. PICK z \in rows : z.line = y.line
        BY <1>0, <3>3, <4>1, <4>2 DEF Downward
      <4>4. z.id = y.id
        <5>1. run[r].seen.lastIn < at[y.line]
          BY <2>1, <2>4, <3>1, <3>2
        <5>2. CASE y.line \in Photos
          BY <1>0, <4>3, <5>1, <5>2 DEF NewsAlike
        <5>3. CASE y.line \notin Photos
          BY <1>0, <3>3, <4>3, <5>3 DEF Alike, Calm, Ident
        <5>4. QED
          BY <5>2, <5>3
      <4>5. Clashes({x \in rows : Filled(x, run[r].fills) = x},
                    run[r].new \cup {f.new : f \in run[r].fills})
        <5>1. Filled(z, run[r].fills) = z
          BY <1>0, NothingFilled
        <5>2. QED
          BY <4>3, <4>4, <5>1 DEF Clashes
      <4>6. QED
        BY <1>2, <4>5 DEF Commits
    <3>5. y \in rows' /\ IsIn(y)
      BY <1>2, <3>3 DEF Commits, View, IsIn
    <3>6. QED
      BY <1>1, <2>1, <2>2, <2>4, <3>2, <3>4, <3>5
  <2>5. QED
    BY <2>3, <2>4
<1>3. CASE Tombstones
  <2> DEFINE R == {x \in rows' : IsIn(x) /\ ~x.revoked}
  <2>1. rows' \subseteq Row /\ (\A x \in rows' : at'[x.line] = at[x.line]) /\ at' = at
    BY <1>3, TypeStep DEF Tombstones, TypeOK
  <2>2. marks'.lastIn = Newest(R)
    BY <1>3 DEF Tombstones, Rewound, Sound, TypeOK, Marks
  <2>3. R \in SUBSET Row
    BY <2>1
  <2>4. /\ Newest(R) \in Moment
        /\ \A x \in R : at[x.line] <= Newest(R)
        /\ Newest(R) = 0 \/ \E x \in R : at[x.line] = Newest(R)
    <3> HIDE DEF R
    <3>1. QED
      BY <2>3, NewestOf DEF Sound
  <2>5. \A x \in rows : IsIn(x) => x \in R
    BY <1>0, LeadRows, TranscriptAssumption DEF Sound, RowSound, IsIn
  <2>6. Newest(R) \in Nat
    BY <2>4 DEF Moment
  <2>7. marks.lastIn <= Newest(R)
    <3> HIDE DEF R
    <3>1. QED
      BY <1>0, <1>1, <2>4, <2>5, <2>6 DEF InBacked
  <2>8. \/ Newest(R) = 0
        \/ \E x \in rows' : IsIn(x) /\ Newest(R) <= at[x.line]
    <3>1. CASE Newest(R) = 0
      BY <3>1
    <3>2. ASSUME NEW x \in R, at[x.line] = Newest(R)
          PROVE  \E z \in rows' : IsIn(z) /\ Newest(R) <= at[z.line]
      <4>1. x \in rows' /\ IsIn(x)
        OBVIOUS
      <4> HIDE DEF R
      <4>2. QED
        BY <2>6, <3>2, <4>1
    <3> HIDE DEF R
    <3>3. QED
      BY <2>4, <3>1, <3>2
  <2>9. ~\E r \in Readers : Commits(r)
    BY <1>3 DEF Tombstones, Commits, Sound
  <2> HIDE DEF R
  <2>10. QED
    BY <2>2, <2>6, <2>7, <2>8, <2>9
<1>4. CASE marks'.lastIn = marks.lastIn /\ ~\E r \in Readers : Commits(r)
  <2>1. \/ marks.lastIn = 0
        \/ \E x \in rows' : IsIn(x) /\ marks.lastIn <= at[x.line]
    BY <1>0, LeadRows DEF InBacked
  <2>2. QED
    BY <1>1, <1>4, <2>1
<1>5. \/ \E r \in Readers : Commits(r)
      \/ Tombstones
      \/ marks'.lastIn = marks.lastIn
  <2>1. \/ \E r \in Readers : Commits(r)
        \/ Tombstones
        \/ marks' = marks
        \/ \E x \in rows : Erases(x)
        \/ \E l \in Lines : Records(l)
    BY DEF Next, vars, Ticks, Moves, EraserDies, Says, LosesHook,
       Delivers, SenderDies, StartPoll, StartHook, Opens, Aborts,
       AsksUnsend, GivesUp, Revokes, RevokesNextDoor, RevokeFails
  <2>2. ASSUME NEW l \in Lines, Records(l) PROVE marks'.lastIn = marks.lastIn
    BY <2>2 DEF Records, Sound, TypeOK, Marks
  <2>3. QED
    BY <1>0, <2>1, <2>2, ErasedStays
<1>6. QED
  BY <1>2, <1>3, <1>4, <1>5

\* One step keeps the table and the watermark in order.
LEMMA OrderStep ==
  ASSUME Sound, Plain, Told, Staffed, IdsFit, Alike, Whole, InOrder, [Next]_vars
  PROVE  InOrder'
<1>1. SUFFICES ASSUME Calm'
               PROVE  (InMarked /\ InBacked /\ Downward /\ SeenBehind /\ NewsAlike)'
  BY DEF InOrder
<1>2. /\ Calm /\ ~link.hooked /\ spent'.erased = 0 /\ spent.erased = 0
      /\ InMarked /\ InBacked /\ Downward /\ SeenBehind /\ NewsAlike
  BY <1>1, CalmBefore DEF Calm, InOrder
<1>3. /\ marks.lastIn <= marks'.lastIn /\ marks'.lastIn \in Nat /\ marks.lastIn \in Nat
      /\ \A r \in Readers : Commits(r) => run[r].marks.lastIn <= marks'.lastIn
      /\ \/ marks'.lastIn = 0
         \/ \E x \in rows' : IsIn(x) /\ marks'.lastIn <= at[x.line]
  BY <1>1, MarkGrows, LinesSaid
<1>4. /\ \A x \in rows : IsIn(x) => x \in rows'
      /\ \A x \in rows' : IsIn(x) => \/ x \in rows
                                    \/ \E r \in Readers : Commits(r) /\ x \in run[r].new
  BY <1>2, LeadRows
<1>5. \A x \in rows' : IsIn(x) =>
        x.line \in Lines /\ at[x.line] # 0 /\ at'[x.line] = at[x.line]
        /\ at[x.line] \in Nat /\ at[x.line] <= clock
  <2>1. \A x \in rows' : IsIn(x) => x.line \in Lines /\ at[x.line] # 0
    BY <1>4, LinesSaid
  <2>2. QED
    BY <2>1, SaidOnce, LinesSaid
<1>6. LeadLines \subseteq Lines /\ Texts \cup Photos \subseteq LeadLines
      /\ LeadLines \cap Owns = {}
  BY TranscriptAssumption DEF Lines, LeadLines, OurLines
<1>7. InMarked'
  <2> SUFFICES ASSUME NEW x \in rows', x.line \in Texts \cup Photos
               PROVE  at'[x.line] <= marks'.lastIn
    BY DEF InMarked
  <2>1. IsIn(x) /\ at'[x.line] = at[x.line] /\ at[x.line] \in Nat
    BY <1>5, <1>6 DEF IsIn
  <2>2. CASE x \in rows
    BY <1>2, <1>3, <2>1, <2>2 DEF InMarked
  <2>3. ASSUME NEW r \in Readers, Commits(r), x \in run[r].new
        PROVE  at[x.line] <= marks'.lastIn
    <3>1. at[x.line] <= run[r].marks.lastIn
      BY <2>3 DEF Sound, RunSound, MarksFit
    <3>2. run[r].marks.lastIn \in Nat
      BY LinesSaid
    <3>3. QED
      BY <1>3, <2>1, <2>3, <3>1, <3>2
  <2>4. QED
    BY <1>4, <2>1, <2>2, <2>3
<1>8. InBacked'
  BY <1>3, <1>5 DEF InBacked, IsIn
<1>9. Downward'
  <2> SUFFICES ASSUME NEW x \in rows', NEW l \in LeadLines, IsIn(x),
                      at'[l] # 0, at'[l] < at'[x.line]
               PROVE  \E z \in rows' : z.line = l
    BY DEF Downward, IsIn
  <2>1. at'[x.line] = at[x.line] /\ at[x.line] \in Nat /\ at[x.line] <= clock
    BY <1>5
  <2>2. at[l] # 0 /\ at[l] < at[x.line]
    <3>1. clock \in Nat
      BY DEF Sound, TypeOK
    <3>2. at'[l] = at[l] \/ (at[l] = 0 /\ at'[l] = clock)
      BY <1>6, SaidLater
    <3>3. QED
      BY <2>1, <3>1, <3>2
  <2>3. \A z \in rows : z.line = l => z \in rows'
    BY <1>4 DEF IsIn
  <2>4. CASE x \in rows
    BY <1>2, <2>2, <2>3, <2>4 DEF Downward
  <2>5. ASSUME NEW r \in Readers, Commits(r), x \in run[r].new
        PROVE  \E z \in rows' : z.line = l
    <3>1. PICK c \in run[r].page : c.line = x.line
      BY <2>5 DEF Sound, RunSound, Draft, FromPage
    <3>2. PICK d \in run[r].page : d.line = l
      BY <1>2, <2>2, <3>1 DEF Whole, IsIn
    <3>3. PICK z \in rows \cup run[r].new : Tells(z, d)
      BY <1>2, <2>5 DEF Told, Commits
    <3>4. z.line = l
      BY <1>2, <3>2, <3>3, LinkKinds DEF Tells, Sound
    <3>5. run[r].new \subseteq rows'
      BY <2>5 DEF Commits, View
    <3>6. QED
      BY <2>3, <3>4, <3>5
  <2>6. QED
    BY <1>4, <2>4, <2>5
<1>10. SeenBehind'
  <2> SUFFICES ASSUME NEW r \in Readers, run'[r].phase = "open"
               PROVE  run'[r].seen.lastIn <= marks'.lastIn
    BY DEF SeenBehind
  <2>1. CASE run'[r] = run[r]
    <3>1. run[r].seen.lastIn <= marks.lastIn /\ run[r].seen.lastIn \in Nat
      BY <1>2, <2>1, LinesSaid DEF SeenBehind
    <3>2. QED
      BY <1>3, <2>1, <3>1
  <2>2. CASE Opens(r)
    BY <1>3, <2>2, OpensSound DEF InHand
  <2>3. CASE run'[r].phase # "open"
    BY <2>3
  <2>4. QED
    BY <2>1, <2>2, <2>3, RunChange, BusySound DEF NoRun
<1>11. NewsAlike'
  <2> SUFFICES ASSUME NEW r \in Readers, NEW y \in run'[r].new, NEW x \in rows',
                      x.line = y.line, y.line \in Photos,
                      run'[r].seen.lastIn < at'[y.line]
               PROVE  x.id = y.id
    BY DEF NewsAlike
  <2>1. IsIn(x) /\ y.line \notin Owns /\ at'[y.line] = at[y.line] /\ at[y.line] \in Nat
    BY <1>5, <1>6 DEF IsIn
  <2>2. CASE run'[r] = run[r]
    <3>1. CASE x \in rows
      BY <1>2, <2>1, <2>2, <3>1 DEF NewsAlike
    <3>2. ASSUME NEW s \in Readers, Commits(s), x \in run[s].new
          PROVE  x.id = y.id
      <4>1. CASE moved # "no"
        BY <1>2, <2>1, <2>2, <3>2, <4>1, ReadAlike DEF Calm
      <4>2. CASE moved = "no"
        <5>1. /\ \E c \in run[r].page : c.line = y.line /\ c.id = y.id
              /\ \E c \in run[s].page : c.line = x.line /\ c.id = x.id
          BY <2>2, <3>2 DEF Sound, RunSound, Draft, FromPage
        <5>2. QED
          BY <2>1, <4>2, <5>1 DEF IdsFit
      <4>3. QED
        BY <4>1, <4>2
    <3>3. QED
      BY <1>4, <2>1, <3>1, <3>2
  <2>3. CASE Opens(r)
    <3>1. rows' = rows /\ run'[r].seen = marks
      BY <2>3, OpensSound DEF Opens, InHand
    <3>2. at[y.line] <= marks.lastIn
      BY <1>2, <3>1 DEF InMarked
    <3>3. QED
      BY <1>3, <2>1, <3>1, <3>2
  <2>4. CASE run'[r].new = {}
    BY <2>4
  <2>5. QED
    BY <2>2, <2>3, <2>4, RunChange, BusySound DEF NoRun
<1>12. QED
  BY <1>7, <1>8, <1>9, <1>10, <1>11

\* One step keeps what of ours the thread remembers in the table, a retraction
\* included: it rewinds the watermark (_delete_local).
LEMMA OutStep ==
  ASSUME Sound, OutBacked, [Next]_vars
  PROVE  OutBacked'
<1>1. \A x \in rows : x.line \in Lines /\ at[x.line] # 0 /\ at'[x.line] = at[x.line]
  BY LinesSaid, SaidOnce
<1>2. CASE Tombstones
  <2> DEFINE R == {x \in rows' : ~IsIn(x) /\ ~x.revoked}
  <2>1. rows' \subseteq Row /\ at' = at
    BY <1>2, TypeStep DEF Tombstones, TypeOK
  <2>2. marks'.lastOut = Newest(R)
    BY <1>2 DEF Tombstones, Rewound, Sound, TypeOK, Marks
  <2>3. R \in SUBSET Row
    BY <2>1
  <2>4. Newest(R) \in Moment /\ (Newest(R) = 0 \/ \E x \in R : at[x.line] = Newest(R))
    <3> HIDE DEF R
    <3>1. QED
      BY <2>3, NewestOf DEF Sound
  <2>5. R \subseteq Live'
    BY DEF Live
  <2>6. \A x \in R : ~IsIn(x)
    OBVIOUS
  <2> HIDE DEF R
  <2>7. QED
    BY <2>1, <2>2, <2>4, <2>5, <2>6 DEF OutBacked, IsIn, Moment
<1>3. ASSUME NEW x \in Live, ~IsIn(x), ~Tombstones
      PROVE  \E y \in Live' : ~IsIn(y) /\ y.line = x.line
  <2>1. x \in rows /\ ~x.revoked /\ x \in Row
    BY DEF Live, Sound, TypeOK
  <2>2. CASE x \in rows'
    BY <1>3, <2>1, <2>2 DEF Live
  <2>3. ASSUME NEW z \in rows, AsksUnsend(z) PROVE \E y \in rows' :
                                                 ~y.revoked /\ y.line = x.line
    <3>1. CASE x = z
      <4>1. [x EXCEPT !.wanted = TRUE] \in rows'
        BY <2>3, <3>1 DEF AsksUnsend
      <4>2. QED
        BY <2>1, <4>1 DEF Row
    <3>2. CASE x # z
      BY <2>1, <2>3, <3>2 DEF AsksUnsend
    <3>3. QED
      BY <3>1, <3>2
  <2>4. ASSUME NEW z \in rows, GivesUp(z) PROVE \E y \in rows' :
                                               ~y.revoked /\ y.line = x.line
    <3>1. CASE x = z
      <4>1. [x EXCEPT !.wanted = FALSE] \in rows'
        BY <2>4, <3>1 DEF GivesUp
      <4>2. QED
        BY <2>1, <4>1 DEF Row
    <3>2. CASE x # z
      BY <2>1, <2>4, <3>2 DEF GivesUp
    <3>3. QED
      BY <3>1, <3>2
  <2>5. ASSUME NEW z \in rows, Erases(z) PROVE x \in rows'
    BY <1>3, <2>1, <2>5 DEF Erases
  <2>6. ASSUME NEW l \in Lines, Records(l) PROVE x \in rows'
    BY <2>1, <2>6 DEF Records
  <2>7. ASSUME NEW r \in Readers, Commits(r) PROVE x \in rows'
    <3>1. PICK t \in Run : t = run[r]
      BY DEF Sound, TypeOK
    <3>2. RunSound(t)
      BY <3>1 DEF Sound
    <3>3. \A f \in t.fills : f.old # x
      BY <1>3, <3>2 DEF RunSound, Draft, FillsBlank, IsIn, LeadLines
    <3>4. x \in View(t)
      BY <2>1, <3>2, <3>3, ViewIs DEF RunSound, Draft
    <3>5. QED
      BY <2>7, <3>1, <3>4 DEF Commits
  <2>8. UNCHANGED vars => x \in rows'
    BY <2>1 DEF vars
  <2>9. x \in rows' \/ \E y \in rows' : ~y.revoked /\ y.line = x.line
    BY <1>3, <2>1, <2>3, <2>4, <2>5, <2>6, <2>7, <2>8, RowsKept DEF Next
  <2>10. QED
    BY <1>3, <2>2, <2>9 DEF Live, IsIn
<1>4. CASE ~Tombstones /\ marks'.lastOut = marks.lastOut
  <2>1. CASE marks.lastOut = 0
    BY <1>4, <2>1 DEF OutBacked
  <2>2. ASSUME NEW x \in Live, ~IsIn(x), marks.lastOut <= at[x.line] PROVE OutBacked'
    <3>1. PICK y \in Live' : ~IsIn(y) /\ y.line = x.line
      BY <1>3, <1>4, <2>2
    <3>2. at'[y.line] = at[x.line]
      BY <1>1, <3>1 DEF Live
    <3>3. QED
      BY <1>4, <2>2, <3>1, <3>2 DEF OutBacked, IsIn
  <2>3. QED
    BY <2>1, <2>2 DEF OutBacked
<1>5. ASSUME NEW l \in Lines, Records(l), rows' = rows \cup {SentRow(l)},
             marks'.lastOut = at[l]
      PROVE  OutBacked'
  <2>1. SentRow(l) \in Live' /\ SentRow(l).line = l
    BY <1>5 DEF Live, SentRow
  <2>2. ~IsIn(SentRow(l)) /\ at' = at /\ at[l] \in Nat
    BY <1>5, TranscriptAssumption, LinesSaid DEF Records, SentRow, IsIn, OurLines
  <2>3. at[l] <= at'[l]
    BY <2>2
  <2>4. QED
    BY <1>5, <2>1, <2>2, <2>3 DEF OutBacked, IsIn
<1>6. ASSUME NEW r \in Readers, Commits(r), marks'.lastOut # marks.lastOut
      PROVE  OutBacked'
  <2>1. /\ marks'.lastOut = run[r].marks.lastOut
        /\ run[r].marks.lastOut # run[r].seen.lastOut
    BY <1>6 DEF Commits, Written, Sound, TypeOK, Marks
  <2>2. PICK y \in run[r].new : y.line \in OurLines /\ at[y.line] = run[r].marks.lastOut
    BY <2>1 DEF Sound, RunSound, MarksFit
  <2>3. ~y.revoked
    BY DEF Sound, RunSound, Draft, FromPage
  <2>4. y \in Live' /\ at' = at
    BY <1>6, <2>3 DEF Commits, View, Live
  <2>5. ~IsIn(y)
    BY <2>2, TranscriptAssumption DEF IsIn
  <2>6. at[y.line] <= at'[y.line]
    BY <2>4, LinesSaid
  <2>7. QED
    BY <2>1, <2>2, <2>4, <2>5, <2>6 DEF OutBacked, IsIn
<1>7. \/ marks'.lastOut = marks.lastOut
      \/ \E l \in Lines : Records(l) /\ rows' = rows \cup {SentRow(l)}
                          /\ marks'.lastOut = at[l]
      \/ \E r \in Readers : Commits(r)
      \/ Tombstones
  <2>1. \/ marks' = marks
        \/ \E r \in Readers : Commits(r)
        \/ Tombstones
        \/ \E l \in Lines : Records(l)
        \/ \E x \in rows : Erases(x)
    BY DEF Next, vars, Ticks, Moves, EraserDies, Says, LosesHook,
       Delivers, SenderDies, StartPoll, StartHook, Opens, Aborts,
       AsksUnsend, GivesUp, Revokes, RevokesNextDoor, RevokeFails
  <2>2. marks \in Marks
    BY DEF Sound, TypeOK
  <2>3. QED
    BY <2>1, <2>2 DEF Records, Erases, Marks
<1>8. QED
  BY <1>2, <1>4, <1>5, <1>6, <1>7

\* A line of the lead after which nothing of ours is left in the chat is one
\* the thread shows as unanswered: what the thread remembers of ours is an
\* older live row, and what it remembers of the lead is that line or a newer one.
THEOREM AlwaysOwed == Spec => []OwesAnswer
<1>1. Init => OutBacked /\ Whole /\ InOrder
  BY DEF Init, OutBacked, Unmarked, Whole, InOrder, InMarked, InBacked, Downward,
     SeenBehind, NewsAlike, NoRun
<1>2. Sound /\ OutBacked /\ [Next]_vars => OutBacked'
  BY OutStep
<1>3. Sound /\ Staffed /\ Whole /\ [Next]_vars => Whole'
  BY WholeStep
<1>4. Sound /\ Plain /\ Told /\ Staffed /\ IdsFit /\ Alike /\ Whole /\ InOrder
        /\ [Next]_vars => InOrder'
  BY OrderStep
<1>5. Sound /\ OutBacked /\ InOrder => OwesAnswer
  <2> SUFFICES ASSUME Sound, OutBacked, InOrder, Calm, NEW x \in Live, Unanswered(x)
               PROVE  marks.lastIn > marks.lastOut
    BY DEF OwesAnswer, Calm, Steady
  <2>1. x \in rows /\ at[x.line] \in Nat /\ at[x.line] # 0
    BY LinesSaid DEF Live
  <2>2. at[x.line] <= marks.lastIn
    BY <2>1 DEF InOrder, InMarked, Unanswered
  <2>3. marks.lastIn \in Nat /\ marks.lastOut \in Nat
    BY LinesSaid
  <2>4. CASE marks.lastOut = 0
    BY <2>1, <2>2, <2>3, <2>4
  <2>5. ASSUME NEW y \in Live, ~IsIn(y), marks.lastOut <= at[y.line]
        PROVE  marks.lastIn > marks.lastOut
    <3>1. at[y.line] < at[x.line] /\ at[y.line] \in Nat
      BY <2>5, LinesSaid DEF Unanswered, Live
    <3>2. QED
      BY <2>1, <2>2, <2>3, <2>5, <3>1
  <2>6. QED
    BY <2>4, <2>5 DEF OutBacked
<1>6. QED
  BY <1>1, <1>2, <1>3, <1>4, <1>5, TranscriptSound, AlwaysAlike, AlwaysTold, PTL DEF Spec
==============================================================================
