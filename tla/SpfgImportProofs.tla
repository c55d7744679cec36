-------------------------- MODULE SpfgImportProofs --------------------------
(***************************************************************************)
(* Letter by letter the reader comes to what loading a saved grid as a     *)
(* whole comes to.  SpfgBlockProofs has followed the text up to a block;   *)
(* here blocks make arrays, and arrays make the grid.  An array is left at *)
(* the item at which SpfgDocument says that loading gives up, and then     *)
(* nothing that follows is read.                                           *)
(*                                                                         *)
(* The invariant that comes of it is that the letters that are left take   *)
(* the reader, from where it is, to what Import says of the document.      *)
(***************************************************************************)
EXTENDS SpfgBlockProofs

-----------------------------------------------------------------------------
(* Arrays of blocks *)

\* A comma between two blocks.
LEMMA ItemComma ==
  ASSUME NEW L, Context(L), Last(L.stack) = "ARRAY", Len(L.stack) <= Depth,
         NEW a, NEW s, Settled(a, L, s)
  PROVE  \E b : Reads(Comma1, a, b) /\ AtItem(b, L, "VA", s)
<1> DEFINE l == Mark(",")
           p == a.now.parser
           q == [state |-> "VA", stack |-> L.stack, token |-> Token(p.state, "VA"), lex |-> p.lex]
<1>1. /\ ~a.off /\ a.now.store = s /\ Loose(a.now, L) /\ a.now.trail.key = NoKey
      /\ p.state = "OK" /\ p.stack = L.stack
  BY DEF Settled
<1>2. l.c = "," /\ Comma1 = <<l>>
  BY Marks DEF Comma1, CommaIf
<1>3. Taken(p, l.c, "VA", L.stack)
  BY <1>1, <1>2 DEF Taken, Ending
<1> HIDE DEF l
<1>4. Only(Parsed(p, l), q)
  <2> HIDE DEF p
  <2> QED
    BY <1>3, RuleParsed
<1>5. q.state = "VA" /\ q.stack = L.stack /\ q.token = "NO"
  BY <1>1 DEF Token, ValueToken
<1> HIDE DEF q
<1>6. Len(q.stack) = Len(L.stack) /\ Len(q.stack) <= Len(a.now.parser.stack)
  <2>1. Len(L.stack) \in Nat
    BY StackInside
  <2> QED
    BY <1>1, <1>5, <2>1
<1>7. PICK b : /\ Reads(<<l>>, a, b) /\ ~b.off /\ b.now.parser = q
               /\ b.now.store = a.now.store /\ Exact(b.now, L)
               /\ b.now.trail.key = a.now.trail.key
  BY <1>1, <1>4, <1>5, <1>6, QuietOn
<1>8. AtItem(b, L, "VA", s)
  BY <1>1, <1>5, <1>7 DEF AtItem
<1> QED
  BY <1>2, <1>7, <1>8

\* The bracket behind the last block, or behind the first bracket.
LEMMA ListCloses ==
  ASSUME NEW F, Context(F), Len(F.stack) <= Depth, NEW key, NEW node, NEW i,
         NEW L, L = Listed(F, key, node, i),
         NEW a, NEW s, Settled(a, L, s) \/ AtItem(a, L, "AR", s)
  PROVE  \E b : Reads(<<Mark("]")>>, a, b) /\ Settled(b, F, s)
<1> DEFINE l == Mark("]")
           p == a.now.parser
           q == [state |-> "OK", stack |-> F.stack, token |-> Token(p.state, "OK"), lex |-> p.lex]
<1>1. /\ Context(L) /\ Last(L.stack) = "ARRAY" /\ Front(L.stack) = F.stack
      /\ Len(F.stack) \in Nat /\ Len(L.stack) = Len(F.stack) + 1
  BY ListedFacts
<1>2. /\ ~a.off /\ a.now.store = s /\ Loose(a.now, L) /\ a.now.trail.key = NoKey
      /\ p.state \in {"OK", "AR"} /\ p.stack = L.stack
  BY <1>1, ExactIsLoose DEF Settled, AtItem
<1>3. L = Inside(F, "ARRAY", Row(key, i), Lev(node, Place(F, key))) /\ Row(key, i).type # "LEAF"
  BY Zenon DEF Listed, Row
<1>4. Loose(a.now, F)
  BY <1>2, <1>3, LooseBelow
<1>5. Taken(p, l.c, "OK", F.stack)
  <2>1. l.c = "]"
    BY Marks
  <2> QED
    BY <1>1, <1>2, <2>1 DEF Taken, Ending
<1> HIDE DEF l
<1>6. Only(Parsed(p, l), q)
  <2> HIDE DEF p
  <2> QED
    BY <1>5, RuleParsed
<1>7. q.state = "OK" /\ q.stack = F.stack /\ q.token = "NO"
  BY <1>2 DEF Token, ValueToken
<1> HIDE DEF q
<1>8. Len(q.stack) = Len(F.stack) /\ Len(q.stack) <= Len(a.now.parser.stack)
  BY <1>1, <1>2, <1>7
<1>9. PICK b : /\ Reads(<<l>>, a, b) /\ ~b.off /\ b.now.parser = q
               /\ b.now.store = a.now.store /\ Exact(b.now, F)
               /\ b.now.trail.key = a.now.trail.key
  BY <1>2, <1>4, <1>6, <1>7, <1>8, QuietOn
<1>10. Loose(b.now, F)
  BY <1>9, ExactIsLoose
<1>11. Settled(b, F, s)
  BY <1>2, <1>7, <1>9, <1>10 DEF Settled
<1> QED
  BY <1>9, <1>11 DEF l

\* After a comma the bracket is refused, and after a block another one.
LEMMA ListRefused ==
  ASSUME NEW L, NEW a, NEW s, AtItem(a, L, "VA", s)
  PROVE  \E b : Reads(<<Mark("]")>>, a, b) /\ Held(b, s)
<1> DEFINE l == Mark("]")
<1>1. ~a.off /\ a.now.store = s /\ a.now.parser.state = "VA"
  BY DEF AtItem
<1>2. l.c = "]"
  BY Marks
<1> HIDE DEF l
<1>3. Outcome(a.now, l) = {}
  BY <1>1, <1>2, NotParsed, NoOutcome
<1>4. \E b : Reads(<<l>>, a, b) /\ Held(b, s)
  BY <1>1, <1>3, Refuses
<1> QED
  BY <1>4 DEF l

\* Behind a block without a comma no other one may open.
LEMMA BlockRefused ==
  ASSUME NEW L, NEW a, NEW s, Settled(a, L, s), NEW X, IsSeq(X)
  PROVE  \E b : Reads(<<Mark("{")>> \o X, a, b) /\ Held(b, s)
<1> DEFINE l == Mark("{")
<1>1. ~a.off /\ a.now.store = s /\ a.now.parser.state = "OK"
  BY DEF Settled
<1>2. l.c = "{"
  BY Marks
<1> HIDE DEF l
<1>3. Outcome(a.now, l) = {}
  BY <1>1, <1>2, NotParsed, NoOutcome
<1>4. PICK b : Reads(<<l>>, a, b) /\ Held(b, s)
  BY <1>1, <1>3, Refuses
<1>5. Reads(<<l>> \o X, a, b)
  BY <1>4, MoreHeld
<1> QED
  BY <1>4, <1>5 DEF l

\* The text of a block begins with its brace.
LEMMA SeqJoin ==
  /\ \A X, Y : IsSeq(X) /\ IsSeq(Y) => IsSeq(X \o Y)
  /\ \A c : IsSeq(<<Mark(c)>>)
  /\ IsSeq(Comma1) /\ IsSeq(<<>>)
  /\ \A b \in BOOLEAN : IsSeq(CommaIf(b))
<1>1. ASSUME NEW X, NEW Y, IsSeq(X), IsSeq(Y) PROVE IsSeq(X \o Y)
  <2>1. PICK S, T : X \in Seq(S) /\ Y \in Seq(T)
    BY <1>1 DEF IsSeq
  <2>2. X \in Seq(S \cup T) /\ Y \in Seq(S \cup T)
    BY <2>1
  <2>3. X \o Y \in Seq(S \cup T)
    BY <2>2
  <2> QED
    BY <2>3 DEF IsSeq
<1>2. \A x : IsSeq(<<x>>)
  <2> TAKE x
  <2>1. <<x>> \in Seq({x})
    OBVIOUS
  <2> QED
    BY <2>1 DEF IsSeq
<1>3. IsSeq(<<>>)
  <2>1. <<>> \in Seq({})
    OBVIOUS
  <2> QED
    BY <2>1 DEF IsSeq
<1>4. Comma1 = <<Mark(",")>>
  BY DEF Comma1, CommaIf
<1>5. \A b \in BOOLEAN : CommaIf(b) = <<>> \/ CommaIf(b) = <<Mark(",")>>
  BY DEF CommaIf
<1> QED
  BY <1>1, <1>2, <1>3, <1>4, <1>5

\* A text with one more member is a sequence of letters.
LEMMA MemberSeq ==
  ASSUME NEW X, IsSeq(X), NEW key, NEW Y, IsSeq(Y)
  PROVE  IsSeq(X \o Comma1 \o Key(key) \o Y)
<1>1. IsSeq(Key(key))
  <2>1. Key(key) \in Seq({Quote(key), Quote(Unknown), Mark(":")})
    BY DEF Key, Str
  <2> QED
    BY <2>1 DEF IsSeq
<1> QED
  BY <1>1, SeqJoin

\* So is the text between the braces of a block.
LEMMA MembersSeq ==
  ASSUME NEW A \in {"fns", "dps"}, NEW block \in BlocksOf(A)
  PROVE  IsSeq(MembersOf(A, block))
<1>1. ASSUME NEW n \in Int PROVE IsSeq(Key("id") \o Number(n))
  <2>1. Key("id") \in Seq({Quote("id"), Quote(Unknown), Mark(":")})
    BY DEF Key, Str
  <2>2. IsSeq(Key("id"))
    BY <2>1 DEF IsSeq
  <2> QED
    BY <2>2, SeqJoin, Texts1
<1>2. CASE A = "fns"
  <2>1. block \in DocFns
    BY <1>2 DEF BlocksOf
  <2>2. /\ block.id \in Int /\ block.type \in Int /\ block.phase \in PhaseNumbers
        /\ block.in \in Seq(Int) /\ block.out \in Seq(Int)
    BY <2>1 DEF DocFns, IdArrays
  <2>3. IsSeq(Key("id") \o Number(block.id))
    BY <1>1, <2>2
  <2>4. /\ IsSeq(Str("f")) /\ IsSeq(Number(block.type)) /\ IsSeq(PhaseText(block.phase))
        /\ IsSeq(IdsText(block.in)) /\ IsSeq(IdsText(block.out))
    BY <2>2, Texts1, Texts2
  <2>5. IsSeq(Key("id") \o Number(block.id)
              \o Comma1 \o Key("name") \o Str("f") \o Comma1 \o Key("type") \o Number(block.type))
    BY <2>3, <2>4, MemberSeq
  <2>6. IsSeq(FnMembers(block))
    BY <2>4, <2>5, MemberSeq DEF FnMembers
  <2> QED
    BY <1>2, <2>6 DEF MembersOf
<1>3. CASE A = "dps"
  <2>1. block \in DocDps
    BY <1>3 DEF BlocksOf
  <2>2. block.id \in Int /\ block.emitted \in BOOLEAN
    BY <2>1 DEF DocDps
  <2>3. IsSeq(Key("id") \o Number(block.id))
    BY <1>1, <2>2
  <2>4. /\ IsSeq(Str("d")) /\ IsSeq(Code(block.type)) /\ IsSeq(ValueText(block))
        /\ IsSeq(Word(block.emitted))
    BY <2>1, <2>2, Texts1, Texts2
  <2>5. IsSeq(Key("id") \o Number(block.id)
              \o Comma1 \o Key("name") \o Str("d") \o Comma1 \o Key("type") \o Code(block.type))
    BY <2>3, <2>4, MemberSeq
  <2>6. IsSeq(DpMembers(block))
    BY <2>4, <2>5, MemberSeq DEF DpMembers
  <2> QED
    BY <1>3, <2>6 DEF MembersOf
<1> QED
  BY <1>2, <1>3

\* So it has no place right after a block.
LEMMA NextRefused ==
  ASSUME NEW L, NEW a, NEW s, Settled(a, L, s), NEW A \in {"fns", "dps"},
         NEW block \in BlocksOf(A)
  PROVE  \E b : Reads(TextOf(A, block), a, b) /\ Held(b, s)
<1> DEFINE X == MembersOf(A, block)
<1>1. TextOf(A, block) = <<Mark("{")>> \o X \o <<Mark("}")>>
  <2>1. FnText(block) = Braces(FnMembers(block)) /\ DpText(block) = Braces(DpMembers(block))
    BY DEF FnText, FnMembers, DpText, DpMembers
  <2> QED
    BY <2>1 DEF TextOf, MembersOf, Braces
<1>2. IsSeq(X) /\ IsSeq(<<Mark("}")>>)
  BY MembersSeq, SeqJoin
<1> HIDE DEF X
<1>3. PICK b : Reads(<<Mark("{")>> \o X, a, b) /\ Held(b, s)
  BY <1>2, BlockRefused
<1>4. Reads(<<Mark("{")>> \o X \o <<Mark("}")>>, a, b)
  BY <1>2, <1>3, MoreHeld
<1> QED
  BY <1>1, <1>3, <1>4

-----------------------------------------------------------------------------
(* The blocks that have been read *)

\* What comes back of item k, and what the first j items leave in the store.
Got(A, items, k) == IF k = Room(A) THEN IdOnly(A, items[k].block) ELSE Back(A, items[k].block)
Filled(s, t, A, items, j) ==
  /\ Count(t, <<A>>) = j
  /\ \A k \in 1..j : SlotRead(A, t, k) = Got(A, items, k)
  /\ \A x : x # <<A>> /\ (\A k \in 1..j : ~Inner(x, <<A>>, k)) => Same(s, t, x)

\* Before the first block nothing has been filled.
LEMMA FilledNone ==
  ASSUME NEW s, NEW A, NEW items, Count(s, <<A>>) = 0
  PROVE  Filled(s, s, A, items, 0)
BY DEF Filled, Same

\* One more block fills one more slot.
LEMMA FilledOn ==
  ASSUME NEW s, NEW t, NEW u, NEW A \in {"fns", "dps"}, NEW items, NEW j \in Nat,
         Filled(s, t, A, items, j), Written(t, u, <<A>>, j + 1),
         SlotRead(A, u, j + 1) = Got(A, items, j + 1)
  PROVE  Filled(s, u, A, items, j + 1)
<1>1. IsSeq(<<A>>)
  BY SlotAddresses
<1>2. Count(u, <<A>>) = j + 1
  BY DEF Written
<1>3. ASSUME NEW k \in 1..j PROVE SlotRead(A, u, k) = Got(A, items, k)
  <2>1. SameIn(t, u, <<A>>, k)
    <3> SUFFICES ASSUME NEW x, Inner(x, <<A>>, k) PROVE Same(t, u, x)
      BY DEF SameIn
    <3>1. k # j + 1
      OBVIOUS
    <3>2. x # <<A>> /\ ~Inner(x, <<A>>, j + 1)
      BY <1>1, <3>1, InnerFacts
    <3> QED
      BY <3>2 DEF Written
  <2>2. SlotRead(A, t, k) = SlotRead(A, u, k)
    BY <2>1, SameBack
  <2>3. SlotRead(A, t, k) = Got(A, items, k)
    BY DEF Filled
  <2> QED
    BY <2>2, <2>3
<1>4. ASSUME NEW k \in 1..j + 1 PROVE SlotRead(A, u, k) = Got(A, items, k)
  <2>1. k \in 1..j \/ k = j + 1
    OBVIOUS
  <2> QED
    BY <1>3, <2>1
<1>5. ASSUME NEW x, x # <<A>>, \A k \in 1..j + 1 : ~Inner(x, <<A>>, k) PROVE Same(s, u, x)
  <2>1. ~Inner(x, <<A>>, j + 1) /\ \A k \in 1..j : ~Inner(x, <<A>>, k)
    BY <1>5
  <2>2. Same(s, t, x)
    BY <1>5, <2>1 DEF Filled
  <2>3. Same(t, u, x)
    BY <1>5, <2>1 DEF Written
  <2> QED
    BY <2>2, <2>3, SameOn
<1> QED
  BY <1>2, <1>4, <1>5 DEF Filled

\* A slot that has not been reached is as fresh as it was.
LEMMA FilledFresh ==
  ASSUME NEW s, NEW t, NEW A \in {"fns", "dps"}, NEW items, NEW j \in Nat,
         Filled(s, t, A, items, j), NEW i \in Nat, i > j, Fresh(s, <<A>>, i)
  PROVE  Fresh(t, <<A>>, i)
<1>1. IsSeq(<<A>>)
  BY SlotAddresses
<1> SUFFICES ASSUME NEW x, Inner(x, <<A>>, i) PROVE x \notin DOMAIN t
  BY DEF Fresh
<1>2. x # <<A>> /\ \A k : k # i => ~Inner(x, <<A>>, k)
  BY <1>1, InnerFacts
<1>3. \A k \in 1..j : ~Inner(x, <<A>>, k)
  BY <1>2
<1>4. Same(s, t, x)
  BY <1>2, <1>3 DEF Filled
<1>5. x \notin DOMAIN s
  BY DEF Fresh
<1> QED
  BY <1>4, <1>5 DEF Same

-----------------------------------------------------------------------------
(* Item by item *)

\* The first item at which loading gives up.
Fails(items, A, k) == /\ k \in GivesUp(items, Room(A))
                      /\ \A m \in GivesUp(items, Room(A)) : k <= m

\* The reader has stopped at one of the first j items, or it is behind item j.
Stopped(a, A, s, items, j) ==
  \E k, t : Fails(items, A, k) /\ k <= j /\ Held(a, t) /\ Filled(s, t, A, items, k)
Behind1(a, G, A, t, items, j) ==
  \/ j = 0 /\ AtItem(a, At1(G, A, j), "AR", t)
  \/ j # 0 /\ items[j].comma /\ AtItem(a, At1(G, A, j), "VA", t)
  \/ j # 0 /\ ~items[j].comma /\ Settled(a, At1(G, A, j), t)
Reached(a, G, A, s, items, j) ==
  /\ j < Room(A) /\ \A k \in 1..j - 1 : k \notin GivesUp(items, Room(A))
  /\ \E t : Filled(s, t, A, items, j) /\ Behind1(a, G, A, t, items, j)

\* The items of a document.
ItemsIn(A, items, n) ==
  /\ n \in Nat /\ Len(items) = n /\ DOMAIN items = 1..n
  /\ \A k \in 1..n : items[k].block \in BlocksOf(A) /\ items[k].comma \in BOOLEAN

\* The items at which loading gives up, one by one.
LEMMA GivesUpAt ==
  ASSUME NEW A, NEW items, NEW n, ItemsIn(A, items, n), NEW k
  PROVE  k \in GivesUp(items, Room(A)) <=>
           k \in 1..n /\ (k = Room(A) \/ items[k].comma # (k < n))
<1>1. n = Len(items) /\ DOMAIN items = 1..n
  BY DEF ItemsIn
<1> QED
  BY <1>1, Zenon DEF GivesUp

\* What the first item to be given up has before it.
LEMMA FailsFirst ==
  ASSUME NEW A, NEW items, NEW n, ItemsIn(A, items, n), NEW k \in GivesUp(items, Room(A)),
         \A m \in 1..k - 1 : m \notin GivesUp(items, Room(A))
  PROVE  Fails(items, A, k)
<1>1. k \in 1..n /\ n \in Nat
  BY GivesUpAt DEF ItemsIn
<1>2. ASSUME NEW m \in GivesUp(items, Room(A)) PROVE k <= m
  <2>1. m \in 1..n
    BY GivesUpAt
  <2>2. m \notin 1..k - 1
    OBVIOUS
  <2> QED
    BY <1>1, <2>1, <2>2
<1> QED
  BY <1>2 DEF Fails

\* One more item, which is there when the reader comes to it.
LEMMA ItemGoes ==
  ASSUME NEW G, GridAt(G), NEW A \in {"fns", "dps"}, NEW s, \A i \in Nat : Fresh(s, <<A>>, i),
         NEW items, NEW n, ItemsIn(A, items, n), NEW j \in 1..n, NEW a,
         Reached(a, G, A, s, items, j - 1)
  PROVE  \E b : /\ Reads(TextOf(A, items[j].block) \o CommaIf(items[j].comma), a, b)
                /\ Stopped(b, A, s, items, j) \/ Reached(b, G, A, s, items, j)
<1> DEFINE i == j - 1
           max == Room(A)
           gone == GivesUp(items, Room(A))
           block == items[j].block
           comma == items[j].comma
           X == TextOf(A, block)
           Y == CommaIf(comma)
<1>1. /\ n \in Nat /\ i \in Nat /\ i + 1 = j /\ j \in Nat /\ j # 0 /\ j - 1 = i
      /\ block \in BlocksOf(A) /\ comma \in BOOLEAN
  BY DEF ItemsIn
<1>2. max \in Nat
  BY BlockLists DEF Room
<1>3. PICK t : Filled(s, t, A, items, i) /\ Behind1(a, G, A, t, items, i)
  BY DEF Reached
<1>4. i < max /\ \A k \in 1..i - 1 : k \notin gone
  BY DEF Reached
<1>5. IsSeq(Y)
  BY <1>1, SeqJoin
<1>6. CASE i # 0 /\ ~items[i].comma
  <2>1. Settled(a, At1(G, A, i), t)
    BY <1>3, <1>6 DEF Behind1
  <2>2. PICK b : Reads(X, a, b) /\ Held(b, t)
    <3> HIDE DEF block
    <3> QED
      BY <1>1, <2>1, NextRefused
  <2>3. i \in 1..n /\ (items[i].comma # (i < n))
    <3>1. i \in 1..n /\ i < n
      BY <1>1, <1>6
    <3> QED
      BY <1>6, <3>1
  <2>4. i \in gone
    BY <2>3, GivesUpAt
  <2>5. Fails(items, A, i)
    BY <1>4, <2>4, FailsFirst
  <2>6. Stopped(b, A, s, items, j)
    <3>1. i <= j
      BY <1>1
    <3> HIDE DEF i
    <3> QED
      BY <1>3, <2>2, <2>5, <3>1 DEF Stopped
  <2> HIDE DEF X, Y
  <2>7. Reads(X \o Y, a, b)
    BY <1>5, <2>2, MoreHeld
  <2> QED
    BY <2>6, <2>7 DEF X, Y
<1>7. CASE i = 0 \/ items[i].comma
  <2>1. PICK st \in {"AR", "VA"} : AtItem(a, At1(G, A, i), st, t)
    BY <1>3, <1>7 DEF Behind1
  <2>2. Fresh(t, <<A>>, i + 1)
    <3>1. i + 1 > i /\ i + 1 \in Nat
      BY <1>1
    <3>2. Fresh(s, <<A>>, i + 1)
      BY <3>1
    <3> HIDE DEF i
    <3> QED
      BY <1>1, <1>3, <3>1, <3>2, FilledFresh
  <2>3. Count(t, <<A>>) = i
    BY <1>3 DEF Filled
  <2>4. PICK w, u :
          /\ Reads(X, a, w) /\ Written(t, u, <<A>>, i + 1)
          /\ i + 1 < max => Settled(w, At1(G, A, i + 1), u) /\ SlotRead(A, u, i + 1) = Back(A, block)
          /\ i + 1 = max => Held(w, u) /\ SlotRead(A, u, i + 1) = IdOnly(A, block)
    <3>1. block \in BlocksOf(A) /\ i \in Nat /\ i < Room(A)
      BY <1>1, <1>4
    <3> HIDE DEF i, block
    <3>2. BeforeBlock(a, G, A, i, t)
      BY <2>1, <2>2, <2>3, <3>1, Zenon DEF BeforeBlock
    <3>3. PICK w, u : Reads(TextOf(A, block), a, w) /\ BehindBlock(w, G, A, i, t, u, block)
      BY <3>1, <3>2, BlockReads
    <3> QED
      BY <3>3 DEF BehindBlock
  <2>5. \A k \in 1..j - 1 : k \notin gone
    <3> SUFFICES ASSUME NEW k \in 1..j - 1, k \in gone PROVE FALSE
      OBVIOUS
    <3>1. k = i /\ i # 0
      BY <1>1, <1>4
    <3>2. items[i].comma
      BY <1>7, <3>1
    <3>3. i < n /\ i # max
      BY <1>1, <1>4
    <3>4. i \in gone
      BY <3>1
    <3>5. i = Room(A) \/ items[i].comma # (i < n)
      BY <3>4, GivesUpAt
    <3>6. items[i].comma \in BOOLEAN
      BY <1>1, <3>1 DEF ItemsIn
    <3>7. (i < n) = TRUE /\ items[i].comma = TRUE
      BY <3>2, <3>3, <3>6, Zenon
    <3> QED
      BY <3>3, <3>5, <3>7
  <2>6. CASE j = max
    <3>1. Held(w, u) /\ SlotRead(A, u, j) = IdOnly(A, block)
      BY <1>1, <2>4, <2>6
    <3>2. SlotRead(A, u, j) = Got(A, items, j)
      BY <2>6, <3>1, Zenon DEF Got
    <3>3. Filled(s, u, A, items, j)
      <4>1. SlotRead(A, u, i + 1) = Got(A, items, i + 1)
        BY <1>1, <3>2
      <4> HIDE DEF i
      <4>2. Filled(s, u, A, items, i + 1)
        BY <1>1, <1>3, <2>4, <4>1, FilledOn
      <4> QED
        BY <1>1, <4>2
    <3>4. j \in gone
      BY <2>6, GivesUpAt
    <3>5. Fails(items, A, j)
      BY <2>5, <3>4, FailsFirst
    <3>6. Stopped(w, A, s, items, j)
      BY <3>1, <3>3, <3>5, <1>1 DEF Stopped
    <3>7. Reads(X \o Y, a, w)
      <4> HIDE DEF X, Y
      <4> QED
        BY <1>5, <2>4, <3>1, MoreHeld
    <3> QED
      BY <3>6, <3>7
  <2>7. CASE j # max
    <3>1. j < max
      BY <1>1, <1>2, <1>4, <2>7
    <3>2. Settled(w, At1(G, A, j), u) /\ SlotRead(A, u, j) = Back(A, block)
      BY <1>1, <2>4, <3>1
    <3>3. SlotRead(A, u, j) = Got(A, items, j)
      BY <2>7, <3>2, Zenon DEF Got
    <3>4. Filled(s, u, A, items, j)
      <4>1. SlotRead(A, u, i + 1) = Got(A, items, i + 1)
        BY <1>1, <3>3
      <4> HIDE DEF i
      <4>2. Filled(s, u, A, items, i + 1)
        BY <1>1, <1>3, <2>4, <4>1, FilledOn
      <4> QED
        BY <1>1, <4>2
    <3>5. CASE comma
      <4>1. Y = Comma1
        <5>1. comma = TRUE
          BY <1>1, <3>5
        <5> QED
          BY <5>1, Zenon DEF Comma1
      <4>2. /\ Context(At1(G, A, j)) /\ Last(At1(G, A, j).stack) = "ARRAY"
            /\ Len(At1(G, A, j).stack) <= Depth
        <5>1. Context(G) /\ Len(G.stack) \in Nat /\ Len(G.stack) + 1 <= Depth
          BY StackInside, DepthAssumption DEF GridAt, ObjectOpen
        <5> QED
          BY <5>1, ListedFacts DEF At1
      <4>3. PICK b : Reads(Comma1, w, b) /\ AtItem(b, At1(G, A, j), "VA", u)
        BY <3>2, <4>2, ItemComma
      <4>4. Reads(X \o Y, a, b)
        <5> HIDE DEF X, Y
        <5> QED
          BY <2>4, <4>1, <4>3, Then
      <4>5. Reached(b, G, A, s, items, j)
        <5>1. Behind1(b, G, A, u, items, j)
          BY <1>1, <3>5, <4>3 DEF Behind1
        <5> QED
          BY <2>5, <3>1, <3>4, <5>1 DEF Reached
      <4> QED
        BY <4>4, <4>5
    <3>6. CASE ~comma
      <4>1. Y = <<>>
        <5>1. comma = FALSE
          BY <1>1, <3>6
        <5> QED
          BY <5>1, Zenon DEF CommaIf
      <4>2. Reads(<<>>, w, w)
        BY NoStep DEF Reads
      <4>3. Reads(X \o Y, a, w)
        <5> HIDE DEF X, Y
        <5> QED
          BY <2>4, <4>1, <4>2, Then
      <4>4. Reached(w, G, A, s, items, j)
        <5>1. Behind1(w, G, A, u, items, j)
          BY <1>1, <3>2, <3>6 DEF Behind1
        <5> QED
          BY <2>5, <3>1, <3>4, <5>1 DEF Reached
      <4> QED
        BY <4>3, <4>4
    <3> QED
      BY <3>5, <3>6
  <2> QED
    BY <2>6, <2>7
<1> QED
  BY <1>6, <1>7

\* One more item.
LEMMA ItemReads ==
  ASSUME NEW G, GridAt(G), NEW A \in {"fns", "dps"}, NEW s, \A i \in Nat : Fresh(s, <<A>>, i),
         NEW items, NEW n, ItemsIn(A, items, n), NEW j \in 1..n, NEW a,
         Stopped(a, A, s, items, j - 1) \/ Reached(a, G, A, s, items, j - 1)
  PROVE  \E b : /\ Reads(TextOf(A, items[j].block) \o CommaIf(items[j].comma), a, b)
                /\ Stopped(b, A, s, items, j) \/ Reached(b, G, A, s, items, j)
<1> DEFINE X == TextOf(A, items[j].block) \o CommaIf(items[j].comma)
<1>1. CASE Stopped(a, A, s, items, j - 1)
  <2>1. PICK k, t : /\ Fails(items, A, k) /\ k <= j - 1 /\ Held(a, t)
                    /\ Filled(s, t, A, items, k)
    BY <1>1 DEF Stopped
  <2>2. k \in 1..n /\ n \in Nat
    BY <2>1, GivesUpAt DEF Fails, ItemsIn
  <2>3. k <= j
    BY <2>1, <2>2
  <2>4. Stopped(a, A, s, items, j)
    BY <2>1, <2>3 DEF Stopped
  <2>5. IsSeq(X)
    <3>1. items[j].block \in BlocksOf(A) /\ items[j].comma \in BOOLEAN
      BY DEF ItemsIn
    <3>2. IsSeq(TextOf(A, items[j].block))
      <4>1. TextOf(A, items[j].block) = <<Mark("{")>> \o MembersOf(A, items[j].block) \o <<Mark("}")>>
        <5>1. \A block : /\ FnText(block) = Braces(FnMembers(block))
                         /\ DpText(block) = Braces(DpMembers(block))
          BY DEF FnText, FnMembers, DpText, DpMembers
        <5> QED
          BY <5>1 DEF TextOf, MembersOf, Braces
      <4> QED
        BY <3>1, <4>1, MembersSeq, SeqJoin
    <3> QED
      BY <3>1, <3>2, SeqJoin
  <2>6. Reads(X, a, a)
    <3>1. a.off
      BY <2>1 DEF Held
    <3> HIDE DEF X
    <3> QED
      BY <2>5, <3>1, StaysHeld DEF IsSeq
  <2> QED
    BY <2>4, <2>6
<1>2. CASE Reached(a, G, A, s, items, j - 1)
  BY <1>2, ItemGoes
<1> QED
  BY <1>1, <1>2

\* Behind all of the items, or stopped at the first that was given up.
ItemsDone(b, G, A, s, t, items) ==
  \/ Loads(items, Room(A)) /\ Settled(b, G, t) /\ Filled(s, t, A, items, Len(items))
  \/ \E k : Fails(items, A, k) /\ Held(b, t) /\ Filled(s, t, A, items, k)

\* The bracket behind the items.
LEMMA ItemsClose ==
  ASSUME NEW G, GridAt(G), NEW A \in {"fns", "dps"}, NEW s, NEW items, NEW n,
         ItemsIn(A, items, n), NEW a,
         Stopped(a, A, s, items, n) \/ Reached(a, G, A, s, items, n)
  PROVE  \E b, t : Reads(<<Mark("]")>>, a, b) /\ ItemsDone(b, G, A, s, t, items)
<1> DEFINE gone == GivesUp(items, Room(A))
           close == <<Mark("]")>>
<1>1. IsSeq(close) /\ n \in Nat /\ Len(items) = n
  BY SeqJoin DEF ItemsIn
<1> HIDE DEF close
<1>2. CASE Stopped(a, A, s, items, n)
  <2>1. PICK k, t : Fails(items, A, k) /\ Held(a, t) /\ Filled(s, t, A, items, k)
    BY <1>2 DEF Stopped
  <2>2. Reads(close, a, a)
    BY <1>1, <2>1, StaysHeld DEF IsSeq, Held
  <2> QED
    BY <2>1, <2>2 DEF ItemsDone, close
<1>3. CASE Reached(a, G, A, s, items, n)
  <2>1. PICK t : Filled(s, t, A, items, n) /\ Behind1(a, G, A, t, items, n)
    BY <1>3 DEF Reached
  <2>2. n < Room(A) /\ \A k \in 1..n - 1 : k \notin gone
    BY <1>3 DEF Reached
  <2>3. CASE n # 0 /\ items[n].comma
    <3>1. AtItem(a, At1(G, A, n), "VA", t)
      BY <2>1, <2>3 DEF Behind1
    <3>2. PICK b : Reads(close, a, b) /\ Held(b, t)
      BY <3>1, ListRefused DEF close
    <3>3. n \in gone
      <4>1. n \in 1..n /\ items[n].comma \in BOOLEAN
        BY <1>1, <2>3 DEF ItemsIn
      <4>2. items[n].comma = TRUE /\ (n < n) = FALSE
        <5>1. (n < n) = FALSE
          BY <1>1
        <5>2. items[n].comma = TRUE
          BY <2>3, <4>1, Zenon
        <5> QED
          BY <5>1, <5>2
      <4> QED
        BY <4>1, <4>2, GivesUpAt
    <3>4. Fails(items, A, n)
      BY <2>2, <3>3, FailsFirst
    <3> QED
      BY <2>1, <3>2, <3>4 DEF ItemsDone, close
  <2>4. CASE n = 0 \/ ~items[n].comma
    <3>1. Settled(a, At1(G, A, n), t) \/ AtItem(a, At1(G, A, n), "AR", t)
      BY <2>1, <2>4 DEF Behind1
    <3>2. Context(G) /\ Len(G.stack) <= Depth
      <4>1. Context(G) /\ Len(G.stack) \in Nat /\ Len(G.stack) < Depth
        BY StackInside DEF GridAt, ObjectOpen
      <4> QED
        BY <4>1, DepthAssumption
    <3>3. PICK b : Reads(close, a, b) /\ Settled(b, G, t)
      <4>1. At1(G, A, n) = Listed(G, A, BlockList(A), n)
        BY Zenon DEF At1
      <4> QED
        BY <3>1, <3>2, <4>1, ListCloses DEF close
    <3>4. Loads(items, Room(A))
      <4> SUFFICES ASSUME NEW k \in gone PROVE FALSE
        BY DEF Loads
      <4>1. k \in 1..n /\ (k = Room(A) \/ items[k].comma # (k < n))
        BY GivesUpAt
      <4>2. k = n /\ n # 0
        BY <1>1, <2>2, <4>1
      <4>3. n # Room(A) /\ items[n].comma \in BOOLEAN
        <5>1. Room(A) \in Nat /\ n \in 1..n
          BY <1>1, <4>2, BlockLists DEF Room
        <5> QED
          BY <1>1, <2>2, <5>1 DEF ItemsIn
      <4>4. items[n].comma = FALSE /\ (n < n) = FALSE
        <5>1. (n < n) = FALSE
          BY <1>1
        <5>2. items[n].comma = FALSE
          BY <2>4, <4>2, <4>3, Zenon
        <5> QED
          BY <5>1, <5>2
      <4> QED
        BY <4>1, <4>2, <4>3, <4>4
    <3> QED
      BY <1>1, <2>1, <3>3, <3>4 DEF ItemsDone, close
  <2> QED
    BY <2>3, <2>4
<1> QED
  BY <1>2, <1>3

\* The bracket in front of the items.
LEMMA ItemsOpen ==
  ASSUME NEW G, GridAt(G), NEW A \in {"fns", "dps"}, NEW s, NEW v, AtValue(v, G, A, s),
         Count(s, <<A>>) = 0, NEW items
  PROVE  \E a : Reads(<<Mark("[")>>, v, a) /\ Reached(a, G, A, s, items, 0)
<1>1. ListIn(G, A, BlockList(A))
  <2>1. Kid(RootSpec, "ARRAY", A, "NO", BlockList(A))
    BY GridKids
  <2>2. Only(Part(G.levels[Len(G.stack)].node, Named("ARRAY", A), "NO"), BlockList(A))
    BY <2>1 DEF Kid, GridAt
  <2>3. ObjectOpen(G) /\ Len(G.stack) + 1 < Depth /\ A # NoKey
    <3>1. Context(G) /\ ObjectOpen(G) /\ Len(G.stack) \in Nat /\ Len(G.stack) + 3 < Depth
      BY StackInside DEF GridAt, ObjectOpen
    <3> QED
      BY <3>1, DepthAssumption, BlockLists
  <2> QED
    BY <2>2, <2>3 DEF ListIn
<1>2. PICK a : Reads(<<Mark("[")>>, v, a) /\ AtItem(a, Listed(G, A, BlockList(A), 0), "AR", s)
  BY <1>1, ListOpens
<1>3. Behind1(a, G, A, s, items, 0)
  BY <1>2 DEF Behind1, At1
<1>4. 0 < Room(A)
  BY BlockLists DEF Room
<1>5. Reached(a, G, A, s, items, 0)
  BY <1>3, <1>4, FilledNone DEF Reached
<1> QED
  BY <1>2, <1>5

\* An array of blocks, from the first bracket to the last.
LEMMA ItemsRead ==
  ASSUME NEW G, GridAt(G), NEW A \in {"fns", "dps"}, NEW s, NEW v, AtValue(v, G, A, s),
         Count(s, <<A>>) = 0, \A i \in Nat : Fresh(s, <<A>>, i),
         NEW items, NEW n, ItemsIn(A, items, n),
         NEW texts, \A k \in 1..n : texts[k] = TextOf(A, items[k].block)
  PROVE  \E w, t : Reads(ItemsText(items, texts), v, w) /\ ItemsDone(w, G, A, s, t, items)
<1> DEFINE part(k) == TextOf(A, items[k].block) \o CommaIf(items[k].comma)
           parts == [k \in 1..n |-> part(k)]
           S == {parts[k] : k \in 1..n}
           Comes1(b, k) == Stopped(b, A, s, items, k) \/ Reached(b, G, A, s, items, k)
<1>1. n \in Nat /\ DOMAIN items = 1..n
  BY DEF ItemsIn
<1>2. ItemsText(items, texts) = Brackets(FlattenSeq(parts))
  <2>1. [k \in 1..n |-> texts[k] \o CommaIf(items[k].comma)] = parts
    OBVIOUS
  <2> QED
    BY <1>1, <2>1, Zenon DEF ItemsText
<1>3. PICK a : Reads(<<Mark("[")>>, v, a) /\ Reached(a, G, A, s, items, 0)
  BY ItemsOpen
<1>4. parts \in Seq(S) /\ Len(parts) = n /\ \A k \in 1..n : parts[k] = part(k)
  <2>1. parts = [k \in 1..n |-> parts[k]] /\ \A k \in 1..n : parts[k] = part(k)
    OBVIOUS
  <2>2. n \in Nat
    BY <1>1
  <2> HIDE DEF parts, part
  <2>3. parts \in Seq({parts[k] : k \in 1..n}) /\ Len(parts) = n
    BY ONLY <2>1, <2>2, PiecesAreSeq
  <2> QED
    BY <2>1, <2>3, Zenon DEF S
<1>5. ASSUME NEW k \in 1..n, NEW c, Comes1(c, k - 1)
      PROVE  \E b : Reads(part(k), c, b) /\ Comes1(b, k)
  BY <1>5, ItemReads
<1>6. Comes1(a, 0)
  BY <1>3
<1> HIDE DEF parts, part, S, Comes1
<1>7. \E b : Reads(FlattenSeq(parts), a, b) /\ Comes1(b, n)
  <2>1. CASE n = 0
    <3>1. FlattenSeq(parts) = <<>>
      BY <1>4, <2>1 DEF FlattenSeq
    <3>2. Reads(<<>>, a, a)
      BY NoStep DEF Reads
    <3> QED
      BY <1>6, <2>1, <3>1, <3>2
  <2>2. CASE n # 0
    <3>1. PICK flat : Glued(parts, flat) /\ FlattenSeq(parts) = flat[n]
      BY <1>4, <2>2, FlatIsGlued
    <3>2. \A k \in 1..n : flat[k] = IF k = 1 THEN parts[k] ELSE flat[k - 1] \o parts[k]
      BY <1>4, <3>1 DEF Glued
    <3> DEFINE Comes(k) == \E b : Reads(flat[k], a, b) /\ Comes1(b, k)
               bad == {k \in 1..n : ~Comes(k)}
    <3>3. bad = {}
      <4> SUFFICES ASSUME bad # {} PROVE FALSE
        OBVIOUS
      <4>0. bad \in SUBSET Nat
        OBVIOUS
      <4>1. PICK x \in bad : \A y \in bad : x <= y
        BY <4>0, Least
      <4>2. x \in 1..n /\ ~Comes(x)
        OBVIOUS
      <4>3. CASE x = 1
        <5>1. Comes1(a, x - 1)
          BY <1>6, <4>3
        <5>2. \E b : Reads(part(x), a, b) /\ Comes1(b, x)
          BY <1>5, <4>2, <5>1
        <5>3. flat[x] = part(x)
          BY <1>4, <3>2, <4>2, <4>3
        <5> QED
          BY <4>2, <5>2, <5>3
      <4>4. CASE x # 1
        <5>1. x - 1 \in 1..n /\ x - 1 \notin bad
          BY <1>1, <4>1, <4>2, <4>4
        <5>2. PICK b : Reads(flat[x - 1], a, b) /\ Comes1(b, x - 1)
          BY <5>1
        <5>3. PICK c : Reads(part(x), b, c) /\ Comes1(c, x)
          BY <1>5, <4>2, <5>2
        <5>4. flat[x] = flat[x - 1] \o part(x)
          BY <1>4, <3>2, <4>2, <4>4
        <5>5. Reads(flat[x], a, c)
          BY <5>2, <5>3, <5>4, Then
        <5> QED
          BY <4>2, <5>3, <5>5
      <4> QED
        BY <4>3, <4>4
    <3>4. n \in 1..n
      BY <1>1, <2>2
    <3>5. Comes(n)
      BY <3>3, <3>4
    <3> QED
      BY <3>1, <3>5
  <2> QED
    BY <2>1, <2>2
<1>8. PICK b : Reads(FlattenSeq(parts), a, b) /\ Comes1(b, n)
  BY <1>7
<1>9. PICK w, t : Reads(<<Mark("]")>>, b, w) /\ ItemsDone(w, G, A, s, t, items)
  BY <1>8, ItemsClose DEF Comes1
<1>10. ItemsText(items, texts) = <<Mark("[")>> \o FlattenSeq(parts) \o <<Mark("]")>>
  BY <1>2 DEF Brackets
<1>11. Reads(ItemsText(items, texts), v, w)
  BY <1>3, <1>8, <1>9, <1>10, Then
<1> QED
  BY <1>9, <1>11

-----------------------------------------------------------------------------
(* The slots of an array *)

\* The items as they come back.
BackItems(A, items, back) ==
  /\ DOMAIN back = DOMAIN items /\ Len(back) = Len(items)
  /\ \A k \in DOMAIN items : /\ back[k].comma = items[k].comma
                             /\ back[k].block = Back(A, items[k].block)

\* A block comes back with its own id.
LEMMA BackId ==
  ASSUME NEW A \in {"fns", "dps"}, NEW block \in BlocksOf(A)
  PROVE  Back(A, block).id = block.id
<1>1. CASE A = "fns"
  BY <1>1 DEF Back
<1>2. CASE A = "dps"
  <2>1. block \in DocDps
    BY <1>2 DEF BlocksOf
  <2>2. \A x : [block EXCEPT !.value = x].id = block.id
    BY <2>1 DEF DocDps
  <2>3. Reread(block) = block \/ \E x : Reread(block) = [block EXCEPT !.value = x]
    BY Zenon DEF Reread
  <2> QED
    BY <1>2, <2>2, <2>3 DEF Back
<1> QED
  BY <1>1, <1>2

\* How far the items were read.
Last1(items, max) == IF Loads(items, max) THEN Len(items) ELSE Min(GivesUp(items, max))

\* Behind an array: the last item that was read is the one that Loaded stops at.
LEMMA DoneLast ==
  ASSUME NEW b, NEW G, NEW A \in {"fns", "dps"}, NEW s, NEW t, NEW items, NEW n,
         ItemsIn(A, items, n), ItemsDone(b, G, A, s, t, items)
  PROVE  /\ Last1(items, Room(A)) \in 0..n
         /\ Filled(s, t, A, items, Last1(items, Room(A)))
         /\ Loads(items, Room(A)) => Settled(b, G, t)
         /\ ~Loads(items, Room(A)) => Held(b, t)
<1> DEFINE max == Room(A)
<1>1. n \in Nat /\ Len(items) = n
  BY DEF ItemsIn
<1>2. CASE Loads(items, max)
  <2>1. \A k : ~Fails(items, A, k)
    BY <1>2 DEF Fails, Loads
  <2>2. Last1(items, max) = n
    BY <1>1, <1>2 DEF Last1
  <2> QED
    BY <1>1, <1>2, <2>1, <2>2 DEF ItemsDone
<1>3. CASE ~Loads(items, max)
  <2>1. PICK k : Fails(items, A, k) /\ Held(b, t) /\ Filled(s, t, A, items, k)
    BY <1>3 DEF ItemsDone
  <2>2. /\ k \in GivesUp(items, max) /\ \A m \in GivesUp(items, max) : k <= m
        /\ \A m \in GivesUp(items, max) : m \in 1..n
    BY <2>1, GivesUpAt DEF Fails
  <2> DEFINE P(x) == x \in GivesUp(items, max) /\ \A y \in GivesUp(items, max) : x =< y
             min == CHOOSE x : P(x)
  <2>3. Min(GivesUp(items, max)) = CHOOSE x \in GivesUp(items, max) : \A y \in GivesUp(items, max) : x =< y
    BY Zenon DEF Min
  <2>4. \A x : P(x) => x = k
    BY <1>1, <2>2
  <2>5. Min(GivesUp(items, max)) = k
    BY <2>2, <2>3, <2>4
  <2>6. Last1(items, max) = k
    BY <1>3, <2>5 DEF Last1
  <2>7. k \in 0..n
    BY <1>1, <2>2
  <2> QED
    BY <1>3, <2>1, <2>6, <2>7
<1> QED
  BY <1>2, <1>3

\* Item by item, what is in the slots is what SpfgDocument says of the array.
LEMMA SlotsLoaded ==
  ASSUME NEW b, NEW G, NEW A \in {"fns", "dps"}, NEW s, NEW t, NEW items, NEW n,
         ItemsIn(A, items, n), ItemsDone(b, G, A, s, t, items),
         \A i \in Nat : Fresh(s, <<A>>, i), NEW back, BackItems(A, items, back)
  PROVE  /\ [k \in 1..Room(A) |-> SlotRead(A, t, k)] = Loaded(back, Room(A), ZeroOf(A))
         /\ Loads(back, Room(A)) <=> Loads(items, Room(A))
<1> DEFINE max == Room(A)
           zero == ZeroOf(A)
           last == Last1(items, max)
           value(k) == IF k > last THEN zero
                       ELSE IF k = max THEN [zero EXCEPT !.id = back[k].block.id]
                       ELSE back[k].block
<1>1. /\ n \in Nat /\ Len(items) = n /\ DOMAIN items = 1..n /\ DOMAIN back = 1..n /\ Len(back) = n
      /\ \A k \in 1..n : /\ back[k].comma = items[k].comma
                         /\ back[k].block = Back(A, items[k].block)
                         /\ items[k].block \in BlocksOf(A)
  BY DEF ItemsIn, BackItems
<1>2. GivesUp(back, max) = GivesUp(items, max)
  BY <1>1 DEF GivesUp
<1>3. Loads(back, max) <=> Loads(items, max)
  BY <1>2 DEF Loads
<1>4. last \in 0..n /\ Filled(s, t, A, items, last) /\ last = Last1(back, max)
  <2>1. last \in 0..n /\ Filled(s, t, A, items, last)
    BY DoneLast
  <2>2. last = Last1(back, max)
    BY <1>1, <1>2, <1>3 DEF Last1
  <2> QED
    BY <2>1, <2>2
<1>5. Loaded(back, max, zero) = [k \in 1..max |-> value(k)]
  <2>1. Loaded(back, max, zero) =
          [k \in 1..max |->
             IF k > Last1(back, max) THEN zero
             ELSE IF k = max THEN [zero EXCEPT !.id = back[k].block.id]
             ELSE back[k].block]
    BY Zenon DEF Loaded, Last1
  <2> HIDE DEF max, zero, last
  <2> QED
    BY <1>4, <2>1
<1>6. ASSUME NEW k \in 1..max PROVE SlotRead(A, t, k) = value(k)
  <2>1. k \in Nat /\ last \in Nat
    BY <1>1, <1>4
  <2>2. CASE k > last
    <3>1. Fresh(s, <<A>>, k)
      BY <2>1
    <3>2. Fresh(t, <<A>>, k)
      <4> HIDE DEF last
      <4> QED
        BY <1>4, <2>1, <2>2, <3>1, FilledFresh
    <3>3. SlotRead(A, t, k) = zero
      BY <3>2, FreshBack
    <3> QED
      BY <2>2, <3>3, Zenon
  <2>3. CASE ~(k > last)
    <3>1. k \in 1..last /\ k \in 1..n
      BY <1>1, <1>4, <2>1, <2>3
    <3>2. SlotRead(A, t, k) = Got(A, items, k)
      <4> HIDE DEF last
      <4> QED
        BY <1>4, <3>1 DEF Filled
    <3>3. back[k].block = Back(A, items[k].block) /\ back[k].block.id = items[k].block.id
      BY <1>1, <3>1, BackId
    <3>4. Got(A, items, k) = IF k = max THEN [zero EXCEPT !.id = back[k].block.id]
                             ELSE back[k].block
      <4>1. IdOnly(A, items[k].block) = [zero EXCEPT !.id = back[k].block.id]
        BY <3>3, Zenon DEF IdOnly
      <4> QED
        BY <3>3, <4>1, Zenon DEF Got
    <3> HIDE DEF last, zero, max
    <3> QED
      BY <2>3, <3>2, <3>4, Zenon
  <2> QED
    BY <2>2, <2>3
<1>7. [k \in 1..max |-> SlotRead(A, t, k)] = [k \in 1..max |-> value(k)]
  <2> HIDE DEF value
  <2> QED
    BY <1>6
<1> QED
  BY <1>3, <1>5, <1>7

-----------------------------------------------------------------------------
(* The grid *)

\* What is open before the text, in the grid and in its cursor.
RootItem == [type |-> "ROOT", isItem |-> FALSE, idx |-> 0, key |-> NoKey, count |-> 0]
TopAt == [stack |-> <<"DONE">>, items |-> <<RootItem>>, levels |-> <<Bottom>>]
Grid == Inside(TopAt, "OBJECT", Named("OBJECT", NoKey), Lev(RootSpec, <<>>))
Ctl == Inside(Grid, "OBJECT", Named("OBJECT", "ctl"), Lev(CtlSpec, <<"ctl">>))

\* Before the text nothing is open but the root.
LEMMA TopFacts ==
  /\ Context(TopAt) /\ Len(TopAt.stack) = 1 /\ Last(TopAt.stack) = "DONE"
  /\ TopAt.levels[1] = Bottom
<1>1. /\ IsSeq(<<"DONE">>) /\ IsSeq(<<RootItem>>) /\ IsSeq(<<Bottom>>)
  <2>1. \A x : <<x>> \in Seq({x})
    OBVIOUS
  <2> QED
    BY <2>1 DEF IsSeq
<1>2. RootItem.type # "LEAF"
  BY DEF RootItem
<1>3. /\ TopAt.stack = <<"DONE">> /\ TopAt.items = <<RootItem>> /\ TopAt.levels = <<Bottom>>
  BY DEF TopAt
<1>4. \A x : Len(<<x>>) = 1 /\ <<x>>[1] = x /\ Last(<<x>>) = x
  BY DEF Last
<1> QED
  BY <1>1, <1>2, <1>3, <1>4 DEF Context

\* An object that is not an item, open in a context.
PlainObject(I, n, node, at) ==
  /\ ObjectOpen(I) /\ Len(I.stack) = n + 1 /\ n \in Nat
  /\ I.levels[n + 1].node = node
  /\ \A k : Place(I, k) = Append(at, k)
  /\ \A s : ~Full(I, s) /\ Noted(I, s) = s
  /\ Last(I.stack) = "OBJECT"

\* An object that is no item has its members at its own address, and counts nothing.
LEMMA ObjectInside ==
  ASSUME NEW K, Context(K), Len(K.stack) + 1 < Depth, NEW key, NEW node, node.vtype = "OBJECT",
         NEW at
  PROVE  PlainObject(Inside(K, "OBJECT", Named("OBJECT", key), Lev(node, at)), Len(K.stack),
                     node, at)
<1> DEFINE I == Inside(K, "OBJECT", Named("OBJECT", key), Lev(node, at))
           item == Named("OBJECT", key)
           level == Lev(node, at)
           n == Len(K.stack)
<1>1. n \in Nat
  BY StackInside
<1>2. item.type # "LEAF" /\ item.isItem = FALSE
  BY DEF Named
<1>3. level.node = node /\ level.at = at
  BY DEF Lev
<1>4. Len(K.items) = n /\ Len(K.levels) = n
  BY DEF Context
<1> HIDE DEF item, level
<1>5. /\ Context(I) /\ Extends(I.stack, K.stack, "OBJECT") /\ Extends(I.items, K.items, item)
      /\ Extends(I.levels, K.levels, level)
  BY <1>2, InsideFacts DEF item, level
<1> HIDE DEF I
<1>6. /\ Len(I.stack) = n + 1 /\ Last(I.stack) = "OBJECT"
      /\ I.items[n + 1] = item /\ I.levels[n + 1] = level
  BY <1>4, <1>5 DEF Extends
<1>7. ObjectOpen(I)
  BY <1>1, <1>3, <1>5, <1>6, DepthAssumption DEF ObjectOpen
<1>8. I.items[Len(I.stack)].isItem = FALSE /\ I.levels[Len(I.stack)] = level
  BY <1>2, <1>6
<1>9. \A s : ~Full(I, s) /\ Noted(I, s) = s
  BY <1>8, Zenon DEF Full, Noted
<1>10. \A k : Place(I, k) = Append(at, k)
  BY <1>3, <1>8 DEF Place
<1>11. PlainObject(I, n, node, at)
  BY <1>1, <1>3, <1>6, <1>7, <1>8, <1>9, <1>10 DEF PlainObject
<1> QED
  BY <1>11 DEF I

\* The grid and its cursor are such objects; six levels are room for all below them.
LEMMA GridFacts ==
  ASSUME Depth >= 6
  PROVE  /\ GridAt(Grid) /\ ObjectOpen(Grid) /\ Len(Grid.stack) = 2 /\ Last(Grid.stack) = "OBJECT"
         /\ Grid.levels[2].node = RootSpec
         /\ \A s : ~Full(Grid, s) /\ Noted(Grid, s) = s
         /\ \A k : Place(Grid, k) = <<k>>
         /\ ObjectOpen(Ctl)
         /\ \A s : ~Full(Ctl, s) /\ Noted(Ctl, s) = s
         /\ Ctl.levels[Len(Ctl.stack)].node = CtlSpec
         /\ \A k : Place(Ctl, k) = <<"ctl", k>>
<1>1. Depth \in Nat
  BY DepthAssumption
<1>2. RootSpec.vtype = "OBJECT" /\ CtlSpec.vtype = "OBJECT"
  BY DEF RootSpec, CtlSpec, Object
<1>3. \A k : Append(<<>>, k) = <<k>> /\ Append(<<"ctl">>, k) = <<"ctl", k>>
  <2> TAKE k
  <2>1. Append(<<>>, k) = <<k>>
    OBVIOUS
  <2>2. \A x : <<x, k>> = Append(<<x>>, k)
    OBVIOUS
  <2>3. Append(<<"ctl">>, k) = <<"ctl", k>>
    BY <2>2
  <2> QED
    BY <2>1, <2>3
<1>4. PlainObject(Grid, 1, RootSpec, <<>>)
  <2>1. Context(TopAt) /\ Len(TopAt.stack) + 1 < Depth /\ Len(TopAt.stack) = 1
    BY <1>1, TopFacts
  <2>2. PlainObject(Inside(TopAt, "OBJECT", Named("OBJECT", NoKey), Lev(RootSpec, <<>>)),
                    Len(TopAt.stack), RootSpec, <<>>)
    BY <1>2, <2>1, ObjectInside
  <2> QED
    BY <2>1, <2>2, Zenon DEF Grid
<1>5. PlainObject(Ctl, 2, CtlSpec, <<"ctl">>)
  <2>1. Context(Grid) /\ Len(Grid.stack) + 1 < Depth /\ Len(Grid.stack) = 2
    BY <1>1, <1>4 DEF ObjectOpen, PlainObject
  <2>2. PlainObject(Inside(Grid, "OBJECT", Named("OBJECT", "ctl"), Lev(CtlSpec, <<"ctl">>)),
                    Len(Grid.stack), CtlSpec, <<"ctl">>)
    BY <1>2, <2>1, ObjectInside
  <2> QED
    BY <2>1, <2>2, Zenon DEF Ctl
<1>6. GridAt(Grid)
  BY <1>1, <1>3, <1>4 DEF GridAt, PlainObject
<1> QED
  BY <1>3, <1>4, <1>5, <1>6 DEF PlainObject

\* The brace in front of the grid and the one in front of its cursor.
LEMMA GridOpens ==
  ASSUME Depth >= 6, NEW a, NEW s, AtObject(a, TopAt, NoKey, s)
  PROVE  \E b : Reads(<<Mark("{")>>, a, b) /\ AtKey(b, Grid, s)
<1>1. /\ Context(TopAt) /\ Len(TopAt.stack) = 1 /\ Last(TopAt.stack) = "DONE"
      /\ TopAt.levels[1] = Bottom
  BY TopFacts
<1>2. Bottom.node.vtype = "none" /\ "none" \notin Scalars
  BY DEF Bottom, Leaf, Scalars
<1>3. Only(Part(Bottom.node, Named("OBJECT", NoKey), "NO"), RootSpec)
  BY <1>2, Zenon DEF Part, Only
<1>4. ObjectIn(TopAt, NoKey, RootSpec)
  BY <1>1, <1>2, <1>3, DepthAssumption DEF ObjectIn
<1>5. Level(Bottom, Named("OBJECT", NoKey), RootSpec) = Lev(RootSpec, <<>>)
  BY <1>2, Zenon DEF Level, Lev
<1>6. \E b : /\ Reads(<<Mark("{")>>, a, b)
             /\ AtKey(b, Inside(TopAt, "OBJECT", Named("OBJECT", NoKey),
                                Level(TopAt.levels[Len(TopAt.stack)], Named("OBJECT", NoKey), RootSpec)), s)
  BY <1>4, ObjectOpens
<1> QED
  BY <1>1, <1>5, <1>6 DEF Grid

\* The brace in front of the cursor.
LEMMA CtlOpens ==
  ASSUME Depth >= 6, NEW a, NEW s, AtValue(a, Grid, "ctl", s)
  PROVE  \E b : Reads(<<Mark("{")>>, a, b) /\ AtKey(b, Ctl, s)
<1>1. /\ ObjectOpen(Grid) /\ Len(Grid.stack) = 2 /\ Last(Grid.stack) = "OBJECT"
      /\ Grid.levels[2].node = RootSpec /\ \A k : Place(Grid, k) = <<k>>
  BY GridFacts
<1>2. RootSpec.vtype = "OBJECT" /\ "OBJECT" \notin Scalars /\ RootSpec.vtype # "none"
  BY DEF RootSpec, Object, Scalars
<1>3. ObjectIn(Grid, "ctl", CtlSpec)
  <2>1. Kid(RootSpec, "OBJECT", "ctl", "NO", CtlSpec)
    BY GridKids
  <2>2. "ctl" # NoKey
    BY DEF NoKey
  <2>3. Len(Grid.stack) + 1 < Depth
    BY <1>1, DepthAssumption
  <2> QED
    BY <1>1, <1>2, <2>1, <2>2, <2>3 DEF ObjectIn, Kid, ObjectOpen
<1>4. AtObject(a, Grid, "ctl", s)
  BY DEF AtObject, AtValue
<1>5. PICK b : /\ Reads(<<Mark("{")>>, a, b)
               /\ AtKey(b, Inside(Grid, "OBJECT", Named("OBJECT", "ctl"),
                                  Level(Grid.levels[Len(Grid.stack)], Named("OBJECT", "ctl"), CtlSpec)), s)
  BY <1>3, <1>4, ObjectOpens
<1>6. Level(Grid.levels[2], Named("OBJECT", "ctl"), CtlSpec) = Lev(CtlSpec, <<"ctl">>)
  <2>1. "OBJECT" # "ROOT" /\ Grid.levels[2].node.vtype # "none"
    BY <1>1, <1>2
  <2>2. Level(Grid.levels[2], Named("OBJECT", "ctl"), CtlSpec)
        = Lev(CtlSpec, Append(Grid.levels[2].at, "ctl"))
    BY <2>1, Levels
  <2>3. Append(Grid.levels[2].at, "ctl") = <<"ctl">>
    BY <1>1 DEF Place
  <2> QED
    BY <2>2, <2>3
<1> QED
  BY <1>1, <1>5, <1>6, Zenon DEF Ctl

\* A key of an object that is not an item, the first one and the others.
LEMMA PlainKey ==
  ASSUME NEW K, ObjectOpen(K), \A s : ~Full(K, s) /\ Noted(K, s) = s, NEW a, NEW s, NEW key
  PROVE  /\ AtKey(a, K, s) => \E v : Reads(Key(key), a, v) /\ AtValue(v, K, key, s)
         /\ \A T, b : Reads(T, a, b) /\ Ends(b, K, s) =>
              \E v : Reads(T \o Comma1 \o Key(key), a, v) /\ AtValue(v, K, key, s)
<1>1. ASSUME NEW c, AtKey(c, K, s)
      PROVE  \E v : Reads(Key(key), c, v) /\ AtValue(v, K, key, s)
  BY <1>1, KeyReads
<1>2. ASSUME NEW T, NEW b, Reads(T, a, b), Ends(b, K, s)
      PROVE  \E v : Reads(T \o Comma1 \o Key(key), a, v) /\ AtValue(v, K, key, s)
  <2>1. PICK c : Reads(Comma1, b, c) /\ AtKey(c, K, s)
    BY <1>2, CommaRead
  <2>2. PICK v : Reads(Key(key), c, v) /\ AtValue(v, K, key, s)
    BY <1>1, <2>1
  <2>3. Reads(T \o Comma1 \o Key(key), a, v)
    BY <1>2, <2>1, <2>2, Then
  <2> QED
    BY <2>2, <2>3
<1> QED
  BY <1>1, <1>2

-----------------------------------------------------------------------------
(* What has been read of a grid *)

\* The three parts of a grid as they are in the store.
FnsIn(s) == [k \in FnSlots |-> FnRead(s, k)]
DpsIn(s) == [k \in DpSlots |-> DpRead(s, k)]
CurIn(s) == At(s, <<"ctl", "curr_fn_idx">>, 0)
SlotsIn(A, s) == [k \in 1..Room(A) |-> SlotRead(A, s, k)]

\* The slots of either array, by their own names.
LEMMA SlotsAre ==
  ASSUME NEW s
  PROVE  /\ SlotsIn("fns", s) = FnsIn(s) /\ SlotsIn("dps", s) = DpsIn(s)
         /\ Room("fns") = MaxFns /\ Room("dps") = MaxDps
         /\ ZeroOf("fns") = ZeroFn /\ ZeroOf("dps") = ZeroDp
<1>1. Room("fns") = MaxFns /\ Room("dps") = MaxDps
  BY DEF Room, BlockList, Array
<1>2. "dps" # "fns"
  OBVIOUS
<1>3. \A k : SlotRead("fns", s, k) = FnRead(s, k) /\ SlotRead("dps", s, k) = DpRead(s, k)
  BY <1>2, Zenon DEF SlotRead
<1>4. SlotsIn("fns", s) = FnsIn(s) /\ SlotsIn("dps", s) = DpsIn(s)
  BY <1>1, <1>3, Zenon DEF SlotsIn, FnsIn, DpsIn, FnSlots, DpSlots
<1>5. ZeroOf("fns") = ZeroFn /\ ZeroOf("dps") = ZeroDp
  BY <1>2, Zenon DEF ZeroOf
<1> QED
  BY <1>1, <1>4, <1>5

\* Behind an array its slots hold what Loaded says of the blocks as they come back.
LEMMA SlotsBack ==
  ASSUME NEW b, NEW G, NEW A \in {"fns", "dps"}, NEW s, NEW t, NEW items, NEW n,
         ItemsIn(A, items, n), ItemsDone(b, G, A, s, t, items),
         \A i \in Nat : Fresh(s, <<A>>, i), NEW back, BackItems(A, items, back)
  PROVE  /\ SlotsIn(A, t) = Loaded(back, Room(A), ZeroOf(A))
         /\ Loads(back, Room(A)) <=> Loads(items, Room(A))
<1>1. /\ [k \in 1..Room(A) |-> SlotRead(A, t, k)] = Loaded(back, Room(A), ZeroOf(A))
      /\ Loads(back, Room(A)) <=> Loads(items, Room(A))
  BY SlotsLoaded
<1> QED
  BY <1>1, Zenon DEF SlotsIn

\* What is stored of one part does not change another.
LEMMA OtherParts ==
  ASSUME NEW A \in {"fns", "dps"}, NEW s, NEW t,
         \A x : Len(x) \in Nat /\ Len(x) > 0 /\ x[1] = A => Same(s, t, x)
  PROVE  SlotsIn(A, s) = SlotsIn(A, t)
<1>1. ASSUME NEW k PROVE SlotRead(A, s, k) = SlotRead(A, t, k)
  <2>1. SameIn(s, t, <<A>>, k)
    <3> SUFFICES ASSUME NEW x, Inner(x, <<A>>, k) PROVE Same(s, t, x)
      BY DEF SameIn
    <3>1. Len(<<A>>) = 1 /\ <<A>>[1] = A
      OBVIOUS
    <3>2. Len(x) \in Nat /\ Len(x) > 0 /\ x[1] = A
      BY <3>1 DEF Inner
    <3> QED
      BY <3>2
  <2> QED
    BY <2>1, SameBack
<1> QED
  BY <1>1, Zenon DEF SlotsIn

\* What the blocks of one array leave of everything else.
LEMMA FilledElse ==
  ASSUME NEW s, NEW t, NEW A, NEW items, NEW j, Filled(s, t, A, items, j),
         NEW x, Len(x) \in Nat, Len(x) > 0, x[1] # A
  PROVE  Same(s, t, x)
<1>1. Len(<<A>>) = 1 /\ <<A>>[1] = A
  OBVIOUS
<1>2. x # <<A>> /\ \A k : ~Inner(x, <<A>>, k)
  BY <1>1 DEF Inner
<1> QED
  BY <1>2 DEF Filled

\* The cursor and the slots of a part nothing of which is stored.
LEMMA NothingIn ==
  ASSUME NEW s
  PROVE  /\ <<"ctl", "curr_fn_idx">> \notin DOMAIN s => CurIn(s) = 0
         /\ \A A \in {"fns", "dps"} :
              (\A i \in Nat : Fresh(s, <<A>>, i)) =>
                SlotsIn(A, s) = [k \in 1..Room(A) |-> ZeroOf(A)]
<1>1. <<"ctl", "curr_fn_idx">> \notin DOMAIN s => CurIn(s) = 0
  BY DEF CurIn, At
<1>2. ASSUME NEW A \in {"fns", "dps"}, \A i \in Nat : Fresh(s, <<A>>, i)
      PROVE  SlotsIn(A, s) = [k \in 1..Room(A) |-> ZeroOf(A)]
  <2>1. ASSUME NEW k \in 1..Room(A) PROVE SlotRead(A, s, k) = ZeroOf(A)
    <3>1. k \in Nat
      BY BlockLists DEF Room
    <3> QED
      BY <1>2, <3>1, FreshBack
  <2> QED
    BY <2>1 DEF SlotsIn
<1> QED
  BY <1>1, <1>2

\* A store in which only the name of the grid is.
LEMMA NameIn ==
  LET s == Put(<<>>, <<"name">>, "g")
  IN  /\ \A A \in {"fns", "dps"} : Count(s, <<A>>) = 0 /\ \A i : Fresh(s, <<A>>, i)
      /\ <<"ctl", "curr_fn_idx">> \notin DOMAIN s
<1> DEFINE s == Put(<<>>, <<"name">>, "g")
<1>1. \A x : x \in DOMAIN s => x = <<"name">>
  BY DEF Put
<1> HIDE DEF s
<1>2. <<"ctl", "curr_fn_idx">> \notin DOMAIN s
  <2>1. Len(<<"ctl", "curr_fn_idx">>) = 2 /\ Len(<<"name">>) = 1
    OBVIOUS
  <2> QED
    BY <1>1, <2>1
<1>3. ASSUME NEW A \in {"fns", "dps"} PROVE Count(s, <<A>>) = 0 /\ \A i : Fresh(s, <<A>>, i)
  <2>1. /\ Len(<<A>>) = 1 /\ <<A>>[1] = A /\ Len(<<"name">>) = 1 /\ <<"name">>[1] = "name"
        /\ A # "name"
    OBVIOUS
  <2>2. <<A>> \notin DOMAIN s
    BY <1>1, <2>1
  <2>3. \A i : Fresh(s, <<A>>, i)
    BY <1>1, <2>1 DEF Fresh, Inner
  <2> QED
    BY <2>2, <2>3 DEF Count
<1> QED
  BY <1>2, <1>3 DEF s

-----------------------------------------------------------------------------
(* The parts of a document *)

\* The first member of the grid is its name.
LEMMA NamePart ==
  ASSUME Depth >= 6, NEW a, AtKey(a, Grid, <<>>)
  PROVE  \E b : /\ Reads(Key("name") \o Str("g"), a, b)
                /\ Ends(b, Grid, Put(<<>>, <<"name">>, "g"))
<1>1. /\ ObjectOpen(Grid) /\ \A s : ~Full(Grid, s) /\ Noted(Grid, s) = s
      /\ Grid.levels[Len(Grid.stack)].node = RootSpec
      /\ Place(Grid, "name") = <<"name">>
  BY GridFacts
<1>2. PICK v : Reads(Key("name"), a, v) /\ AtValue(v, Grid, "name", <<>>)
  BY <1>1, PlainKey
<1>3. Takes1(Grid, "name", "VS", Leaf("name", "STRING"))
  BY <1>1, GridKids DEF Takes1, Kid
<1>4. "name" # NoKey
  BY DEF NoKey
<1>5. Value(Grid, "name", <<>>, Str("g"), Put(<<>>, Place(Grid, "name"), "g"))
  BY <1>1, <1>3, <1>4, StrReads
<1>6. PICK b : Reads(Str("g"), v, b) /\ Ends(b, Grid, Put(<<>>, <<"name">>, "g"))
  BY <1>1, <1>2, <1>5 DEF Value
<1>7. Reads(Key("name") \o Str("g"), a, b)
  BY <1>2, <1>6, Then
<1> QED
  BY <1>6, <1>7

\* Then come its two arrays of blocks,
LEMMA ListPart ==
  ASSUME Depth >= 6, NEW A \in {"fns", "dps"}, NEW T, NEW a, NEW b, NEW s,
         Reads(T, a, b), Ends(b, Grid, s),
         Count(s, <<A>>) = 0, \A i \in Nat : Fresh(s, <<A>>, i),
         NEW items, NEW n, ItemsIn(A, items, n),
         NEW texts, \A k \in 1..n : texts[k] = TextOf(A, items[k].block)
  PROVE  \E w, t : /\ Reads(T \o Comma1 \o Key(A) \o ItemsText(items, texts), a, w)
                   /\ ItemsDone(w, Grid, A, s, t, items)
<1>1. /\ ObjectOpen(Grid) /\ \A x : ~Full(Grid, x) /\ Noted(Grid, x) = x
      /\ GridAt(Grid)
  BY GridFacts
<1>2. PICK v : Reads(T \o Comma1 \o Key(A), a, v) /\ AtValue(v, Grid, A, s)
  BY <1>1, PlainKey
<1>3. PICK w, t : Reads(ItemsText(items, texts), v, w) /\ ItemsDone(w, Grid, A, s, t, items)
  BY <1>1, <1>2, ItemsRead
<1>4. Reads(T \o Comma1 \o Key(A) \o ItemsText(items, texts), a, w)
  BY <1>2, <1>3, Then
<1> QED
  BY <1>3, <1>4

\* and its cursor.
LEMMA CtlPart ==
  ASSUME Depth >= 6, NEW T, NEW a, NEW b, NEW s, Reads(T, a, b), Ends(b, Grid, s), NEW n
  PROVE  \E w : /\ Reads(T \o Comma1 \o Key("ctl") \o Braces(Key("curr_fn_idx") \o Number(n)), a, w)
                /\ Settled(w, Grid, Put(s, <<"ctl", "curr_fn_idx">>, <<"int", n>>))
<1> DEFINE key == "curr_fn_idx"
           at == <<"ctl", "curr_fn_idx">>
           open == <<Mark("{")>>
           close == <<Mark("}")>>
           u == Put(s, at, <<"int", n>>)
           K == Key(key)
           N == Number(n)
<1>1. /\ ObjectOpen(Grid) /\ \A x : ~Full(Grid, x) /\ Noted(Grid, x) = x
      /\ ObjectOpen(Ctl) /\ \A x : ~Full(Ctl, x) /\ Noted(Ctl, x) = x
      /\ Ctl.levels[Len(Ctl.stack)].node = CtlSpec /\ Place(Ctl, key) = at
  BY GridFacts
<1>2. PICK v : Reads(T \o Comma1 \o Key("ctl"), a, v) /\ AtValue(v, Grid, "ctl", s)
  BY <1>1, PlainKey
<1>3. PICK c : Reads(open, v, c) /\ AtKey(c, Ctl, s)
  BY <1>2, CtlOpens
<1>4. PICK e : Reads(K, c, e) /\ AtValue(e, Ctl, key, s)
  BY <1>1, <1>3, PlainKey
<1>5. key # NoKey /\ key # "phase"
  BY DEF NoKey
<1>6. Takes1(Ctl, key, "VI", Leaf(key, "INTEGER"))
  BY <1>1, GridKids DEF Takes1, Kid
<1>7. Value(Ctl, key, s, N, u)
  <2>1. Value(Ctl, key, s, N, Put(s, Place(Ctl, key), Content(Leaf(key, "INTEGER"), "VI", n)))
    BY <1>1, <1>5, <1>6, IntReads
  <2>2. Content(Leaf(key, "INTEGER"), "VI", n) = <<"int", n>>
    BY <1>5, Contents
  <2> QED
    BY <1>1, <2>1, <2>2
<1> HIDE DEF u
<1>8. PICK f : Reads(N, e, f) /\ Ends(f, Ctl, u)
  BY <1>4, <1>7 DEF Value
<1>9. PICK w : Reads(close, f, w) /\ Settled(w, Grid, u)
  <2>1. Context(Grid)
    BY <1>1 DEF ObjectOpen
  <2>2. Named("OBJECT", "ctl").type # "LEAF"
    BY DEF Named
  <2>3. Ctl = Inside(Grid, "OBJECT", Named("OBJECT", "ctl"), Lev(CtlSpec, <<"ctl">>))
    BY Zenon DEF Ctl
  <2> QED
    BY <1>1, <1>8, <2>1, <2>2, <2>3, CloseRead
<1> HIDE DEF open, close, K, N
<1>10. Reads(open \o (K \o N) \o close, v, w)
  <2>1. Reads(K \o N, c, f)
    BY <1>4, <1>8, Then
  <2>2. Reads(open \o (K \o N), v, f)
    BY <1>3, <2>1, Then
  <2> QED
    BY <1>9, <2>2, Then
<1>11. Reads(T \o Comma1 \o Key("ctl") \o (open \o (K \o N) \o close), a, w)
  BY <1>2, <1>10, Then
<1>12. Braces(K \o N) = open \o (K \o N) \o close
  BY Zenon DEF Braces, open, close
<1>13. Reads(T \o Comma1 \o Key("ctl") \o Braces(K \o N), a, w)
  BY <1>11, <1>12
<1> QED
  BY <1>9, <1>13 DEF K, N, u

-----------------------------------------------------------------------------
(* What loading promises *)

\* What Import says of a document as it comes back, part by part.
LEMMA ImportIs ==
  ASSUME NEW d \in Docs
  PROVE  LET r == RereadDoc(d)
             i == Import(r)
         IN  /\ i.ok <=> Loads(r.fns, MaxFns) /\ Loads(r.dps, MaxDps)
             /\ i.fns = Loaded(r.fns, MaxFns, ZeroFn)
             /\ Loads(r.fns, MaxFns) => i.dps = Loaded(r.dps, MaxDps, ZeroDp)
             /\ ~Loads(r.fns, MaxFns) => i.dps = ZeroDps
             /\ i.ok => i.cur = d.cur
             /\ ~i.ok => i.cur = 0
             /\ BackItems("fns", d.fns, r.fns) /\ BackItems("dps", d.dps, r.dps)
             /\ ItemsIn("fns", d.fns, Len(d.fns)) /\ ItemsIn("dps", d.dps, Len(d.dps))
<1> DEFINE r == RereadDoc(d)
           back(k) == [d.dps[k] EXCEPT !.block = Reread(@)]
<1>1. d \in [fns: ItemsOf(DocFns), dps: ItemsOf(DocDps), cur: Int]
  BY DocsAssumption
<1>2. r.fns = d.fns /\ r.cur = d.cur /\ r.dps = [k \in DOMAIN d.dps |-> back(k)]
  <2> DEFINE X == [k \in DOMAIN d.dps |-> back(k)]
  <2>1. r = [d EXCEPT !.dps = X]
    BY Zenon DEF RereadDoc, RereadItem
  <2> HIDE DEF X, r
  <2>3. r.fns = d.fns /\ r.cur = d.cur /\ r.dps = X
    BY <1>1, <2>1
  <2> QED
    BY <2>3 DEF X
<1>3. ASSUME NEW A \in {"fns", "dps"}, NEW items \in ItemsOf(BlocksOf(A))
      PROVE  ItemsIn(A, items, Len(items))
  <2> DEFINE S == [block: BlocksOf(A), comma: BOOLEAN]
  <2>1. items \in Seq(S)
    BY <1>3 DEF ItemsOf
  <2>2. Len(items) \in Nat /\ DOMAIN items = 1..Len(items) /\ \A k \in 1..Len(items) : items[k] \in S
    <3> HIDE DEF S
    <3> QED
      BY <2>1
  <2>3. \A k \in 1..Len(items) : items[k].block \in BlocksOf(A) /\ items[k].comma \in BOOLEAN
    BY <2>2
  <2> QED
    BY <2>2, <2>3, Zenon DEF ItemsIn
<1>4. BlocksOf("fns") = DocFns /\ BlocksOf("dps") = DocDps
  BY DEF BlocksOf
<1>5. ItemsIn("fns", d.fns, Len(d.fns)) /\ ItemsIn("dps", d.dps, Len(d.dps))
  BY <1>1, <1>3, <1>4
<1>6. BackItems("fns", d.fns, r.fns)
  BY <1>2 DEF BackItems, Back
<1>7. BackItems("dps", d.dps, r.dps)
  <2>1. ASSUME NEW k \in DOMAIN d.dps
        PROVE  back(k).comma = d.dps[k].comma /\ back(k).block = Reread(d.dps[k].block)
    <3>1. d.dps[k] \in [block: DocDps, comma: BOOLEAN]
      <4> DEFINE S == [block: DocDps, comma: BOOLEAN]
      <4>1. d.dps \in Seq(S)
        BY <1>1 DEF ItemsOf
      <4> HIDE DEF S
      <4>2. d.dps[k] \in S
        BY <4>1
      <4> QED
        BY <4>2 DEF S
    <3> QED
      BY <3>1
  <2>2. Len(r.dps) = Len(d.dps) /\ DOMAIN r.dps = DOMAIN d.dps
    <3>1. Len(d.dps) \in Nat /\ DOMAIN d.dps = 1..Len(d.dps)
      BY <1>1 DEF ItemsOf
    <3> HIDE DEF back
    <3> QED
      BY <1>2, <3>1
  <2>3. \A k \in DOMAIN d.dps : r.dps[k] = back(k)
    BY <1>2
  <2>4. \A block : Back("dps", block) = Reread(block)
    BY DEF Back
  <2> HIDE DEF back, r
  <2> QED
    BY <2>1, <2>2, <2>3, <2>4 DEF BackItems
<1>8. LET i == Import(r)
      IN  /\ i.ok <=> Loads(r.fns, MaxFns) /\ Loads(r.dps, MaxDps)
          /\ i.fns = Loaded(r.fns, MaxFns, ZeroFn)
          /\ i.dps = IF Loads(r.fns, MaxFns) THEN Loaded(r.dps, MaxDps, ZeroDp) ELSE ZeroDps
          /\ i.cur = IF Loads(r.fns, MaxFns) /\ Loads(r.dps, MaxDps) THEN r.cur ELSE 0
  <2> HIDE DEF r
  <2> QED
    BY Zenon DEF Import
<1> HIDE DEF r
<1> QED
  BY <1>2, <1>5, <1>6, <1>7, <1>8, Zenon DEF r

\* The members of a grid: what is in the store behind them, and whether the reader
\* has come there.
GridDone(w, d) ==
  LET i == Import(RereadDoc(d))
  IN  \E t : /\ FnsIn(t) = i.fns /\ DpsIn(t) = i.dps /\ CurIn(t) = i.cur
             /\ i.ok => Settled(w, Grid, t)
             /\ ~i.ok => Held(w, t)
FnsText(d) == ItemsText(d.fns, [k \in DOMAIN d.fns |-> FnText(d.fns[k].block)])
DpsText(d) == ItemsText(d.dps, [k \in DOMAIN d.dps |-> DpText(d.dps[k].block)])
CtlText(d) == Braces(Key("curr_fn_idx") \o Number(d.cur))
GridMembers(d) ==
  Key("name") \o Str("g") \o Comma1 \o Key("fns") \o FnsText(d)
  \o Comma1 \o Key("dps") \o DpsText(d) \o Comma1 \o Key("ctl") \o CtlText(d)

\* The texts of the parts.
LEMMA PartTexts ==
  ASSUME NEW d \in Docs
  PROVE  /\ \A k \in 1..Len(d.fns) :
              [j \in DOMAIN d.fns |-> FnText(d.fns[j].block)][k] = TextOf("fns", d.fns[k].block)
         /\ \A k \in 1..Len(d.dps) :
              [j \in DOMAIN d.dps |-> DpText(d.dps[j].block)][k] = TextOf("dps", d.dps[k].block)
         /\ IsSeq(DpsText(d)) /\ IsSeq(CtlText(d))
<1>1. /\ ItemsIn("fns", d.fns, Len(d.fns)) /\ ItemsIn("dps", d.dps, Len(d.dps))
      /\ d.cur \in Int /\ d.dps \in ItemsOf(DocDps)
  BY ImportIs, DocsAssumption
<1>2. DOMAIN d.fns = 1..Len(d.fns) /\ DOMAIN d.dps = 1..Len(d.dps)
  BY <1>1 DEF ItemsIn
<1>3. \A block : TextOf("fns", block) = FnText(block) /\ TextOf("dps", block) = DpText(block)
  BY DEF TextOf
<1> DEFINE dpTexts == [k \in DOMAIN d.dps |-> DpText(d.dps[k].block)]
<1>4. \A k \in 1..Len(d.fns) :
        [j \in DOMAIN d.fns |-> FnText(d.fns[j].block)][k] = TextOf("fns", d.fns[k].block)
  BY <1>2, <1>3
<1>5. \A k \in 1..Len(d.dps) : dpTexts[k] = DpText(d.dps[k].block)
  BY <1>2
<1>6. IsSeq(DpsText(d))
  <2>1. \A k \in 1..Len(d.dps) : d.dps[k].block \in DocDps
    BY <1>1 DEF ItemsIn, BlocksOf
  <2>2. \A k \in 1..Len(d.dps) : Walks(DpText(d.dps[k].block), Ready("blocks"), Ready("blocks"))
    BY <2>1, DpWalks DEF DocDps
  <2>3. \A k \in 1..Len(d.dps) : Walks(dpTexts[k], Ready("blocks"), Ready("blocks"))
    BY <1>5, <2>2
  <2> HIDE DEF dpTexts
  <2>4. Walks(ItemsText(d.dps, dpTexts), Spot("grid", "value", "dps"), After("grid"))
    BY <1>1, <2>3, ItemsWalk
  <2>5. IsSeq(ItemsText(d.dps, dpTexts))
    BY <2>4 DEF Walks, Path, IsSeq
  <2> QED
    BY <2>5, Zenon DEF DpsText, dpTexts
<1>7. IsSeq(CtlText(d))
  <2>1. Key("curr_fn_idx") \in Seq({Quote("curr_fn_idx"), Quote(Unknown), Mark(":")})
    BY DEF Key, Str
  <2>2. IsSeq(Key("curr_fn_idx")) /\ IsSeq(Number(d.cur))
    BY <1>1, <2>1, Texts1 DEF IsSeq
  <2> QED
    BY <2>2, SeqJoin DEF CtlText, Braces
<1> QED
  BY <1>3, <1>4, <1>5, <1>6, <1>7

\* The text between the braces of the grid: an array that is not read to its end stops the
\* reader, and then nothing of what follows it is stored.
LEMMA GridReads ==
  ASSUME Depth >= 6, NEW d \in Docs, NEW a, AtKey(a, Grid, <<>>)
  PROVE  \E w : Reads(GridMembers(d), a, w) /\ GridDone(w, d)
<1> DEFINE r == RereadDoc(d)
           i == Import(r)
           s == Put(<<>>, <<"name">>, "g")
           at == <<"ctl", "curr_fn_idx">>
           T1 == Key("name") \o Str("g")
           T2 == T1 \o Comma1 \o Key("fns") \o FnsText(d)
           T3 == T2 \o Comma1 \o Key("dps") \o DpsText(d)
           T4 == T3 \o Comma1 \o Key("ctl") \o CtlText(d)
<1>1. /\ i.ok <=> Loads(r.fns, MaxFns) /\ Loads(r.dps, MaxDps)
      /\ i.fns = Loaded(r.fns, MaxFns, ZeroFn)
      /\ Loads(r.fns, MaxFns) => i.dps = Loaded(r.dps, MaxDps, ZeroDp)
      /\ ~Loads(r.fns, MaxFns) => i.dps = ZeroDps
      /\ i.ok => i.cur = d.cur
      /\ ~i.ok => i.cur = 0
      /\ BackItems("fns", d.fns, r.fns) /\ BackItems("dps", d.dps, r.dps)
      /\ ItemsIn("fns", d.fns, Len(d.fns)) /\ ItemsIn("dps", d.dps, Len(d.dps))
  BY ImportIs
<1>2. PICK b : Reads(T1, a, b) /\ Ends(b, Grid, s)
  BY NamePart
<1>3. /\ \A A \in {"fns", "dps"} : Count(s, <<A>>) = 0 /\ \A k : Fresh(s, <<A>>, k)
      /\ at \notin DOMAIN s
  BY NameIn
<1>4. /\ Room("fns") = MaxFns /\ Room("dps") = MaxDps
      /\ ZeroOf("fns") = ZeroFn /\ ZeroOf("dps") = ZeroDp
      /\ \A x : SlotsIn("fns", x) = FnsIn(x) /\ SlotsIn("dps", x) = DpsIn(x)
  BY SlotsAre
<1>5. at[1] = "ctl" /\ Len(at) = 2
  OBVIOUS
<1>6. IsSeq(DpsText(d)) /\ IsSeq(CtlText(d))
  BY PartTexts
<1> HIDE DEF s, r, i, at, T1
<1>7. PICK w, t : Reads(T2, a, w) /\ ItemsDone(w, Grid, "fns", s, t, d.fns)
  <2> DEFINE texts == [k \in DOMAIN d.fns |-> FnText(d.fns[k].block)]
  <2>1. \A k \in 1..Len(d.fns) : texts[k] = TextOf("fns", d.fns[k].block)
    BY PartTexts
  <2>2. FnsText(d) = ItemsText(d.fns, texts)
    BY Zenon DEF FnsText
  <2> HIDE DEF texts
  <2>3. \E w, t : /\ Reads(T1 \o Comma1 \o Key("fns") \o ItemsText(d.fns, texts), a, w)
                  /\ ItemsDone(w, Grid, "fns", s, t, d.fns)
    BY <1>1, <1>2, <1>3, <2>1, ListPart
  <2> QED
    BY <2>2, <2>3
<1>8. /\ SlotsIn("fns", t) = Loaded(r.fns, MaxFns, ZeroFn)
      /\ Loads(r.fns, MaxFns) <=> Loads(d.fns, MaxFns)
  <2>1. /\ SlotsIn("fns", t) = Loaded(r.fns, Room("fns"), ZeroOf("fns"))
        /\ Loads(r.fns, Room("fns")) <=> Loads(d.fns, Room("fns"))
    BY <1>1, <1>3, <1>7, SlotsBack
  <2> QED
    BY <1>4, <2>1
<1>9. /\ Filled(s, t, "fns", d.fns, Last1(d.fns, MaxFns))
      /\ Loads(d.fns, MaxFns) => Settled(w, Grid, t)
      /\ ~Loads(d.fns, MaxFns) => Held(w, t)
  BY <1>1, <1>4, <1>7, DoneLast
<1>10. \A x : Len(x) \in Nat /\ Len(x) > 0 /\ x[1] # "fns" => Same(s, t, x)
  BY <1>9, FilledElse
<1>11. at \notin DOMAIN t /\ \A k : Fresh(t, <<"dps">>, k) /\ Count(t, <<"dps">>) = 0
  <2>1. Len(<<"dps">>) = 1 /\ <<"dps">>[1] = "dps" /\ "dps" # "fns" /\ "ctl" # "fns"
    OBVIOUS
  <2>2. at \notin DOMAIN t
    BY <1>3, <1>5, <1>10, <2>1 DEF Same
  <2>3. Same(s, t, <<"dps">>)
    BY <1>10, <2>1
  <2>4. Count(t, <<"dps">>) = 0
    BY <1>3, <2>3 DEF Count, Same
  <2>5. ASSUME NEW k PROVE Fresh(t, <<"dps">>, k)
    <3> SUFFICES ASSUME NEW x, Inner(x, <<"dps">>, k) PROVE x \notin DOMAIN t
      BY DEF Fresh
    <3>1. Len(x) \in Nat /\ Len(x) > 0 /\ x[1] = "dps"
      BY <2>1 DEF Inner
    <3>2. Same(s, t, x)
      BY <1>10, <2>1, <3>1
    <3>3. x \notin DOMAIN s
      BY <1>3 DEF Fresh
    <3> QED
      BY <3>2, <3>3 DEF Same
  <2> QED
    BY <2>2, <2>4, <2>5
<1>12. CASE ~Loads(d.fns, MaxFns)
  <2>1. Held(w, t) /\ ~i.ok
    BY <1>1, <1>8, <1>9, <1>12
  <2>2. Reads(T4, a, w)
    <3> HIDE DEF T2
    <3>1. Reads(T3, a, w)
      BY <1>6, <1>7, <2>1, HeldMember
    <3> HIDE DEF T3
    <3> QED
      BY <1>6, <2>1, <3>1, HeldMember
  <2>3. FnsIn(t) = i.fns
    BY <1>1, <1>4, <1>8
  <2>4. DpsIn(t) = i.dps
    <3>1. DpsIn(t) = [k \in 1..MaxDps |-> ZeroDp]
      BY <1>4, <1>11, NothingIn
    <3>2. ZeroDps = [k \in 1..MaxDps |-> ZeroDp]
      BY Zenon DEF ZeroDps, DpSlots
    <3>3. i.dps = ZeroDps
      BY <1>1, <1>8, <1>12
    <3> QED
      BY <3>1, <3>2, <3>3
  <2>5. CurIn(t) = i.cur
    BY <1>1, <1>11, <2>1, NothingIn DEF at
  <2>6. GridDone(w, d)
    BY <2>1, <2>3, <2>4, <2>5, Zenon DEF GridDone, i, r
  <2> QED
    BY <2>2, <2>6, Zenon DEF GridMembers, T1
<1>13. CASE Loads(d.fns, MaxFns)
  <2>1. Ends(w, Grid, t)
    BY <1>9, <1>13 DEF Ends
  <2>2. PICK x, u : Reads(T3, a, x) /\ ItemsDone(x, Grid, "dps", t, u, d.dps)
    <3> DEFINE texts == [k \in DOMAIN d.dps |-> DpText(d.dps[k].block)]
    <3>1. \A k \in 1..Len(d.dps) : texts[k] = TextOf("dps", d.dps[k].block)
      BY PartTexts
    <3>2. DpsText(d) = ItemsText(d.dps, texts)
      BY Zenon DEF DpsText
    <3> HIDE DEF texts, T2
    <3>3. \E x, u : /\ Reads(T2 \o Comma1 \o Key("dps") \o ItemsText(d.dps, texts), a, x)
                    /\ ItemsDone(x, Grid, "dps", t, u, d.dps)
      BY <1>1, <1>7, <1>11, <2>1, <3>1, ListPart
    <3> QED
      BY <3>2, <3>3
  <2> HIDE DEF T2
  <2>3. /\ SlotsIn("dps", u) = Loaded(r.dps, MaxDps, ZeroDp)
        /\ Loads(r.dps, MaxDps) <=> Loads(d.dps, MaxDps)
    <3>1. /\ SlotsIn("dps", u) = Loaded(r.dps, Room("dps"), ZeroOf("dps"))
          /\ Loads(r.dps, Room("dps")) <=> Loads(d.dps, Room("dps"))
      BY <1>1, <1>11, <2>2, SlotsBack
    <3> QED
      BY <1>4, <3>1
  <2>4. /\ Filled(t, u, "dps", d.dps, Last1(d.dps, MaxDps))
        /\ Loads(d.dps, MaxDps) => Settled(x, Grid, u)
        /\ ~Loads(d.dps, MaxDps) => Held(x, u)
    BY <1>1, <1>4, <2>2, DoneLast
  <2>5. \A y : Len(y) \in Nat /\ Len(y) > 0 /\ y[1] # "dps" => Same(t, u, y)
    BY <2>4, FilledElse
  <2>6. "fns" # "dps" /\ "ctl" # "dps"
    OBVIOUS
  <2>7. SlotsIn("fns", u) = SlotsIn("fns", t)
    <3>1. \A y : Len(y) \in Nat /\ Len(y) > 0 /\ y[1] = "fns" => Same(t, u, y)
      BY <2>5, <2>6
    <3> QED
      BY <3>1, OtherParts
  <2>8. at \notin DOMAIN u
    BY <1>5, <1>11, <2>5, <2>6 DEF Same
  <2>9. FnsIn(u) = i.fns /\ DpsIn(u) = i.dps
    BY <1>1, <1>4, <1>8, <1>13, <2>3, <2>7
  <2>10. CASE ~Loads(d.dps, MaxDps)
    <3>1. Held(x, u) /\ ~i.ok
      BY <1>1, <2>3, <2>4, <2>10
    <3>2. Reads(T4, a, x)
      <4> HIDE DEF T3
      <4> QED
        BY <1>6, <2>2, <3>1, HeldMember
    <3>3. CurIn(u) = i.cur
      BY <1>1, <2>8, <3>1, NothingIn DEF at
    <3>4. GridDone(x, d)
      BY <2>9, <3>1, <3>3, Zenon DEF GridDone, i, r
    <3> QED
      BY <3>2, <3>4, Zenon DEF GridMembers, T1, T2
  <2>11. CASE Loads(d.dps, MaxDps)
    <3> DEFINE y == Put(u, at, <<"int", d.cur>>)
    <3>1. i.ok /\ Ends(x, Grid, u)
      BY <1>1, <1>8, <1>13, <2>3, <2>4, <2>11 DEF Ends
    <3>2. PICK z : Reads(T4, a, z) /\ Settled(z, Grid, y)
      <4> HIDE DEF T3
      <4>1. \E z : /\ Reads(T3 \o Comma1 \o Key("ctl")
                            \o Braces(Key("curr_fn_idx") \o Number(d.cur)), a, z)
                   /\ Settled(z, Grid, Put(u, <<"ctl", "curr_fn_idx">>, <<"int", d.cur>>))
        BY <2>2, <3>1, CtlPart
      <4> QED
        BY <4>1, Zenon DEF CtlText, at
    <3>3. at \in DOMAIN y /\ y[at] = <<"int", d.cur>> /\ \A e : e # at => Same(u, y, e)
      BY PutFacts
    <3> HIDE DEF y
    <3>4. CurIn(y) = i.cur
      <4>1. CurIn(y) = y[at][2]
        BY <3>3, Zenon DEF CurIn, At, at
      <4> QED
        BY <1>1, <3>1, <3>3, <4>1
    <3>5. \A A \in {"fns", "dps"} : SlotsIn(A, y) = SlotsIn(A, u)
      <4> TAKE A \in {"fns", "dps"}
      <4>1. A # "ctl"
        OBVIOUS
      <4>2. \A e : Len(e) \in Nat /\ Len(e) > 0 /\ e[1] = A => Same(u, y, e)
        BY <1>5, <3>3, <4>1
      <4> QED
        BY <4>2, OtherParts
    <3>6. FnsIn(y) = i.fns /\ DpsIn(y) = i.dps
      BY <1>4, <2>9, <3>5
    <3>7. GridDone(z, d)
      BY <3>1, <3>2, <3>4, <3>6, Zenon DEF GridDone, i, r
    <3> QED
      BY <3>2, <3>7, Zenon DEF GridMembers, T1, T2
  <2> QED
    BY <2>10, <2>11
<1> QED
  BY <1>12, <1>13

-----------------------------------------------------------------------------
(* The whole text *)

\* A reader that has gone through the text of a document: what is in the store is
\* what Import says, and it has come to the end if Import takes the document.
AsImport(w, d) ==
  LET i == Import(RereadDoc(d))
      s == w.now.store
  IN  /\ FnsIn(s) = i.fns /\ DpsIn(s) = i.dps /\ CurIn(s) = i.cur
      /\ i.ok => ~w.off /\ w.now.parser.state = "OK" /\ w.now.parser.stack = <<"DONE">>
      /\ ~i.ok => w.off

\* The whole text, from the first brace to the last.
LEMMA TextReads ==
  ASSUME Depth >= 6, NEW d \in Docs, NEW a, AtObject(a, TopAt, NoKey, <<>>)
  PROVE  \E w : Reads(Text(d), a, w) /\ AsImport(w, d)
<1> DEFINE i == Import(RereadDoc(d))
           T == <<Mark("{")>> \o GridMembers(d)
<1>1. Text(d) = T \o <<Mark("}")>>
  BY Zenon DEF Text, Braces, GridMembers, FnsText, DpsText, CtlText
<1>2. PICK b : Reads(<<Mark("{")>>, a, b) /\ AtKey(b, Grid, <<>>)
  BY GridOpens
<1>3. PICK w : Reads(GridMembers(d), b, w) /\ GridDone(w, d)
  BY <1>2, GridReads
<1>4. Reads(T, a, w)
  BY <1>2, <1>3, Then
<1>5. PICK t : /\ FnsIn(t) = i.fns /\ DpsIn(t) = i.dps /\ CurIn(t) = i.cur
               /\ i.ok => Settled(w, Grid, t)
               /\ ~i.ok => Held(w, t)
  BY <1>3, Zenon DEF GridDone
<1> HIDE DEF T
<1>6. CASE i.ok
  <2> HIDE DEF i
  <2>1. Ends(w, Grid, t)
    BY <1>5, <1>6 DEF Ends
  <2>2. Context(TopAt) /\ TopAt.stack = <<"DONE">>
    BY TopFacts DEF TopAt
  <2>3. Named("OBJECT", NoKey).type # "LEAF"
    BY DEF Named
  <2>4. Grid = Inside(TopAt, "OBJECT", Named("OBJECT", NoKey), Lev(RootSpec, <<>>))
    BY Zenon DEF Grid
  <2>5. ObjectOpen(Grid)
    BY GridFacts
  <2>6. PICK x : Reads(<<Mark("}")>>, w, x) /\ Settled(x, TopAt, t)
    BY <2>1, <2>2, <2>3, <2>4, <2>5, CloseRead
  <2>7. Reads(Text(d), a, x)
    BY <1>1, <1>4, <2>6, Then
  <2>8. /\ ~x.off /\ x.now.parser.state = "OK" /\ x.now.parser.stack = <<"DONE">>
        /\ x.now.store = t
    BY <2>2, <2>6 DEF Settled
  <2>9. AsImport(x, d)
    BY <1>5, <1>6, <2>8, Zenon DEF AsImport, i
  <2> QED
    BY <2>7, <2>9
<1>7. CASE ~i.ok
  <2> HIDE DEF i
  <2>1. Held(w, t)
    BY <1>5, <1>7
  <2>2. IsSeq(<<Mark("}")>>)
    <3>1. <<Mark("}")>> \in Seq({Mark("}")})
      OBVIOUS
    <3> QED
      BY <3>1 DEF IsSeq
  <2>3. Reads(Text(d), a, w)
    BY <1>1, <1>4, <2>1, <2>2, MoreHeld
  <2>4. w.off /\ w.now.store = t
    BY <2>1 DEF Held
  <2>5. AsImport(w, d)
    BY <1>5, <1>7, <2>4, Zenon DEF AsImport, i
  <2> QED
    BY <2>3, <2>5
<1> QED
  BY <1>6, <1>7

\* A reader that has stopped stays as it is.
LEMMA OffStays ==
  ASSUME NEW X, NEW a, NEW b, Reads(X, a, b), a.off
  PROVE  b = a
<1>1. PICK S : X \in Seq(S)
  BY DEF Reads, Path
<1>2. PICK f : Leads("readers", X, f) /\ f[0] = a /\ f[Len(X)] = b
  BY DEF Reads, Path
<1>3. Len(X) \in Nat
  BY <1>1
<1>4. \A k \in 1..Len(X) : f[k - 1] = a => f[k] = a
  BY <1>2 DEF Leads, Steps, Advances
<1> DEFINE T == {k \in 0..Len(X) : f[k] # a}
<1>5. T = {}
  <2> SUFFICES ASSUME T # {} PROVE FALSE
    OBVIOUS
  <2>0. T # {}
    OBVIOUS
  <2>1. PICK k \in T : \A j \in T : k <= j
    <3>1. T \in SUBSET Nat
      BY <1>3
    <3> HIDE DEF T
    <3> QED
      BY <2>0, <3>1, Least
  <2>2. k # 0 /\ k - 1 \in 0..Len(X) /\ k \in 1..Len(X)
    BY <1>2, <1>3, <2>1
  <2>3. k - 1 \notin T
    BY <2>1, <2>2
  <2> QED
    BY <1>4, <2>1, <2>2, <2>3
<1> QED
  BY <1>2, <1>3, <1>5

\* Nothing is read from no letters.
LEMMA NothingRead ==
  ASSUME NEW a, NEW b, Reads(<<>>, a, b)
  PROVE  b = a
BY DEF Reads, Path

\* What becomes of a letter is a record of four parts.
LEMMA OutcomeRecord ==
  ASSUME NEW now, NEW l, NEW o \in Outcome(now, l)
  PROVE  o = [parser |-> o.parser, trail |-> o.trail, loader |-> o.loader, store |-> o.store]
<1>1. PICK p, t, up, s : o = [parser |-> p, trail |-> t, loader |-> up, store |-> s]
  BY OutcomeParts
<1> QED
  BY <1>1

\* A store and a verdict that are those of Import are its record.
LEMMA Agrees ==
  ASSUME NEW d \in Docs, NEW s, NEW ok \in BOOLEAN,
         FnsIn(s) = Import(RereadDoc(d)).fns, DpsIn(s) = Import(RereadDoc(d)).dps,
         CurIn(s) = Import(RereadDoc(d)).cur, ok <=> Import(RereadDoc(d)).ok
  PROVE  [ok |-> ok, fns |-> FnsIn(s), dps |-> DpsIn(s), cur |-> CurIn(s)]
           = Import(RereadDoc(d))
<1> DEFINE i == Import(RereadDoc(d))
           r == RereadDoc(d)
           both == Loads(r.fns, MaxFns) /\ Loads(r.dps, MaxDps)
<1>1. i.ok = both /\ i = [ok |-> i.ok, fns |-> i.fns, dps |-> i.dps, cur |-> i.cur]
  <2> HIDE DEF r
  <2>1. \A x, y, z, v : LET m == [ok |-> x, fns |-> y, dps |-> z, cur |-> v]
                        IN  m.ok = x /\ m.fns = y /\ m.dps = z /\ m.cur = v
    BY Zenon
  <2> QED
    BY <2>1, Zenon DEF Import, r
<1>2. ok = i.ok
  <2> HIDE DEF r
  <2>1. i.ok \in BOOLEAN
    BY <1>1, Zenon
  <2> QED
    BY <2>1, Zenon
<1> HIDE DEF i
<1> QED
  BY <1>1, <1>2, Zenon DEF i

-----------------------------------------------------------------------------
(* The reader of a saved text *)

\* While a saved text is read, the rest of it takes the reader from where it is to
\* what Import says; behind a verdict, that is what there is.
OnTheWay(now, rest, d) ==
  \E b : Reads(rest, [now |-> now, off |-> FALSE], b) /\ AsImport(b, d)
ImportInv ==
  /\ SavedInv
  /\ saved => /\ doc \in Docs
              /\ verdict = "reading" => OnTheWay(Now, todo, doc)
              /\ verdict \in {"ok", "refused"} => GridRead = Import(RereadDoc(doc))

\* Before the first letter the whole text is to come.
LEMMA ImportStarts == Depth >= 6 /\ ReaderInit => ImportInv
<1> SUFFICES ASSUME Depth >= 6, ReaderInit PROVE ImportInv
  OBVIOUS
<1>1. SavedInv
  BY SavedStarts
<1>2. /\ parser = [state |-> "GO", stack |-> <<"DONE">>, lex |-> "", token |-> "NO"]
      /\ trail = [items |-> <<RootItem>>, key |-> NoKey]
      /\ loader = <<Bottom>> /\ store = <<>> /\ verdict = "reading"
  BY Zenon DEF ReaderInit, Start, RootItem
<1>3. ASSUME saved PROVE doc \in Docs /\ OnTheWay(Now, todo, doc)
  <2> DEFINE a == [now |-> Now, off |-> FALSE]
  <2>1. doc \in Docs /\ todo = Text(doc)
    BY <1>3 DEF ReaderInit
  <2>2. a.now = Now /\ ~a.off
    OBVIOUS
  <2>3. /\ Now.parser = parser /\ Now.trail = trail /\ Now.loader = loader
        /\ Now.store = store
    BY DEF Now
  <2>4. /\ parser.state = "GO" /\ parser.stack = <<"DONE">>
        /\ trail.items = <<RootItem>> /\ trail.key = NoKey
    BY <1>2
  <2>5. Exact(Now, TopAt) /\ TopAt.stack = <<"DONE">>
    BY <1>2, <2>3, <2>4 DEF Exact, TopAt
  <2> HIDE DEF a
  <2>6. AtObject(a, TopAt, NoKey, <<>>)
    BY <1>2, <2>2, <2>3, <2>4, <2>5 DEF AtObject
  <2>7. \E w : Reads(Text(doc), a, w) /\ AsImport(w, doc)
    BY <2>1, <2>6, TextReads
  <2> QED
    BY <2>1, <2>7 DEF OnTheWay, a
<1> QED
  BY <1>1, <1>2, <1>3 DEF ImportInv

\* What is behind the last letter of a text.
LEMMA EndReached ==
  ASSUME NEW now, NEW d, OnTheWay(now, <<>>, d)
  PROVE  LET i == Import(RereadDoc(d))
         IN  /\ FnsIn(now.store) = i.fns /\ DpsIn(now.store) = i.dps
             /\ CurIn(now.store) = i.cur
             /\ i.ok /\ now.parser.state = "OK" /\ now.parser.stack = <<"DONE">>
<1> DEFINE a == [now |-> now, off |-> FALSE]
<1>1. a.now = now /\ ~a.off
  OBVIOUS
<1> HIDE DEF a
<1>2. PICK b : Reads(<<>>, a, b) /\ AsImport(b, d)
  BY DEF OnTheWay, a
<1>3. b = a
  BY <1>2, NothingRead
<1> DEFINE i == Import(RereadDoc(d))
<1>4. AsImport(a, d)
  BY <1>2, <1>3
<1>5. /\ FnsIn(now.store) = i.fns /\ DpsIn(now.store) = i.dps /\ CurIn(now.store) = i.cur
      /\ i.ok /\ now.parser.state = "OK" /\ now.parser.stack = <<"DONE">>
  BY <1>1, <1>4, Zenon DEF AsImport
<1> QED
  BY <1>5

\* A letter brings the reader on, or leaves it with what Import says.
LEMMA LetterReached ==
  ASSUME NEW now, NEW rest, rest # <<>>, NEW d, OnTheWay(now, rest, d)
  PROVE  LET i == Import(RereadDoc(d))
         IN  /\ \A o \in Outcome(now, Head(rest)) : OnTheWay(o, Tail(rest), d)
             /\ Outcome(now, Head(rest)) = {} =>
                  /\ FnsIn(now.store) = i.fns /\ DpsIn(now.store) = i.dps
                  /\ CurIn(now.store) = i.cur /\ ~i.ok
<1> DEFINE a == [now |-> now, off |-> FALSE]
           i == Import(RereadDoc(d))
           l == Head(rest)
<1>1. a.now = now /\ ~a.off
  OBVIOUS
<1> HIDE DEF a
<1>2. PICK b : Reads(rest, a, b) /\ AsImport(b, d)
  BY DEF OnTheWay, a
<1>3. PICK c : Steps("readers", a, Head(rest), c) /\ Path("readers", Tail(rest), c, b)
  BY <1>2, PathOn DEF Reads
<1>4. Advances(a, l, c) /\ Reads(Tail(rest), c, b)
  BY <1>3 DEF Steps, Reads
<1> HIDE DEF l, i
<1>5. ASSUME NEW o \in Outcome(now, l)
      PROVE  OnTheWay(o, Tail(rest), d)
  <2>1. c = [now |-> o, off |-> FALSE]
    BY <1>1, <1>4, <1>5 DEF Advances
  <2> QED
    BY <1>2, <1>4, <2>1 DEF OnTheWay
<1>6. ASSUME Outcome(now, l) = {}
      PROVE  /\ FnsIn(now.store) = i.fns /\ DpsIn(now.store) = i.dps
             /\ CurIn(now.store) = i.cur /\ ~i.ok
  <2>1. c = [now |-> now, off |-> TRUE]
    BY <1>1, <1>4, <1>6 DEF Advances
  <2>2. c.off /\ c.now = now
    BY <2>1
  <2>3. AsImport(c, d)
    BY <1>2, <1>4, <2>2, OffStays
  <2> QED
    BY <2>2, <2>3, Zenon DEF AsImport, i
<1> QED
  BY <1>5, <1>6 DEF l, i

\* Every step keeps the reader on the way, and a verdict finds it at the end.
LEMMA ImportKeeps == ImportInv /\ [ReaderNext]_readerVars => ImportInv'
<1> SUFFICES ASSUME ImportInv, [ReaderNext]_readerVars PROVE ImportInv'
  OBVIOUS
<1> DEFINE i == Import(RereadDoc(doc))
<1>1. SavedInv'
  BY SavedKeeps DEF ImportInv
<1>2. Now.store = store /\ Now.parser = parser
  BY DEF Now
<1>3. /\ GridRead = [ok |-> verdict = "ok", fns |-> FnsIn(store), dps |-> DpsIn(store),
                     cur |-> CurIn(store)]
      /\ GridRead' = [ok |-> verdict' = "ok", fns |-> FnsIn(store'), dps |-> DpsIn(store'),
                      cur |-> CurIn(store')]
  BY Zenon DEF GridRead, FnsIn, DpsIn, CurIn
<1>4. CASE ~saved'
  BY <1>1, <1>4 DEF ImportInv
<1>5. CASE saved' /\ UNCHANGED readerVars
  <2>1. /\ UNCHANGED <<saved, doc, todo, verdict, store>>
        /\ Now' = Now
    BY <1>5 DEF readerVars, Now
  <2>2. GridRead' = GridRead
    BY <1>3, <2>1
  <2> QED
    BY <1>1, <2>1, <2>2 DEF ImportInv
<1>6. CASE saved' /\ EndOfText
  <2>1. /\ saved /\ verdict = "reading" /\ UNCHANGED <<doc, todo, parser, store>>
        /\ verdict' = IF Finished THEN "ok" ELSE IF todo = <<>> THEN "refused" ELSE "cut"
    BY <1>6 DEF EndOfText
  <2>2. doc \in Docs /\ OnTheWay(Now, todo, doc)
    BY <2>1 DEF ImportInv
  <2>3. ASSUME verdict' \in {"ok", "refused"}
        PROVE  GridRead' = Import(RereadDoc(doc'))
    <3>1. todo = <<>>
      <4>1. CASE verdict' = "ok"
        <5>1. CutNeverAccepted'
          <6>1. SavedInv' => CutNeverAccepted'
            BY WholeBelow, PTL
          <6> QED
            BY <1>1, <6>1
        <5> QED
          BY <1>6, <2>1, <4>1, <5>1 DEF CutNeverAccepted
      <4>2. CASE verdict' # "ok"
        BY <2>1, <2>3, <4>2
      <4> QED
        BY <4>1, <4>2
    <3>2. /\ FnsIn(store) = i.fns /\ DpsIn(store) = i.dps /\ CurIn(store) = i.cur
          /\ i.ok /\ parser.state = "OK" /\ parser.stack = <<"DONE">>
      BY <1>2, <2>2, <3>1, EndReached
    <3>3. verdict' = "ok"
      BY <2>1, <3>2 DEF Finished
    <3>4. [ok |-> verdict' = "ok", fns |-> FnsIn(store), dps |-> DpsIn(store),
           cur |-> CurIn(store)] = Import(RereadDoc(doc))
      BY <2>2, <3>2, <3>3, Agrees
    <3> QED
      BY <1>3, <2>1, <3>4
  <2>4. verdict' # "reading"
    BY <2>1
  <2> QED
    BY <1>1, <2>1, <2>2, <2>3, <2>4 DEF ImportInv
<1>7. CASE saved' /\ ReadLetter
  <2> DEFINE l == Head(todo)
  <2>1. /\ saved /\ verdict = "reading" /\ todo # <<>> /\ todo' = Tail(todo) /\ doc' = doc
    BY <1>7 DEF ReadLetter
  <2>2. doc \in Docs /\ OnTheWay(Now, todo, doc)
    BY <2>1 DEF ImportInv
  <2>3. /\ \A o \in Outcome(Now, l) : OnTheWay(o, Tail(todo), doc)
        /\ Outcome(Now, l) = {} =>
             /\ FnsIn(store) = i.fns /\ DpsIn(store) = i.dps
             /\ CurIn(store) = i.cur /\ ~i.ok
    BY <1>2, <2>1, <2>2, LetterReached
  <2>4. CASE Outcome(Now, l) = {} /\ verdict' = "refused" /\ UNCHANGED store
    <3>1. [ok |-> verdict' = "ok", fns |-> FnsIn(store), dps |-> DpsIn(store),
           cur |-> CurIn(store)] = Import(RereadDoc(doc))
      BY <2>2, <2>3, <2>4, Agrees
    <3>2. GridRead' = Import(RereadDoc(doc'))
      BY <1>3, <2>1, <2>4, <3>1
    <3> QED
      BY <1>1, <2>1, <2>2, <2>4, <3>2 DEF ImportInv
  <2>5. ASSUME NEW o \in Outcome(Now, l), parser' = o.parser, trail' = o.trail,
               loader' = o.loader, store' = o.store, verdict' = verdict
        PROVE  ImportInv'
    <3>1. o = [parser |-> o.parser, trail |-> o.trail, loader |-> o.loader, store |-> o.store]
      BY OutcomeRecord
    <3>2. Now' = [parser |-> parser', trail |-> trail', loader |-> loader', store |-> store']
      BY DEF Now
    <3>3. Now' = o
      BY <2>5, <3>1, <3>2
    <3>4. OnTheWay(Now', todo', doc')
      BY <2>1, <2>3, <3>3
    <3> QED
      BY <1>1, <2>1, <2>2, <2>5, <3>4 DEF ImportInv
  <2>6. \/ Outcome(Now, l) = {} /\ verdict' = "refused" /\ UNCHANGED store
        \/ \E o \in Outcome(Now, l) : /\ parser' = o.parser /\ trail' = o.trail
                                      /\ loader' = o.loader /\ store' = o.store
                                      /\ verdict' = verdict
    BY <1>7 DEF ReadLetter
  <2> HIDE DEF l
  <2> QED
    BY <2>4, <2>5, <2>6
<1> QED
  BY <1>4, <1>5, <1>6, <1>7 DEF ReaderNext

\* Whatever grid was saved, the reader comes letter by letter to the verdict and to
\* the grid that SpfgDocument says loading it leaves: azjson.c and the specification
\* of spfg_export.c bring back what spfg_rt_export_json wrote, but for the reals
\* that the format changes, and refuse it where an array does not fit or a comma is
\* wrong.  The stacks must be deep enough for the ids of a block: AZJSON_DEPTH is 10.
THEOREM SavedGridsReadAsImport == Depth >= 6 => (ReaderSpec => []ReadsAsImport)
<1> SUFFICES ASSUME Depth >= 6 PROVE ReaderSpec => []ReadsAsImport
  OBVIOUS
<1>1. ReaderInit => ImportInv
  BY ImportStarts
<1>2. ImportInv => ReadsAsImport
  BY DEF ImportInv, ReadsAsImport
<1> QED
  BY <1>1, <1>2, ImportKeeps, PTL DEF ReaderSpec
=============================================================================
